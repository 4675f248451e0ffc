------------------------------- MODULE Keyring -------------------------------
(***************************************************************************)
(* The transaction identity service of one deployment: the ring of two     *)
(* signing keys, its two key files, the rotation that moves all four, and  *)
(* the tokens the ring has to verify (internal/tis, internal/keyfile).     *)
(*                                                                         *)
(* A rotation is started by the timer of main.go or by POST /keys/rotate,  *)
(* holds the mutex of the TIS throughout and writes two files one after    *)
(* the other; the process can be killed between any two of its steps.      *)
(***************************************************************************)
EXTENDS Integers, FiniteSets

CONSTANTS
  Timer,        \* the rotation goroutine of main.go
  Admins,       \* concurrent requests to POST /keys/rotate
  RotateEvery,  \* in units of the model's clock
  MaxTxnTTL,
  MaxTime, MaxKeys, MaxTokens, MaxForced, MaxFailures   \* bounds of the model

\* TestOverlapOutlivesToken asks for more than this; equality is enough.
ASSUME KeyringAssumption ==
  /\ Timer \notin Admins
  /\ {RotateEvery, MaxTxnTTL} \subseteq Nat \ {0}
  /\ MaxTxnTTL <= RotateEvery
  /\ {MaxTime, MaxKeys, MaxTokens, MaxForced, MaxFailures} \subseteq Nat

VARIABLES
  now,       \* the wall clock
  up,        \* the process runs
  disk,      \* the two key files; NoKey stands for a missing file
  ring,      \* keyring; after a kill, the ring the process had
  keyGen,    \* rotations of this process
  rot,       \* where each rotator is in Rotate
  next,      \* the key the rotation under way has generated
  fresh,     \* keys generated so far; key n is the n-th
  tokens,    \* unexpired tokens in the hands of agents
  forced,    \* requests to POST /keys/rotate so far
  failures   \* key files that could not be replaced so far

ringVars == <<ring, keyGen>>
vars == <<now, up, disk, ring, keyGen, rot, next, fresh, tokens, forced, failures>>

Rotators == {Timer} \cup Admins
NoKey == 0
Key == Nat \ {NoKey}
Token == [key : Key, exp : Nat]

Locking == {"demote", "install", "adopt"}
Locked == \E r \in Rotators : rot[r] \in Locking

RingKeys == {ring.cur, ring.prev} \ {NoKey}
DiskKeys == {disk.cur, disk.prev} \ {NoKey}

\* parse: the key a token names is one of the two, and it has not expired.
Verifies(t) == now < t.exp /\ t.key \in RingKeys

\* sign
Signed(exp) == [key |-> ring.cur, exp |-> exp]

Issue(t) ==
  /\ up
  /\ ~Locked
  /\ Cardinality(tokens \cup {t}) <= MaxTokens
  /\ tokens' = tokens \cup {t}

Goto(r, pc) == rot' = [rot EXCEPT ![r] = pc]

-----------------------------------------------------------------------------
Init ==
  /\ now = 0
  /\ up = FALSE
  /\ disk = [cur |-> NoKey, prev |-> NoKey]
  /\ ring = [cur |-> NoKey, prev |-> NoKey, rotated |-> 0]
  /\ keyGen = 0
  /\ rot = [r \in Rotators |-> "idle"]
  /\ next = NoKey
  /\ fresh = 0
  /\ tokens = {}
  /\ forced = 0
  /\ failures = 0

\* New, loadKeyring: a missing current key is created, a missing previous one is
\* not; the age of the current key starts anew.
Start ==
  /\ ~up
  /\ up' = TRUE
  /\ \/ /\ disk.cur = NoKey
        /\ fresh < MaxKeys
        /\ fresh' = fresh + 1
        /\ disk' = [cur |-> fresh + 1, prev |-> disk.prev]
     \/ /\ disk.cur # NoKey
        /\ UNCHANGED <<fresh, disk>>
  /\ ring' = [cur |-> disk'.cur, prev |-> disk.prev, rotated |-> now]
  /\ keyGen' = 0
  /\ UNCHANGED <<now, rot, next, tokens, forced, failures>>

\* The process ends, in whatever it was doing.
Stop ==
  /\ up
  /\ up' = FALSE
  /\ rot' = [r \in Rotators |-> "idle"]
  /\ next' = NoKey
  /\ UNCHANGED <<now, disk, ring, keyGen, fresh, tokens, forced, failures>>

\* An expired token is refused whatever signed it, so it is forgotten.
Tick ==
  /\ now < MaxTime
  /\ now' = now + 1
  /\ tokens' = {t \in tokens : now + 1 < t.exp}
  /\ UNCHANGED <<up, disk, ring, keyGen, rot, next, fresh, forced, failures>>

\* RotateDue takes the mutex and gives it back before Rotate takes it again.
TimerDue ==
  /\ up
  /\ rot[Timer] = "idle"
  /\ ~Locked
  /\ now - ring.rotated >= RotateEvery
  /\ Goto(Timer, "due")
  /\ UNCHANGED <<now, up, disk, ringVars, next, fresh, tokens, forced, failures>>

KeysRotate(a) ==
  /\ up
  /\ rot[a] = "idle"
  /\ forced < MaxForced
  /\ forced' = forced + 1
  /\ Goto(a, "due")
  /\ UNCHANGED <<now, up, disk, ringVars, next, fresh, tokens, failures>>

Lock(r) ==
  /\ rot[r] = "due"
  /\ ~Locked
  /\ fresh < MaxKeys
  /\ fresh' = fresh + 1
  /\ next' = fresh + 1
  /\ Goto(r, "demote")
  /\ UNCHANGED <<now, up, disk, ringVars, tokens, forced, failures>>

\* Mutants of Demote: the second file is forgotten; the wrong key goes there.
DemoteNothing(r) ==
  /\ rot[r] = "demote"
  /\ Goto(r, "install")
  /\ UNCHANGED <<now, up, disk, ringVars, next, fresh, tokens, forced, failures>>

DemoteOldest(r) ==
  /\ rot[r] = "demote"
  /\ disk' = [cur |-> disk.cur, prev |-> ring.prev]
  /\ Goto(r, "install")
  /\ UNCHANGED <<now, up, ringVars, next, fresh, tokens, forced, failures>>

\* keyfile.Replace of the previous key: the signing key is copied, not moved.
Demote(r) ==
  /\ rot[r] = "demote"
  /\ disk' = [cur |-> disk.cur, prev |-> ring.cur]
  /\ Goto(r, "install")
  /\ UNCHANGED <<now, up, ringVars, next, fresh, tokens, forced, failures>>

Install(r) ==
  /\ rot[r] = "install"
  /\ disk' = [cur |-> next, prev |-> disk.prev]
  /\ Goto(r, "adopt")
  /\ UNCHANGED <<now, up, ringVars, next, fresh, tokens, forced, failures>>

\* Mutant of RotateFails: the ring moves on although the disk did not.
RotateFailsAdopting(r) ==
  /\ rot[r] \in {"demote", "install"}
  /\ failures < MaxFailures
  /\ failures' = failures + 1
  /\ ring' = [cur |-> next, prev |-> ring.cur, rotated |-> now]
  /\ next' = NoKey
  /\ Goto(r, "idle")
  /\ UNCHANGED <<now, up, disk, keyGen, fresh, tokens, forced>>

\* Either Replace fails before its rename: Rotate returns, the file is as before.
RotateFails(r) ==
  /\ rot[r] \in {"demote", "install"}
  /\ failures < MaxFailures
  /\ failures' = failures + 1
  /\ next' = NoKey
  /\ Goto(r, "idle")
  /\ UNCHANGED <<now, up, disk, ringVars, fresh, tokens, forced>>

\* Mutants of Adopt: the clock of the interval is not reset; it is set to when the
\* next rotation is due.
AdoptUntimed(r) ==
  /\ rot[r] = "adopt"
  /\ ring' = [ring EXCEPT !.cur = next, !.prev = ring.cur]
  /\ keyGen' = keyGen + 1
  /\ next' = NoKey
  /\ Goto(r, "idle")
  /\ UNCHANGED <<now, up, disk, fresh, tokens, forced, failures>>

AdoptAhead(r) ==
  /\ rot[r] = "adopt"
  /\ ring' = [cur |-> next, prev |-> ring.cur, rotated |-> now + RotateEvery]
  /\ keyGen' = keyGen + 1
  /\ next' = NoKey
  /\ Goto(r, "idle")
  /\ UNCHANGED <<now, up, disk, fresh, tokens, forced, failures>>

\* The ring moves and keyGen is published; nobody sees one without the other that
\* could not have come earlier, because the ring is read under the mutex only.
Adopt(r) ==
  /\ rot[r] = "adopt"
  /\ ring' = [cur |-> next, prev |-> ring.cur, rotated |-> now]
  /\ keyGen' = keyGen + 1
  /\ next' = NoKey
  /\ Goto(r, "idle")
  /\ UNCHANGED <<now, up, disk, fresh, tokens, forced, failures>>

MintTxn ==
  /\ \E ttl \in 1 .. MaxTxnTTL : Issue(Signed(now + ttl))
  /\ UNCHANGED <<now, up, disk, ringVars, rot, next, fresh, forced, failures>>

\* DeriveChildTxn: a token that verifies is signed anew, for no longer.
DeriveChildTxn(t) ==
  /\ Verifies(t)
  /\ Issue(Signed(t.exp))
  /\ UNCHANGED <<now, up, disk, ringVars, rot, next, fresh, forced, failures>>

Rotate(r) == Lock(r) \/ Demote(r) \/ Install(r) \/ RotateFails(r) \/ Adopt(r)

\* What the process does, and the clock; AutoMint composes these with the gateway.
Work ==
  \/ Tick
  \/ TimerDue
  \/ \E a \in Admins : KeysRotate(a)
  \/ \E r \in Rotators : Rotate(r)
  \/ MintTxn
  \/ \E t \in tokens : DeriveChildTxn(t)

Next == Start \/ Stop \/ Work

Spec == Init /\ [][Next]_vars

-----------------------------------------------------------------------------
TypeOK ==
  /\ now \in Nat
  /\ up \in BOOLEAN
  /\ disk \in [cur : Nat, prev : Nat]
  /\ ring \in [cur : Nat, prev : Nat, rotated : 0 .. now]
  /\ keyGen \in Nat
  /\ rot \in [Rotators -> {"idle", "due"} \cup Locking]
  /\ next \in Nat
  /\ fresh \in Nat
  /\ tokens \subseteq Token
  /\ forced \in Nat
  /\ failures \in Nat

\* As long as rotations come from the timer only, every unexpired token verifies,
\* whatever key files could not be written and however often the process was
\* restarted: "it also has to exceed MaxTxnTTL, because a transaction token minted
\* a moment before a rotation must still verify for its whole life".
OutstandingVerify ==
  up /\ forced = 0 => \A t \in tokens : Verifies(t)

\* At every step of a rotation the two files hold the keys of all unexpired tokens,
\* so a kill there loses none of them: "Ordering is chosen for what a crash leaves
\* behind".
RestartKeepsTokens ==
  forced = 0 => \A t \in tokens : t.key \in DiskKeys

\* Outside a rotation the process signs with the key a restart would load, also
\* after a rotation that failed half way.
MemoryFollowsDisk ==
  up /\ ~Locked => ring.cur = disk.cur

\* A key that has been retired never verifies again, not even after a failed or
\* interrupted rotation and a restart: what joins the ring is younger than it.
RetiredNeverReturns ==
  [][\A k \in RingKeys' \ RingKeys : \A old \in RingKeys : old < k]_vars

\* SECURITY.md on POST /keys/rotate: "the displaced key keeps verifying for a full
\* interval, so a single call invalidates nothing".
OneForcedInvalidatesNothing ==
  up /\ forced <= 1 => \A t \in tokens : Verifies(t)
=============================================================================

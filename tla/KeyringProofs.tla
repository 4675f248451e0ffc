---------------------------- MODULE KeyringProofs ----------------------------
(***************************************************************************)
(* Theorems about the keyring: what TLC checks on a short interval and a   *)
(* few keys holds for every interval, lifetime and number of requests.     *)
(***************************************************************************)
EXTENDS Keyring, TLAPS

(* The inductive invariant.                                                *)

\* Rotate holds the mutex, in a process that runs.
LockInv ==
  /\ \A r, s \in Rotators : rot[r] \in Locking /\ rot[s] \in Locking => r = s
  /\ ~up => \A r \in Rotators : rot[r] = "idle"

\* Keys are numbered as they are generated, the one of a rotation under way last.
KeyInv ==
  /\ ring.cur <= fresh /\ ring.prev <= fresh
  /\ disk.cur <= fresh /\ disk.prev <= fresh
  /\ up => ring.cur # NoKey
  /\ Locked => ring.cur < next /\ ring.prev < next /\ next <= fresh

\* How far the two files are ahead of the ring.
DiskInv ==
  /\ \/ disk.cur = ring.cur /\ disk.prev \in {ring.prev, ring.cur}
     \/ disk.cur > ring.cur /\ disk.cur > ring.prev /\ disk.prev = ring.cur
  /\ \A r \in Rotators :
       /\ rot[r] = "install" => disk.prev = ring.cur
       /\ rot[r] = "adopt" => disk.cur = next /\ disk.prev = ring.cur
  /\ up /\ (\A r \in Rotators : rot[r] # "adopt") => disk.cur = ring.cur

\* The displaced key signed nothing that outlives the interval, and the file of the
\* previous key moves on before the ring only when the interval is over.
AgeInv ==
  forced = 0 =>
    /\ \A a \in Admins : rot[a] = "idle"
    /\ rot[Timer] # "idle" => now - ring.rotated >= RotateEvery
    /\ \A t \in tokens : t.exp <= now + MaxTxnTTL /\ t.key \in DiskKeys
    /\ up => \A t \in tokens :
               /\ t.key \in RingKeys
               /\ t.key # ring.cur => t.exp <= ring.rotated + MaxTxnTTL
    /\ up /\ disk.prev # ring.prev => now - ring.rotated >= RotateEvery

Unexpired == \A t \in tokens : now < t.exp

IInv == TypeOK /\ LockInv /\ KeyInv /\ DiskInv /\ Unexpired /\ AgeInv
-----------------------------------------------------------------------------
(* The start.                                                              *)

LEMMA InitHolds == Init => IInv
<1> SUFFICES ASSUME Init PROVE IInv
  OBVIOUS
<1> USE KeyringAssumption DEF Init, NoKey
<1>1. TypeOK
  <2>1. disk \in [cur : Nat, prev : Nat] /\ ring \in [cur : Nat, prev : Nat, rotated : 0 .. now]
    OBVIOUS
  <2>2. rot \in [Rotators -> {"idle", "due"} \cup Locking]
    OBVIOUS
  <2> QED  BY <2>1, <2>2 DEF TypeOK
<1>2. LockInv /\ KeyInv /\ DiskInv
  BY DEF LockInv, KeyInv, DiskInv, Locked, Locking
<1>3. Unexpired /\ AgeInv
  BY DEF Unexpired, AgeInv, Rotators
<1> QED  BY <1>1, <1>2, <1>3 DEF IInv

-----------------------------------------------------------------------------
(* One lemma per action; those of a rotation first.                        *)

LEMMA StartKeeps == IInv /\ Start => IInv'
<1> SUFFICES ASSUME IInv, Start PROVE IInv'
  OBVIOUS
<1> USE KeyringAssumption DEF IInv, Start, NoKey
<1>1. /\ up' = TRUE /\ ~up
      /\ ring' = [cur |-> disk'.cur, prev |-> disk.prev, rotated |-> now]
      /\ disk' \in [cur : Nat, prev : Nat] /\ disk'.prev = disk.prev
      /\ fresh' \in Nat /\ fresh <= fresh' /\ disk'.cur <= fresh' /\ disk'.cur # 0
      /\ disk.cur # 0 => disk'.cur = disk.cur
      /\ UNCHANGED <<now, rot, next, tokens, forced, failures>> /\ keyGen' = 0
  BY DEF TypeOK, KeyInv
<1>2. TypeOK'
  BY <1>1 DEF TypeOK, Locking
<1>3. \A r \in Rotators : rot'[r] = "idle"
  BY <1>1 DEF LockInv
<1>4. LockInv' /\ KeyInv'
  BY <1>1, <1>3 DEF LockInv, KeyInv, Locked, Locking, TypeOK
<1>5. DiskInv'
  BY <1>1, <1>3 DEF DiskInv, TypeOK
<1>6. Unexpired'
  BY <1>1 DEF Unexpired
<1>7. AgeInv'
  <2> SUFFICES ASSUME forced = 0 PROVE AgeInv'
    BY <1>1 DEF AgeInv
  <2>1. \A t \in tokens : t.exp <= now + MaxTxnTTL /\ t.key \in RingKeys'
    BY <1>1 DEF AgeInv, RingKeys, DiskKeys
  <2>2. RingKeys' = DiskKeys' /\ ring'.prev = disk'.prev
    BY <1>1 DEF RingKeys, DiskKeys
  <2> QED  BY <1>1, <1>3, <2>1, <2>2 DEF AgeInv, Rotators
<1> QED  BY <1>2, <1>4, <1>5, <1>6, <1>7

LEMMA StopKeeps == IInv /\ Stop => IInv'
<1> SUFFICES ASSUME IInv, Stop PROVE IInv'
  OBVIOUS
<1> USE KeyringAssumption DEF IInv, Stop, NoKey
<1>1. TypeOK'
  BY DEF TypeOK
<1>2. \A r \in Rotators : rot'[r] = "idle"
  OBVIOUS
<1>3. LockInv' /\ KeyInv'
  BY <1>2 DEF LockInv, KeyInv, Locked, Locking
<1>4. DiskInv' /\ Unexpired'
  BY <1>2 DEF DiskInv, Unexpired
<1>5. AgeInv'
  BY <1>2 DEF AgeInv, Rotators, DiskKeys, RingKeys
<1> QED  BY <1>1, <1>3, <1>4, <1>5

LEMMA TickKeeps == IInv /\ Tick => IInv'
<1> SUFFICES ASSUME IInv, Tick PROVE IInv'
  OBVIOUS
<1> USE KeyringAssumption DEF IInv, Tick, NoKey
<1>1. TypeOK'
  BY DEF TypeOK
<1>2. LockInv' /\ KeyInv' /\ DiskInv'
  BY DEF LockInv, KeyInv, DiskInv, Locked
<1>3. Unexpired'
  BY DEF Unexpired
<1>4. AgeInv'
  BY DEF AgeInv, Rotators, DiskKeys, RingKeys, TypeOK, Token
<1> QED  BY <1>1, <1>2, <1>3, <1>4

LEMMA DueKeeps ==
    ASSUME IInv, TimerDue \/ \E a \in Admins : KeysRotate(a)
    PROVE  IInv'
<1> USE KeyringAssumption DEF IInv, NoKey, Goto
<1>1. PICK q \in Rotators :
        /\ up /\ rot[q] = "idle" /\ rot' = [rot EXCEPT ![q] = "due"]
        /\ UNCHANGED <<now, up, disk, ring, keyGen, next, fresh, tokens, failures>>
        /\ \/ q = Timer /\ forced' = forced /\ now - ring.rotated >= RotateEvery
           \/ forced' = forced + 1
  BY DEF TimerDue, KeysRotate, Rotators, ringVars
<1>2. \A r \in Rotators : rot'[r] = IF r = q THEN "due" ELSE rot[r]
  BY <1>1 DEF TypeOK
<1>3. TypeOK'
  BY <1>1 DEF TypeOK
<1>4. Locked' <=> Locked
  BY <1>1, <1>2 DEF Locked, Locking
<1>5. LockInv' /\ KeyInv'
  BY <1>1, <1>2, <1>4 DEF LockInv, KeyInv, Locking
<1>6. DiskInv' /\ Unexpired'
  BY <1>1, <1>2 DEF DiskInv, Unexpired
<1>7. AgeInv'
  <2> SUFFICES ASSUME forced' = 0 PROVE AgeInv'
    BY DEF AgeInv
  <2>1. forced = 0 /\ q = Timer /\ now - ring.rotated >= RotateEvery
    BY <1>1 DEF TypeOK
  <2> QED  BY <1>1, <1>2, <2>1 DEF AgeInv, Rotators, DiskKeys, RingKeys
<1> QED  BY <1>3, <1>5, <1>6, <1>7

LEMMA LockKeeps == ASSUME IInv, NEW q \in Rotators, Lock(q) PROVE IInv'
<1> USE KeyringAssumption DEF IInv, Lock, NoKey, Goto, ringVars
<1>1. \A r \in Rotators : rot'[r] = IF r = q THEN "demote" ELSE rot[r]
  BY DEF TypeOK
<1>2. TypeOK'
  BY DEF TypeOK, Locking
<1>3. \A r \in Rotators : rot[r] \notin Locking
  BY DEF Locked
<1>4. up
  BY DEF LockInv
<1>5. LockInv'
  BY <1>1, <1>3, <1>4 DEF LockInv
<1>6. KeyInv'
  BY <1>4 DEF KeyInv, TypeOK
<1>7. DiskInv' /\ Unexpired'
  BY <1>1, <1>3 DEF DiskInv, Unexpired, Locking
<1>8. AgeInv'
  BY <1>1 DEF AgeInv, Rotators, DiskKeys, RingKeys
<1> QED  BY <1>2, <1>5, <1>6, <1>7, <1>8

\* Without a forced rotation it is the timer that holds the mutex, its interval is
\* over, and all tokens are the signing key's.
LEMMA HolderIsTimer ==
    ASSUME IInv, forced = 0, NEW q \in Rotators, rot[q] # "idle"
    PROVE  /\ q = Timer /\ up
           /\ now - ring.rotated >= RotateEvery
           /\ \A t \in tokens : t.key = ring.cur
<1> USE KeyringAssumption
<1>1. q = Timer /\ up /\ now - ring.rotated >= RotateEvery
  BY DEF IInv, AgeInv, LockInv, Rotators
<1>2. ASSUME NEW t \in tokens, t.key # ring.cur PROVE FALSE
  <2>1. t.exp <= ring.rotated + MaxTxnTTL /\ now < t.exp
    BY <1>1, <1>2 DEF IInv, AgeInv, Unexpired
  <2>2. t.exp \in Nat /\ ring.rotated \in Nat /\ now \in Nat
    BY DEF IInv, TypeOK, Token
  <2> QED  BY <1>1, <2>1, <2>2
<1> QED  BY <1>1, <1>2

LEMMA DemoteKeeps == ASSUME IInv, NEW q \in Rotators, Demote(q) PROVE IInv'
<1> USE KeyringAssumption DEF IInv, Demote, NoKey, Goto, ringVars
<1>1. \A r \in Rotators : rot'[r] = IF r = q THEN "install" ELSE rot[r]
  BY DEF TypeOK
<1>2. TypeOK'
  BY DEF TypeOK, Locking
<1>3. up /\ Locked
  BY DEF LockInv, Locked, Locking
<1>4. \A r \in Rotators : r # q => rot[r] \notin Locking
  BY DEF LockInv, Locking
<1>5. LockInv'
  BY <1>1, <1>3, <1>4 DEF LockInv
<1>6. KeyInv'
  BY <1>3 DEF KeyInv, TypeOK
<1>7. disk.cur = ring.cur
  BY <1>3, <1>4 DEF DiskInv, Locking
<1>8. DiskInv' /\ Unexpired'
  BY <1>1, <1>4, <1>7 DEF DiskInv, Unexpired, TypeOK, Locking
<1>9. AgeInv'
  <2> SUFFICES ASSUME forced = 0 PROVE AgeInv'
    BY DEF AgeInv
  <2>1. /\ q = Timer
        /\ now - ring.rotated >= RotateEvery
        /\ \A t \in tokens : t.key = ring.cur
    BY HolderIsTimer
  <2>2. \A t \in tokens : t.key \in DiskKeys' /\ t.key \in RingKeys'
    BY <1>3, <1>7, <2>1 DEF DiskKeys, RingKeys, KeyInv, TypeOK
  <2> QED  BY <1>1, <2>1, <2>2 DEF AgeInv, Rotators
<1> QED  BY <1>2, <1>5, <1>6, <1>8, <1>9

LEMMA InstallKeeps == ASSUME IInv, NEW q \in Rotators, Install(q) PROVE IInv'
<1> USE KeyringAssumption DEF IInv, Install, NoKey, Goto, ringVars
<1>1. \A r \in Rotators : rot'[r] = IF r = q THEN "adopt" ELSE rot[r]
  BY DEF TypeOK
<1>2. TypeOK'
  BY DEF TypeOK, Locking
<1>3. up /\ Locked
  BY DEF LockInv, Locked, Locking
<1>4. \A r \in Rotators : r # q => rot[r] \notin Locking
  BY DEF LockInv, Locking
<1>5. LockInv'
  BY <1>1, <1>3, <1>4 DEF LockInv
<1>6. KeyInv'
  BY <1>3 DEF KeyInv, TypeOK
<1>7. disk.prev = ring.cur /\ ring.cur < next /\ ring.prev < next
  BY <1>3 DEF DiskInv, KeyInv
<1>8. DiskInv' /\ Unexpired'
  BY <1>1, <1>4, <1>7 DEF DiskInv, Unexpired, TypeOK, Locking
<1>9. AgeInv'
  <2> SUFFICES ASSUME forced = 0 PROVE AgeInv'
    BY DEF AgeInv
  <2>1. /\ q = Timer
        /\ now - ring.rotated >= RotateEvery
        /\ \A t \in tokens : t.key = ring.cur
    BY HolderIsTimer
  <2>2. \A t \in tokens : t.key \in DiskKeys' /\ t.key \in RingKeys'
    BY <1>3, <1>7, <2>1 DEF DiskKeys, RingKeys, KeyInv, TypeOK
  <2> QED  BY <1>1, <2>1, <2>2 DEF AgeInv, Rotators
<1> QED  BY <1>2, <1>5, <1>6, <1>8, <1>9

LEMMA RotateFailsKeeps == ASSUME IInv, NEW q \in Rotators, RotateFails(q) PROVE IInv'
<1> USE KeyringAssumption DEF IInv, RotateFails, NoKey, Goto, ringVars
<1>1. \A r \in Rotators : rot'[r] = IF r = q THEN "idle" ELSE rot[r]
  BY DEF TypeOK
<1>2. TypeOK'
  BY DEF TypeOK, Locking
<1>3. up
  BY DEF LockInv, Locking
<1>4. \A r \in Rotators : rot'[r] \notin Locking
  BY <1>1 DEF LockInv, Locking
<1>5. LockInv' /\ KeyInv'
  BY <1>3, <1>4 DEF LockInv, KeyInv, Locked
<1>6. disk.cur = ring.cur
  BY <1>3, <1>4, <1>1 DEF DiskInv, Locking
<1>7. DiskInv' /\ Unexpired'
  BY <1>1, <1>4, <1>6 DEF DiskInv, Unexpired, TypeOK, Locking
<1>8. AgeInv'
  BY <1>1 DEF AgeInv, Rotators, DiskKeys, RingKeys
<1> QED  BY <1>2, <1>5, <1>7, <1>8

LEMMA AdoptKeeps == ASSUME IInv, NEW q \in Rotators, Adopt(q) PROVE IInv'
<1> USE KeyringAssumption DEF IInv, Adopt, NoKey, Goto
<1>1. \A r \in Rotators : rot'[r] = IF r = q THEN "idle" ELSE rot[r]
  BY DEF TypeOK
<1>2. TypeOK'
  BY DEF TypeOK, Locking
<1>3. up /\ Locked
  BY DEF LockInv, Locked, Locking
<1>4. \A r \in Rotators : rot'[r] \notin Locking
  BY <1>1 DEF LockInv, Locking
<1>5. LockInv'
  BY <1>3, <1>4 DEF LockInv
<1>6. disk.cur = next /\ disk.prev = ring.cur /\ ring.cur < next
  BY <1>3 DEF DiskInv, KeyInv
<1>7. KeyInv'
  BY <1>3, <1>4 DEF KeyInv, Locked, TypeOK
<1>8. DiskInv' /\ Unexpired'
  BY <1>1, <1>4, <1>6 DEF DiskInv, Unexpired, Locking
<1>9. AgeInv'
  <2> SUFFICES ASSUME forced = 0 PROVE AgeInv'
    BY DEF AgeInv
  <2>1. q = Timer /\ \A t \in tokens : t.key = ring.cur
    BY HolderIsTimer
  <2>2. ring.cur # 0
    BY <1>3 DEF KeyInv
  <2>3. \A t \in tokens : t.key \in RingKeys'
    BY <2>1, <2>2 DEF RingKeys
  <2>4. rot'[Timer] = "idle" /\ \A a \in Admins : rot'[a] = "idle"
    BY <1>1, <2>1 DEF AgeInv, Rotators
  <2>5. ring'.rotated = now /\ ring'.prev = disk.prev
    BY <1>6
  <2>6. \A t \in tokens : t.exp <= now + MaxTxnTTL /\ t.key \in DiskKeys'
    BY DEF AgeInv, DiskKeys
  <2> QED  BY <2>3, <2>4, <2>5, <2>6 DEF AgeInv
<1> QED  BY <1>2, <1>5, <1>7, <1>8, <1>9

\* A token that is issued is signed with the current key and ends in time.
LEMMA IssueKeeps ==
    ASSUME IInv, NEW exp \in Nat, now < exp, exp <= now + MaxTxnTTL, Issue(Signed(exp)),
           UNCHANGED <<now, up, disk, ring, keyGen, rot, next, fresh, forced, failures>>
    PROVE  IInv'
<1> USE KeyringAssumption DEF IInv, NoKey
<1>1. /\ up /\ ~Locked /\ ring.cur \in Nat \ {0}
      /\ tokens' = tokens \cup {[key |-> ring.cur, exp |-> exp]}
  BY DEF Issue, Signed, KeyInv, TypeOK
<1>2. TypeOK'
  BY <1>1 DEF TypeOK, Token, Key
<1>3. LockInv' /\ KeyInv' /\ DiskInv'
  BY DEF LockInv, KeyInv, DiskInv, Locked
<1>4. Unexpired'
  BY <1>1 DEF Unexpired
<1>5. disk.cur = ring.cur
  BY <1>1 DEF DiskInv, Locked, Locking
<1>6. AgeInv'
  <2> SUFFICES ASSUME forced = 0 PROVE AgeInv'
    BY DEF AgeInv
  <2>1. \A t \in tokens' : t.exp <= now + MaxTxnTTL /\ t.key \in DiskKeys
    BY <1>1, <1>5 DEF AgeInv, DiskKeys
  <2>2. \A t \in tokens' : /\ t.key \in RingKeys
                           /\ t.key # ring.cur => t.exp <= ring.rotated + MaxTxnTTL
    BY <1>1 DEF AgeInv, RingKeys
  <2> QED  BY <1>1, <2>1, <2>2 DEF AgeInv, DiskKeys, RingKeys
<1> QED  BY <1>2, <1>3, <1>4, <1>6

LEMMA MintKeeps == IInv /\ MintTxn => IInv'
<1> SUFFICES ASSUME IInv, MintTxn PROVE IInv'
  OBVIOUS
<1>1. PICK ttl \in 1 .. MaxTxnTTL : Issue(Signed(now + ttl))
  BY DEF MintTxn
<1>2. /\ now + ttl \in Nat /\ now < now + ttl /\ now + ttl <= now + MaxTxnTTL
  BY KeyringAssumption DEF IInv, TypeOK
<1> QED  BY <1>1, <1>2, IssueKeeps DEF MintTxn, ringVars

\* Without forced rotations the parent's expiry bounds the child's; with them only
\* the type is left to show.
LEMMA DeriveKeeps == ASSUME IInv, NEW t \in tokens, DeriveChildTxn(t) PROVE IInv'
<1> USE DEF DeriveChildTxn, ringVars
<1>1. t.exp \in Nat /\ now < t.exp
  BY DEF IInv, TypeOK, Token, Unexpired
<1>2. CASE forced = 0
  <2>1. t.exp <= now + MaxTxnTTL
    BY <1>2 DEF IInv, AgeInv
  <2> QED  BY <1>1, <2>1, IssueKeeps
<1>3. CASE forced # 0
  <2> USE DEF IInv
  <2>1. /\ ring.cur \in Nat \ {0}
        /\ tokens' = tokens \cup {[key |-> ring.cur, exp |-> t.exp]}
    BY DEF Issue, Signed, KeyInv, TypeOK, NoKey
  <2>2. TypeOK'
    BY <1>1, <2>1 DEF TypeOK, Token, Key, NoKey
  <2>3. LockInv' /\ KeyInv' /\ DiskInv'
    BY DEF LockInv, KeyInv, DiskInv, Locked
  <2>4. Unexpired' /\ AgeInv'
    BY <1>1, <1>3, <2>1 DEF Unexpired, AgeInv
  <2> QED  BY <2>2, <2>3, <2>4
<1> QED  BY <1>2, <1>3

-----------------------------------------------------------------------------
LEMMA NextKeeps == IInv /\ [Next]_vars => IInv'
<1> SUFFICES ASSUME IInv, [Next]_vars PROVE IInv'
  OBVIOUS
<1>1. CASE UNCHANGED vars
  BY <1>1 DEF vars, IInv, TypeOK, LockInv, KeyInv, DiskInv, AgeInv, Unexpired, Locked,
              DiskKeys, RingKeys
<1>2. CASE Start \/ Stop \/ Tick
  BY <1>2, StartKeeps, StopKeeps, TickKeeps
<1>3. CASE TimerDue \/ \E a \in Admins : KeysRotate(a)
  BY <1>3, DueKeeps
<1>4. ASSUME NEW r \in Rotators, Rotate(r) PROVE IInv'
  BY <1>4, LockKeeps, DemoteKeeps, InstallKeeps, RotateFailsKeeps, AdoptKeeps DEF Rotate
<1>5. CASE MintTxn
  BY <1>5, MintKeeps
<1>6. ASSUME NEW t \in tokens, DeriveChildTxn(t) PROVE IInv'
  BY <1>6, DeriveKeeps
<1> QED  BY <1>1, <1>2, <1>3, <1>4, <1>5, <1>6 DEF Next, Work

LEMMA Invariance == Spec => []IInv
<1> QED  BY InitHolds, NextKeeps, PTL DEF Spec

\* The variables of the identity service keep their types (internal/tis/keyring.go,
\* tis.go): the clock of a ring is never ahead, a token names a real key.
THEOREM TypeCorrect == Spec => []TypeOK
<1>1. IInv => TypeOK
  BY DEF IInv
<1> QED  BY <1>1, Invariance, PTL

\* For every interval that is no shorter than the longest token: with rotations by
\* the timer only, an unexpired token verifies, through failed rotations and restarts.
THEOREM TimerInvalidatesNothing == Spec => []OutstandingVerify
<1>1. IInv => OutstandingVerify
  BY DEF IInv, AgeInv, Unexpired, OutstandingVerify, Verifies
<1> QED  BY <1>1, Invariance, PTL

\* Wherever a kill interrupts such a rotation, the two key files hold the key of
\* every unexpired token.
THEOREM KillLosesNoToken == Spec => []RestartKeepsTokens
<1>1. IInv => RestartKeepsTokens
  BY DEF IInv, AgeInv, RestartKeepsTokens
<1> QED  BY <1>1, Invariance, PTL

\* Outside a rotation the signing key is the one on disk, also with forced rotations
\* and after failed ones.
THEOREM RingIsOnDisk == Spec => []MemoryFollowsDisk
<1>1. IInv => MemoryFollowsDisk
  BY DEF IInv, DiskInv, MemoryFollowsDisk, Locked, Locking
<1> QED  BY <1>1, Invariance, PTL

\* No step, a restart included, brings a retired key back into the ring.
THEOREM RetiredStayRetired == Spec => RetiredNeverReturns
<1> DEFINE Older == \A k \in RingKeys' \ RingKeys : \A old \in RingKeys : old < k
<1>1. ASSUME IInv, [Next]_vars PROVE [Older]_vars
  <2>1. CASE Start
    <3>1. ring'.cur = disk'.cur /\ ring'.prev = disk.prev
      BY <2>1 DEF Start
    <3>2. CASE disk.cur = NoKey
      BY <1>1, <2>1, <3>1, <3>2 DEF IInv, Start, KeyInv, DiskInv, RingKeys, TypeOK, NoKey
    <3>3. CASE disk.cur # NoKey
      BY <1>1, <2>1, <3>1, <3>3 DEF IInv, Start, DiskInv, RingKeys, TypeOK, NoKey
    <3> QED  BY <3>2, <3>3
  <2>2. ASSUME NEW r \in Rotators, Adopt(r) PROVE Older
    <3>1. ring'.cur = next /\ ring'.prev = ring.cur
      BY <2>2 DEF Adopt
    <3>2. ring.cur < next /\ ring.prev < next
      BY <1>1, <2>2 DEF IInv, KeyInv, Adopt, Locked, Locking
    <3> QED  BY <3>1, <3>2 DEF RingKeys
  <2>3. CASE UNCHANGED ring
    BY <2>3 DEF RingKeys
  <2> QED
    BY <1>1, <2>1, <2>2, <2>3
       DEF Next, Work, Stop, Tick, TimerDue, KeysRotate, Rotate, Lock, Demote, Install,
           RotateFails, MintTxn, DeriveChildTxn, ringVars, vars
<1> QED  BY <1>1, Invariance, PTL DEF Spec, RetiredNeverReturns
=============================================================================

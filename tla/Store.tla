-------------------------------- MODULE Store --------------------------------
(***************************************************************************)
(* The bundle in force and its rollback history (internal/policy/store.go) *)
(* under POST /policy/reload, POST /policy/rollback and SIGHUP, which run  *)
(* at the same time (cmd/gurdy-proxy/main.go).                             *)
(***************************************************************************)
EXTENDS Policy, Sequences, SequencesExt

CONSTANTS
  Admins,      \* admin requests and the SIGHUP goroutine
  MaxHistory,  \* displaced bundles kept for rollback
  MaxChanges,  \* bound: reloads and rollbacks in one behaviour (after the last one the
               \* file is read no more, and is left alone)
  NoDocument

ASSUME StoreAssumption ==
  /\ MaxHistory \in Nat \ {0}
  /\ MaxChanges \in Nat
  /\ NoDocument \notin Documents

VARIABLES
  file,      \* what the -policy path holds, NoDocument while there is no file
  current,   \* the bundle in force
  history,   \* displaced bundles, most recent last
  loading,   \* per admin: the bundle it has loaded and not yet swapped in
  changes,   \* ghost: how many reloads and rollbacks were asked for
  deployed   \* ghost: every bundle put in force and not rolled back, oldest first

storeVars == <<file, current, history, loading, changes, deployed>>

StoreTypeOK ==
  /\ file \in Documents \cup {NoDocument}
  /\ current \in Documents
  /\ history \in Seq(Documents)
  /\ loading \in [Admins -> Documents \cup {NoDocument}]
  /\ changes \in 0 .. MaxChanges
  /\ deployed \in Seq(Documents)

\* The process does not start with a bundle that does not load.
StoreInit ==
  /\ file \in {d \in Documents : Loadable(d)}
  /\ current = file
  /\ history = <<>>
  /\ loading = [a \in Admins |-> NoDocument]
  /\ changes = 0
  /\ deployed = <<file>>

\* The policy pull renames the file away and then another one into its place, and may be
\* killed in between; it checks that the new one loads, an operator's editor does not.
Withdraw ==
  /\ changes < MaxChanges
  /\ file # NoDocument
  /\ file' = NoDocument
  /\ UNCHANGED <<current, history, loading, changes, deployed>>

Publish(d) ==
  /\ changes < MaxChanges
  /\ file' = d
  /\ UNCHANGED <<current, history, loading, changes, deployed>>

\* reload reads and compiles the file without a lock; a failure changes nothing.
Load(a) ==
  /\ loading[a] = NoDocument
  /\ changes < MaxChanges
  /\ changes' = changes + 1
  /\ loading' = IF file # NoDocument /\ Loadable(file)
                THEN [loading EXCEPT ![a] = file]
                ELSE loading
  /\ UNCHANGED <<file, current, history, deployed>>

\* Mutant of Remember: the cap drops the most recent bundle.
RememberOldest(h, d) == IF Len(h) = MaxHistory THEN h ELSE Append(h, d)

Remember(h, d) == IF Len(h) = MaxHistory THEN Append(Tail(h), d) ELSE Append(h, d)

Swap(a) ==
  /\ loading[a] # NoDocument
  /\ history' = Remember(history, current)
  /\ current' = loading[a]
  /\ loading' = [loading EXCEPT ![a] = NoDocument]
  /\ deployed' = Append(deployed, loading[a])
  /\ UNCHANGED <<file, changes>>

\* The bundle rolled back from is discarded; with no history the request fails.
Rollback(a) ==
  /\ loading[a] = NoDocument
  /\ changes < MaxChanges
  /\ changes' = changes + 1
  /\ history # <<>>
  /\ current' = Last(history)
  /\ history' = Front(history)
  /\ deployed' = Front(deployed)
  /\ UNCHANGED <<file, loading>>

StoreNext ==
  \/ Withdraw
  \/ \E d \in Documents : Publish(d)
  \/ \E a \in Admins : Load(a) \/ Swap(a) \/ Rollback(a)

\* However reloads and rollbacks overlap, a rollback reinstates the bundle that
\* was in force before the latest one still standing, as far back as the history
\* goes, and never a bundle that does not load (keep-last-good, FR-10).
RollbackWalksBack ==
  /\ IsSuffix(Append(history, current), deployed)
  /\ Len(history) <= MaxHistory
  /\ \A i \in 1 .. Len(deployed) : Loadable(deployed[i])
=============================================================================

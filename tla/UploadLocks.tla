----------------------------- MODULE UploadLocks -----------------------------
(***************************************************************************)
(* The table of per-upload mutexes of internal/server/uploads.go, which    *)
(* keeps an entry only while a request refers to it.  Uploads takes from   *)
(* it that an upload is locked by one request at a time.                   *)
(***************************************************************************)
EXTENDS Naturals, FiniteSets

CONSTANTS
  Callers,   \* calls of lock
  Ids,       \* upload identifiers
  Entries,   \* addresses an entry can have
  Nil

ASSUME CallersAssumption == IsFiniteSet(Callers)
ASSUME NilAssumption == Nil \notin Callers \cup Ids \cup Entries

VARIABLES
  locks,   \* uploadManager.locks
  refs,    \* uploadLock.refs
  holder,  \* the request that holds the mutex of an entry
  at,      \* where a request is
  id,      \* the upload it locks
  entry    \* the entry it refers to

lockVars == <<locks, refs, holder, at, id, entry>>

LocksSteps == {"idle", "wait", "in", "out"}

LocksTypeOK ==
  /\ locks \in [Ids -> Entries \cup {Nil}]
  /\ refs \in [Entries -> Nat]
  /\ holder \in [Entries -> Callers \cup {Nil}]
  /\ at \in [Callers -> LocksSteps]
  /\ id \in [Callers -> Ids \cup {Nil}]
  /\ entry \in [Callers -> Entries \cup {Nil}]

LocksInit ==
  /\ locks = [i \in Ids |-> Nil]
  /\ refs = [e \in Entries |-> 0]
  /\ holder = [e \in Entries |-> Nil]
  /\ at = [r \in Callers |-> "idle"]
  /\ id = [r \in Callers |-> Nil]
  /\ entry = [r \in Callers |-> Nil]

\* An address nothing refers to.
Free(e) ==
  /\ \A i \in Ids : locks[i] # e
  /\ \A r \in Callers : entry[r] # e

\* lock, under the table's mutex: find or make the entry and count the reference.
Refer(r, i, e) ==
  /\ at[r] = "idle"
  /\ e = locks[i] \/ (locks[i] = Nil /\ Free(e))
  /\ locks' = [locks EXCEPT ![i] = e]
  /\ refs' = [refs EXCEPT ![e] = IF locks[i] = Nil THEN 1 ELSE @ + 1]
  /\ holder' = [holder EXCEPT ![e] = IF locks[i] = Nil THEN Nil ELSE @]
  /\ at' = [at EXCEPT ![r] = "wait"]
  /\ id' = [id EXCEPT ![r] = i]
  /\ entry' = [entry EXCEPT ![r] = e]

\* Mutant: a mutex that prefers some of those who wait for it.
MutLock(r) ==
  /\ at[r] = "wait"
  /\ r = CHOOSE q \in Callers : at[q] = "wait" /\ entry[q] = entry[r]
  /\ holder[entry[r]] = Nil
  /\ holder' = [holder EXCEPT ![entry[r]] = r]
  /\ at' = [at EXCEPT ![r] = "in"]
  /\ UNCHANGED <<locks, refs, id, entry>>

Lock(r) ==
  /\ at[r] = "wait"
  /\ holder[entry[r]] = Nil
  /\ holder' = [holder EXCEPT ![entry[r]] = r]
  /\ at' = [at EXCEPT ![r] = "in"]
  /\ UNCHANGED <<locks, refs, id, entry>>

Unlock(r) ==
  /\ at[r] = "in"
  /\ holder' = [holder EXCEPT ![entry[r]] = Nil]
  /\ at' = [at EXCEPT ![r] = "out"]
  /\ UNCHANGED <<locks, refs, id, entry>>

\* Mutant: the entry goes although others still refer to it.
MutDrop(r) ==
  /\ at[r] = "out"
  /\ refs' = [refs EXCEPT ![entry[r]] = @ - 1]
  /\ locks' = [locks EXCEPT ![id[r]] = IF @ = entry[r] THEN Nil ELSE @]
  /\ at' = [at EXCEPT ![r] = "idle"]
  /\ id' = [id EXCEPT ![r] = Nil]
  /\ entry' = [entry EXCEPT ![r] = Nil]
  /\ UNCHANGED holder

\* The rest of the unlock function: drop the entry with its last reference.
Drop(r) ==
  /\ at[r] = "out"
  /\ refs' = [refs EXCEPT ![entry[r]] = @ - 1]
  /\ locks' = [locks EXCEPT ![id[r]] =
                 IF refs[entry[r]] = 1 /\ @ = entry[r] THEN Nil ELSE @]
  /\ at' = [at EXCEPT ![r] = "idle"]
  /\ id' = [id EXCEPT ![r] = Nil]
  /\ entry' = [entry EXCEPT ![r] = Nil]
  /\ UNCHANGED holder

LocksStep(r) == Lock(r) \/ Unlock(r) \/ Drop(r)

LocksNext == \E r \in Callers :
          \/ LocksStep(r)
          \/ \E i \in Ids, e \in Entries : Refer(r, i, e)

LocksSpec == LocksInit /\ [][LocksNext]_lockVars

\* Whoever has the lock gives it back, and Go's mutexes starve nobody.
FairLocks ==
  LocksSpec /\ \A r \in Callers :
            SF_lockVars(Lock(r)) /\ WF_lockVars(Unlock(r)) /\ WF_lockVars(Drop(r))

-----------------------------------------------------------------------------
(* Properties *)

\* Of the requests for one upload one at a time is between lock and unlock,
\* although entries are dropped and made anew (uploadManager.lock).
Exclusive ==
  \A r, q \in Callers : at[r] = "in" /\ at[q] = "in" /\ id[r] = id[q] => r = q

\* The table holds entries that are referred to, and no others.
NoLeak ==
  \A i \in Ids : locks[i] # Nil => \E r \in Callers : entry[r] = locks[i] /\ id[r] = i

\* Every request gets its turn.
Served == \A r \in Callers : at[r] = "wait" ~> at[r] = "in"
=============================================================================

------------------------------ MODULE Sessions ------------------------------
(***************************************************************************)
(* What browser sessions promise, whatever is written when: a session can  *)
(* be used until Idle seconds after its last use, never beyond its         *)
(* absolute end; once it is over it stays over; a restart takes back at    *)
(* most the last Lag seconds of use.  internal/state/store.go keeps this   *)
(* with a record in the database and a touch in memory: see SessionStore.  *)
(***************************************************************************)
EXTENDS Integers

CONSTANTS
  Tokens,    \* the tokens the random generator can draw
  None,
  Time,      \* readings of the clock, in seconds
  Idle,      \* --session-idle
  Absolute,  \* --session-absolute
  Lag        \* what a restart may take back, plus one

VARIABLES
  clock,
  session,  \* token -> when it was last used and when it ends
  unused,   \* tokens not drawn so far
  answer,   \* how the last request that named sessions was answered
  steady    \* the clock never goes back and no write fails

Least(a, b) == IF a < b THEN a ELSE b
Latest(a, b) == IF a < b THEN b ELSE a

Later(c) == {u \in Time : steady => u >= c}
Live == {t \in Tokens : session[t] # None}
Deadline(t) == Least(session[t].used + Idle, session[t].ends)
At(t, used) == [used |-> used, ends |-> session[t].ends]

Init ==
  /\ clock \in Time
  /\ session = [t \in Tokens |-> None]
  /\ unused = Tokens
  /\ answer = "none"
  /\ steady \in BOOLEAN

Tick == clock' \in Later(clock) /\ UNCHANGED <<session, unused, answer>>

Begin(t) ==
  /\ t \in unused
  /\ unused' = unused \ {t}
  /\ session' = [session EXCEPT ![t] = [used |-> clock, ends |-> clock + Absolute]]
  /\ UNCHANGED <<clock, answer>>

\* A use may read the clock twice and counts from either reading.
Use(t) ==
  /\ t \in Live
  /\ clock < Deadline(t)
  /\ \E used \in {clock, Latest(clock, clock')} :
       session' = [session EXCEPT ![t] = At(t, Latest(session[t].used, used))]
  /\ answer' = "ok"

\* A session that was over at the first reading and is not at the second:
\* the clock went back in between.
UseAfterJump(t) ==
  /\ ~steady
  /\ t \in Live
  /\ clock' < Deadline(t)
  /\ \E used \in {session[t].used, clock'} :
       session' = [session EXCEPT ![t] = At(t, Latest(session[t].used, used))]
  /\ answer' = "ok"

Refuse(t) ==
  /\ t \in Live
  /\ clock' >= Deadline(t)
  /\ session' = [session EXCEPT ![t] = None]
  /\ answer' = "expired"

Miss(t) == t \notin Live /\ answer' = "unknown" /\ UNCHANGED session

\* A write failed: the use may still count.
Fail(t) ==
  /\ ~steady
  /\ t \in Live
  /\ \E used \in {session[t].used, clock} :
       session' = [session EXCEPT ![t] = At(t, Latest(session[t].used, used))]
  /\ answer' = "error"

Request(t) ==
  /\ clock' \in Later(clock)
  /\ Use(t) \/ UseAfterJump(t) \/ Refuse(t) \/ Miss(t) \/ Fail(t)
  /\ UNCHANGED unused

Keep(kept) ==
  /\ session' = [t \in Tokens |-> IF t \in kept THEN session[t] ELSE None]
  /\ UNCHANGED <<clock, unused>>

Revoke(t) == Keep(Tokens \ {t}) /\ answer' = "revoked"
RevokeAll == Keep({}) /\ answer' = "revoked"

\* Unasked, only what is over ends.
Prune ==
  /\ \E kept \in SUBSET Live : Keep(kept) /\ \A t \in Live \ kept : clock >= Deadline(t)
  /\ UNCHANGED answer

\* Uses that were not written yet are forgotten.
Restart ==
  /\ DOMAIN session' = Tokens
  /\ \A t \in Tokens \ Live : session'[t] = None
  /\ \A t \in Live :
       /\ session'[t] # None
       /\ session'[t] = At(t, session'[t].used)
       /\ session'[t].used <= session[t].used
       /\ steady => session[t].used - session'[t].used < Lag
  /\ UNCHANGED <<clock, unused, answer>>

Next == \/ Tick \/ RevokeAll \/ Prune \/ Restart
        \/ \E t \in Tokens : Begin(t) \/ Revoke(t) \/ Request(t)

Spec == Init /\ [][Next /\ UNCHANGED steady]_<<clock, session, unused, answer, steady>>
=============================================================================

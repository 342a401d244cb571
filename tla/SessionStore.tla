---------------------------- MODULE SessionStore ----------------------------
(***************************************************************************)
(* Browser sessions in internal/state/store.go.  The bucket holds one      *)
(* record per session; to spare the flash a use is written at most once    *)
(* per touch interval and otherwise only noted in memory (sessionTouches). *)
(* sessionMu makes each operation one step, but one that writes reads the  *)
(* clock twice, and the clock of a reader may be set back.                 *)
(***************************************************************************)
EXTENDS Integers

CONSTANTS
  Tokens,       \* the tokens the random generator can draw
  None,
  Time,         \* readings of the clock, in seconds
  Idle,         \* --session-idle
  Absolute,     \* --session-absolute
  MaxInterval   \* credentialTouchInterval

ASSUME TimeAssumption == Time \subseteq Nat
ASSUME LifetimeAssumption == Idle \in Nat \ {0} /\ Absolute \in Nat \ {0}
ASSUME IntervalAssumption == MaxInterval \in Nat \ {0}

Stored == [seen : Int, idle : Int, end : Int]
Touch  == [seen : Int, idle : Int]

ASSUME NoneAssumption == None \notin Stored \cup Touch \cup [used : Int, ends : Int]

VARIABLES
  clock,
  stored,   \* the sessions bucket: LastSeenAt, IdleUntil, AbsoluteEnd
  touches,  \* Store.sessionTouches
  unused,   \* tokens not drawn so far
  answer,   \* how the last request that named sessions was answered
  steady    \* the clock never goes back and no write fails

vars == <<clock, stored, touches, unused, answer, steady>>

TypeOK ==
  /\ clock \in Time
  /\ stored \in [Tokens -> Stored \cup {None}]
  /\ touches \in [Tokens -> Touch \cup {None}]
  /\ unused \subseteq Tokens
  /\ answer \in {"none", "ok", "expired", "unknown", "error", "revoked"}
  /\ steady \in BOOLEAN

Init ==
  /\ clock \in Time
  /\ stored = [t \in Tokens |-> None]
  /\ touches = [t \in Tokens |-> None]
  /\ unused = Tokens
  /\ answer = "none"
  /\ steady \in BOOLEAN

Least(a, b) == IF a < b THEN a ELSE b

\* sessionTouchInterval, and the rounding of credentialTouchDue to seconds.
Interval ==
  IF Idle \div 2 = 0 THEN 1 ELSE Least(Idle \div 2, MaxInterval)

\* sessionWithPendingTouch
With(s, p) ==
  IF p # None /\ p.seen > s.seen
  THEN [seen |-> p.seen, idle |-> p.idle, end |-> s.end]
  ELSE s

Effective(t) == With(stored[t], touches[t])

Expired(s, now) == now >= s.idle \/ now >= s.end

\* credentialTouchDue
Due(now, seen) == seen = 0 \/ now - seen >= Interval

\* recordSessionTouch
Noted(s, p, now) ==
  IF now <= s.seen \/ (p # None /\ p.seen > now)
  THEN p
  ELSE [seen |-> now, idle |-> Least(now + Idle, s.end)]

\* The touch to note once the session was read at the present clock: an
\* expired one is looked at again in the transaction, as it is.
Pending(t) ==
  IF Expired(Effective(t), clock) THEN touches[t] ELSE Noted(stored[t], touches[t], clock)

Later(c) == {u \in Time : steady => u >= c}

Set(f, t, v) == [f EXCEPT ![t] = v]
-----------------------------------------------------------------------------
CreateSession(t) ==
  /\ t \in unused
  /\ unused' = unused \ {t}
  /\ stored' = Set(stored, t, [seen |-> clock, idle |-> clock + Idle, end |-> clock + Absolute])
  /\ touches' = Set(touches, t, None)
  /\ UNCHANGED <<clock, answer>>

Unknown(t) ==
  /\ stored[t] = None
  /\ touches' = Set(touches, t, None)
  /\ answer' = "unknown"
  /\ UNCHANGED <<clock, stored, unused>>

\* The read transaction is enough: the use is only noted.
Coalesce(t) ==
  /\ stored[t] # None
  /\ ~Expired(Effective(t), clock)
  /\ ~Due(clock, stored[t].seen)
  /\ touches' = Set(touches, t, Pending(t))
  /\ answer' = "ok"
  /\ UNCHANGED <<clock, stored, unused>>

\* The write transaction is entered, with a second reading of the clock.
Reread(t) ==
  /\ stored[t] # None
  /\ Expired(Effective(t), clock) \/ Due(clock, stored[t].seen)
  /\ clock' \in Later(clock)
  /\ UNCHANGED unused

Expire(t) ==
  /\ Reread(t)
  /\ Expired(With(stored[t], Pending(t)), clock')
  /\ stored' = Set(stored, t, None)
  /\ touches' = Set(touches, t, None)
  /\ answer' = "expired"

Persist(t) ==
  /\ Reread(t)
  /\ ~Expired(With(stored[t], Pending(t)), clock')
  /\ Due(clock', stored[t].seen)
  /\ stored' = Set(stored, t,
       [seen |-> clock', idle |-> Least(clock' + Idle, stored[t].end), end |-> stored[t].end])
  /\ touches' = Set(touches, t,
       IF Pending(t) # None /\ Pending(t).seen <= clock' THEN None ELSE Pending(t))
  /\ answer' = "ok"

\* The clock went back between the readings and nothing is due any more.
StillFresh(t) ==
  /\ Reread(t)
  /\ ~Expired(With(stored[t], Pending(t)), clock')
  /\ ~Due(clock', stored[t].seen)
  /\ touches' = Set(touches, t, Pending(t))
  /\ answer' = "ok"
  /\ UNCHANGED stored

\* The transaction fails: the touch was noted before it.
UpdateFails(t) ==
  /\ ~steady
  /\ Reread(t)
  /\ touches' = Set(touches, t, Pending(t))
  /\ answer' = "error"
  /\ UNCHANGED stored

DeleteSession(t) ==
  /\ stored' = Set(stored, t, None)
  /\ touches' = Set(touches, t, None)
  /\ answer' = "revoked"
  /\ UNCHANGED <<clock, unused>>

ReplacePassword ==
  /\ stored' = [t \in Tokens |-> None]
  /\ touches' = [t \in Tokens |-> None]
  /\ answer' = "revoked"
  /\ UNCHANGED <<clock, unused>>

\* Mutant: pruning looks at the record only.
MutOver(t) == stored[t] # None /\ Expired(stored[t], clock)

\* PruneExpired writes what is alive only thanks to a noted use.
Over(t) == stored[t] # None /\ Expired(Effective(t), clock)
Refreshed(t) == stored[t] # None /\ ~Over(t) /\ Expired(stored[t], clock)

PruneExpired ==
  /\ stored' = [t \in Tokens |-> IF Over(t) THEN None
                                 ELSE IF Refreshed(t) THEN Effective(t) ELSE stored[t]]
  /\ touches' = [t \in Tokens |-> IF Over(t) \/ Refreshed(t) THEN None ELSE touches[t]]
  /\ UNCHANGED <<clock, unused, answer>>

\* End of the process, and the next one.
Restart ==
  /\ touches' = [t \in Tokens |-> None]
  /\ UNCHANGED <<clock, stored, unused, answer>>

Tick ==
  /\ clock' \in Later(clock)
  /\ UNCHANGED <<stored, touches, unused, answer>>

Session(t) ==
  Unknown(t) \/ Coalesce(t) \/ Expire(t) \/ Persist(t) \/ StillFresh(t) \/ UpdateFails(t)

Next == \/ Tick \/ ReplacePassword \/ PruneExpired \/ Restart
        \/ \E t \in Tokens : CreateSession(t) \/ Session(t) \/ DeleteSession(t)

Spec == Init /\ [][Next /\ UNCHANGED steady]_vars
-----------------------------------------------------------------------------
\* A note in memory is of a session in the bucket and newer than its record:
\* the map of notes cannot outgrow the bucket, whatever order sessions are
\* used, ended, pruned and created in (sessionTouches, store.go).
NoStrayTouch ==
  \A t \in Tokens : touches[t] # None => stored[t] # None /\ touches[t].seen > stored[t].seen

\* While the clock runs on and writes succeed, less than one touch interval
\* of use is in memory only: that is all a crash can take from a session
\* (sessionTouchInterval and credentialTouchDue, store.go).
TouchLag ==
  steady => \A t \in Tokens :
    touches[t] # None => touches[t].seen - stored[t].seen < Interval

\* The record and the note together behave as a session whose every use
\* counts at once ("Pending touches preserve exact idle-session semantics",
\* store.go:46): each request is answered as Sessions says it must be.
Promise == INSTANCE Sessions WITH
  Lag <- Interval,
  session <- [t \in Tokens |->
                IF stored[t] = None THEN None
                ELSE [used |-> Effective(t).seen, ends |-> stored[t].end]]

ExactSessions == Promise!Spec
=============================================================================

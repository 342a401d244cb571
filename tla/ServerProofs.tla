---------------------------- MODULE ServerProofs ----------------------------
(***************************************************************************)
(* Proofs about the sessions that the server keeps (SessionStore), for any *)
(* tokens, clock and lifetimes, and about the supervisors that launch it   *)
(* (Supervisor), for any number of runs of supervisor.sh.                  *)
(***************************************************************************)
EXTENDS SessionStore, Supervisor, TLAPS

-----------------------------------------------------------------------------
(***************************************************************************)
(* SessionStore.  Good relates the record of a session to its note and the *)
(* clock; every operation keeps it token by token, and from it each step   *)
(* is shown to be one that Sessions allows.                                *)
(***************************************************************************)

\* A record s and a note p belong together.
Fit(s, p) ==
  /\ s \in Stored \cup {None}
  /\ p \in Touch \cup {None}
  /\ s # None => Least(s.idle, s.end) = Least(s.seen + Idle, s.end)
  /\ p # None => /\ s # None
                 /\ p.seen > s.seen
                 /\ p.idle = Least(p.seen + Idle, s.end)

\* The note is not from the future.
Past(p, c) == p # None => p.seen <= c

\* So they are at reading c.
Good(s, p, c, calm) ==
  /\ Fit(s, p)
  /\ calm => Past(p, c) /\ (p # None => p.seen - s.seen < Interval)

Inv ==
  /\ clock \in Time
  /\ unused \subseteq Tokens
  /\ answer \in {"none", "ok", "expired", "unknown", "error", "revoked"}
  /\ steady \in BOOLEAN
  /\ stored \in [Tokens -> Stored \cup {None}]
  /\ touches \in [Tokens -> Touch \cup {None}]
  /\ \A t \in Tokens : Good(stored[t], touches[t], clock, steady)

\* A session as Sessions sees it.
Bar(s, p) == IF s = None THEN None ELSE [used |-> With(s, p).seen, ends |-> s.end]

\* When it is over.
DeadlineOf(s, p) == Least(With(s, p).seen + Idle, s.end)

LEMMA TimeIsInt == \A c \in Time : c \in Int /\ c >= 0
BY TimeAssumption

LEMMA IntervalPositive == Interval \in Nat /\ Interval > 0
BY LifetimeAssumption, IntervalAssumption DEF Interval, Least

LEMMA NoneIsNoRecord == /\ None \notin Stored
                        /\ None \notin Touch
                        /\ \A used, ends \in Int : [used |-> used, ends |-> ends] # None
BY NoneAssumption

\* What a session looks like is over exactly at its deadline.
LEMMA ExpiredAtDeadline ==
  ASSUME NEW s \in Stored, NEW p, Fit(s, p), NEW now \in Int
  PROVE  /\ With(s, p) \in Stored
         /\ With(s, p).end = s.end
         /\ With(s, p).seen >= s.seen
         /\ DeadlineOf(s, p) \in Int
         /\ Expired(With(s, p), now) <=> now >= DeadlineOf(s, p)
<1> USE LifetimeAssumption, NoneIsNoRecord
<1>1. CASE p # None
  <2>1. p \in Touch /\ p.seen \in Int /\ p.idle \in Int
    BY <1>1 DEF Fit, Touch
  <2>2. With(s, p) = [seen |-> p.seen, idle |-> p.idle, end |-> s.end]
    BY <1>1 DEF With, Fit
  <2>3. s.seen \in Int /\ s.end \in Int /\ p.seen > s.seen /\ p.idle = Least(p.seen + Idle, s.end)
    BY <1>1 DEF Fit, Stored
  <2> QED BY <2>1, <2>2, <2>3 DEF Stored, Expired, DeadlineOf, Least
<1>2. CASE p = None
  <2>1. With(s, p) = s
    BY <1>2 DEF With
  <2>2. s.seen \in Int /\ s.end \in Int /\ s.idle \in Int
    BY DEF Stored
  <2>3. Least(s.idle, s.end) = Least(s.seen + Idle, s.end)
    BY DEF Fit
  <2> QED BY <2>1, <2>2, <2>3 DEF Expired, DeadlineOf, Least
<1> QED BY <1>1, <1>2

\* Noting a use moves the last use to the present unless it is later already.
LEMMA NotedFits ==
  ASSUME NEW s \in Stored, NEW p, NEW c \in Int, Fit(s, p)
  PROVE  /\ Fit(s, Noted(s, p, c))
         /\ With(s, Noted(s, p, c)).seen = IF With(s, p).seen < c THEN c ELSE With(s, p).seen
         /\ Past(p, c) => Past(Noted(s, p, c), c)
<1> USE LifetimeAssumption, NoneIsNoRecord
<1>s. s.seen \in Int /\ s.end \in Int /\ s # None
  BY DEF Stored
<1>p. p # None => p \in Touch /\ p.seen \in Int /\ p.seen > s.seen
  BY DEF Fit, Touch
<1>1. CASE c <= s.seen \/ (p # None /\ p.seen > c)
  <2>1. Noted(s, p, c) = p
    BY <1>1 DEF Noted
  <2> QED BY <1>1, <2>1, <1>s, <1>p DEF With
<1>2. CASE ~(c <= s.seen \/ (p # None /\ p.seen > c))
  <2> DEFINE n == [seen |-> c, idle |-> Least(c + Idle, s.end)]
  <2>1. Noted(s, p, c) = n
    BY <1>2 DEF Noted
  <2>2. n \in Touch /\ n # None /\ n.seen = c /\ n.idle = Least(c + Idle, s.end)
    BY <1>s DEF Touch, Least
  <2>3. Fit(s, n) /\ Past(n, c)
    BY <1>2, <2>2, <1>s DEF Fit, Past
  <2>4. With(s, n).seen = c
    BY <1>2, <2>2, <1>s DEF With
  <2>5. With(s, p).seen <= c
    BY <1>2, <1>s, <1>p DEF With
  <2>6. With(s, p).seen \in Int
    BY <1>s, <1>p DEF With
  <2> HIDE DEF n
  <2> QED BY <2>1, <2>3, <2>4, <2>5, <2>6
<1> QED BY <1>1, <1>2

\* While nothing is due, what is noted is recent.
LEMMA NotedGood ==
  ASSUME NEW s \in Stored, NEW p, NEW c \in Int, Good(s, p, c, steady), ~Due(c, s.seen)
  PROVE  Good(s, Noted(s, p, c), c, steady)
<1> USE NoneIsNoRecord, IntervalPositive
<1>s. s.seen \in Int /\ s # None
  BY DEF Stored
<1>p. p # None => p \in Touch /\ p.seen \in Int
  BY DEF Good, Fit, Touch
<1>1. c - s.seen < Interval
  BY <1>s DEF Due
<1>2. Noted(s, p, c) # None /\ Noted(s, p, c) # p => Noted(s, p, c).seen = c
  BY DEF Noted
<1>3. Fit(s, Noted(s, p, c)) /\ (Past(p, c) => Past(Noted(s, p, c), c))
  BY NotedFits DEF Good
<1> QED BY <1>1, <1>2, <1>3, <1>s, <1>p DEF Good

\* The record the transaction writes, and the note it leaves.
Written(s, u) == [seen |-> u, idle |-> Least(u + Idle, s.end), end |-> s.end]
Left(p, u) == IF p # None /\ p.seen <= u THEN None ELSE p
Newest(p, u) == IF p # None /\ p.seen > u THEN p.seen ELSE u

LEMMA PersistGood ==
  ASSUME NEW s \in Stored, NEW p, NEW c \in Int, NEW u \in Int, Fit(s, p),
         Due(u, s.seen), steady => u >= c /\ Past(p, c)
  PROVE  /\ Written(s, u) \in Stored
         /\ Good(Written(s, u), Left(p, u), u, steady)
         /\ u > s.seen \/ s.seen = 0
         /\ With(Written(s, u), Left(p, u)).seen = Newest(p, u)
<1> USE LifetimeAssumption, NoneIsNoRecord, IntervalPositive
<1>s. s.seen \in Int /\ s.end \in Int
  BY DEF Stored
<1>p. p # None => p \in Touch /\ p.seen \in Int
  BY DEF Fit, Touch
<1>1. Written(s, u) \in Stored
  BY <1>s DEF Written, Stored, Least
<1>2. Written(s, u) # None /\ Written(s, u).seen = u /\ Written(s, u).end = s.end
      /\ Written(s, u).idle = Least(u + Idle, s.end)
  BY <1>1 DEF Written
<1>3. Least(Written(s, u).idle, s.end) = Least(u + Idle, s.end)
  BY <1>2, <1>s DEF Least
<1>4. Fit(Written(s, u), Left(p, u))
  BY <1>1, <1>2, <1>3, <1>s, <1>p DEF Left, Fit
<1>5. ASSUME steady PROVE Left(p, u) = None
  BY <1>5, <1>p DEF Left, Past
<1>6. Good(Written(s, u), Left(p, u), u, steady)
  BY <1>4, <1>5 DEF Good, Past
<1>7. u > s.seen \/ s.seen = 0
  BY <1>s DEF Due
<1>8. With(Written(s, u), Left(p, u)).seen = Newest(p, u)
  BY <1>2, <1>p DEF With, Left, Newest
<1> QED BY <1>1, <1>6, <1>7, <1>8
-----------------------------------------------------------------------------
\* The sessions that Sessions sees.
Bars == [t \in Tokens |->
           IF stored[t] = None THEN None
           ELSE [used |-> Effective(t).seen, ends |-> stored[t].end]]

LEMMA BarsAre == Bars = [t \in Tokens |-> Bar(stored[t], touches[t])]
BY DEF Bars, Bar, Effective

\* An operation on one session leaves the others good.
LEMMA OneSession ==
  ASSUME Inv, NEW t \in Tokens, NEW s, NEW p, clock' \in Later(clock), Good(s, p, clock', steady),
         stored' = Set(stored, t, s), touches' = Set(touches, t, p), unused' \subseteq unused,
         steady' = steady,
         answer' \in {"none", "ok", "expired", "unknown", "error", "revoked"}
  PROVE  /\ Inv'
         /\ Bars' = [Bars EXCEPT ![t] = Bar(s, p)]
<1>1. /\ s \in Stored \cup {None} /\ p \in Touch \cup {None}
      /\ stored' \in [Tokens -> Stored \cup {None}]
      /\ touches' \in [Tokens -> Touch \cup {None}]
  BY DEF Inv, Good, Fit, Set
<1>2. stored'[t] = s /\ touches'[t] = p
  BY DEF Inv, Set
<1>3. \A q \in Tokens \ {t} : stored'[q] = stored[q] /\ touches'[q] = touches[q]
  BY DEF Inv, Set
<1>4. ASSUME NEW q \in Tokens \ {t} PROVE Good(stored'[q], touches'[q], clock', steady)
  <2>1. Good(stored[q], touches[q], clock, steady)
    BY DEF Inv
  <2>2. Past(touches[q], clock) /\ steady => Past(touches[q], clock')
    <3>1. touches[q] # None => touches[q].seen \in Int
      BY <2>1 DEF Good, Fit, Touch
    <3>2. clock \in Int /\ clock' \in Int /\ (steady => clock' >= clock)
      BY TimeIsInt DEF Later, Inv
    <3> QED BY <3>1, <3>2 DEF Past
  <2> QED BY <1>3, <2>1, <2>2 DEF Good
<1>5. \A q \in Tokens : Good(stored'[q], touches'[q], clock', steady)
  BY <1>2, <1>4
<1>6. Inv'
  BY <1>1, <1>5 DEF Inv, Later
<1>7. Bars' = [q \in Tokens |-> Bar(stored'[q], touches'[q])]
  BY DEF Bars, Bar, Effective
<1> QED BY <1>2, <1>3, <1>6, <1>7, BarsAre

\* What Sessions makes of a session that is there.
LEMMA BarLive ==
  ASSUME Inv, NEW t \in Tokens, stored[t] # None
  PROVE  /\ stored[t] \in Stored
         /\ Fit(stored[t], touches[t])
         /\ Bars[t] # None
         /\ Bars[t].used = Effective(t).seen
         /\ Bars[t].used \in Int
         /\ Bars[t].ends = stored[t].end
         /\ Least(Bars[t].used + Idle, Bars[t].ends) = DeadlineOf(stored[t], touches[t])
         /\ \A now \in Int : Expired(Effective(t), now) <=> now >= DeadlineOf(stored[t], touches[t])
<1>1. stored[t] \in Stored /\ Fit(stored[t], touches[t])
  BY DEF Inv, Good
<1>2. Bars[t] = [used |-> Effective(t).seen, ends |-> stored[t].end]
  BY DEF Bars
<1>3. Effective(t) \in Stored /\ stored[t].end \in Int
  BY <1>1, ExpiredAtDeadline, 0 \in Int DEF Effective, Stored
<1>4. Effective(t).seen \in Int
  BY <1>3 DEF Stored
<1>5. Bars[t] # None
  BY <1>2, <1>3, <1>4, NoneIsNoRecord
<1>6. \A now \in Int : Expired(Effective(t), now) <=> now >= DeadlineOf(stored[t], touches[t])
  BY <1>1, ExpiredAtDeadline DEF Effective
<1> QED BY <1>1, <1>2, <1>4, <1>5, <1>6 DEF DeadlineOf, Effective

\* A request that is answered "ok" at a reading at which the session was live.
LEMMA UseStep ==
  ASSUME Inv, NEW t \in Tokens, stored[t] # None, NEW s, NEW p,
         clock' \in Later(clock),
         ~Expired(Effective(t), clock),
         Bars' = [Bars EXCEPT ![t] = Bar(s, p)],
         s \in Stored, s.end = stored[t].end,
         \/ With(s, p).seen = Promise!Latest(Effective(t).seen, clock)
         \/ With(s, p).seen = Promise!Latest(Effective(t).seen, Promise!Latest(clock, clock')),
         answer' = "ok", unused' = unused
  PROVE  Promise!Request(t)
<1>1. Bar(s, p) = Promise!At(t, With(s, p).seen)
  BY BarLive, NoneIsNoRecord DEF Bar, Promise!At, Bars
<1>2. clock < Promise!Deadline(t)
  <2>1. clock \in Int
    BY TimeIsInt DEF Inv
  <2>2. Promise!Deadline(t) = DeadlineOf(stored[t], touches[t])
    BY BarLive DEF Promise!Deadline, Promise!Least, Least, Bars
  <2>3. DeadlineOf(stored[t], touches[t]) \in Int
    BY BarLive, ExpiredAtDeadline, 0 \in Int
  <2> QED BY <2>1, <2>2, <2>3, BarLive
<1>3. t \in Promise!Live
  BY BarLive DEF Promise!Live, Bars
<1>4. \E used \in {clock, Promise!Latest(clock, clock')} :
        Bar(s, p) = Promise!At(t, Promise!Latest(Bars[t].used, used))
  BY <1>1, BarLive
<1>5. Promise!Use(t)
  BY <1>2, <1>3, <1>4 DEF Promise!Use, Bars
<1> QED BY <1>5 DEF Promise!Request, Promise!Later, Later

\* One that was over at the first reading, and not at the second.
LEMMA JumpStep ==
  ASSUME Inv, NEW t \in Tokens, stored[t] # None, NEW s, NEW p,
         clock' \in Later(clock),
         Expired(Effective(t), clock), ~Expired(Effective(t), clock'),
         Bars' = [Bars EXCEPT ![t] = Bar(s, p)],
         s \in Stored, s.end = stored[t].end,
         \/ With(s, p).seen = Promise!Latest(Effective(t).seen, Effective(t).seen)
         \/ With(s, p).seen = Promise!Latest(Effective(t).seen, clock'),
         answer' = "ok", unused' = unused
  PROVE  Promise!Request(t)
<1>1. Bar(s, p) = Promise!At(t, With(s, p).seen)
  BY BarLive, NoneIsNoRecord DEF Bar, Promise!At, Bars
<1>2. clock' < Promise!Deadline(t) /\ ~steady
  <2>1. clock \in Int /\ clock' \in Int /\ (steady => clock' >= clock)
    BY TimeIsInt DEF Inv, Later
  <2>2. clock >= DeadlineOf(stored[t], touches[t]) /\ ~(clock' >= DeadlineOf(stored[t], touches[t]))
    BY <2>1, BarLive
  <2>3. DeadlineOf(stored[t], touches[t]) \in Int
    BY BarLive, ExpiredAtDeadline, 0 \in Int
  <2>4. Promise!Deadline(t) = DeadlineOf(stored[t], touches[t])
    BY BarLive DEF Promise!Deadline, Promise!Least, Least, Bars
  <2> QED BY <2>1, <2>2, <2>3, <2>4
<1>3. t \in Promise!Live
  BY BarLive DEF Promise!Live, Bars
<1>4. \E used \in {Bars[t].used, clock'} :
        Bar(s, p) = Promise!At(t, Promise!Latest(Bars[t].used, used))
  BY <1>1, BarLive
<1>5. Promise!UseAfterJump(t)
  BY <1>2, <1>3, <1>4 DEF Promise!UseAfterJump, Bars
<1> QED BY <1>5 DEF Promise!Request, Promise!Later, Later
-----------------------------------------------------------------------------
\* Each way a lookup can go keeps the invariant and is a request to Sessions.
LEMMA CoalesceStep ==
  ASSUME Inv, NEW t \in Tokens, Coalesce(t), steady' = steady
  PROVE  Inv' /\ Promise!Request(t)
<1> DEFINE p == Noted(stored[t], touches[t], clock)
<1>1. /\ stored[t] # None /\ ~Expired(Effective(t), clock) /\ ~Due(clock, stored[t].seen)
      /\ clock' = clock /\ stored' = stored /\ unused' = unused /\ answer' = "ok"
      /\ touches' = Set(touches, t, p)
  BY DEF Coalesce, Pending
<1>2. clock \in Int /\ clock' \in Later(clock)
  BY <1>1, TimeIsInt DEF Inv, Later
<1>3. stored[t] \in Stored /\ Good(stored[t], touches[t], clock, steady)
  BY <1>1, BarLive DEF Inv
<1>4. Good(stored[t], p, clock', steady)
  BY <1>1, <1>2, <1>3, NotedGood
<1>5. stored' = Set(stored, t, stored[t])
  BY <1>1 DEF Inv, Set
<1>6. Inv' /\ Bars' = [Bars EXCEPT ![t] = Bar(stored[t], p)]
  BY <1>1, <1>2, <1>4, <1>5, OneSession
<1>7. With(stored[t], p).seen = Promise!Latest(Effective(t).seen, clock)
  BY <1>2, <1>3, NotedFits DEF Good, Effective, Promise!Latest
<1> HIDE DEF p
<1> QED BY <1>1, <1>2, <1>3, <1>6, <1>7, UseStep

\* What is noted before the transaction.
LEMMA PendingIs ==
  ASSUME Inv, NEW t \in Tokens, Reread(t)
  PROVE  /\ stored[t] \in Stored /\ stored[t] # None
         /\ clock \in Int /\ clock' \in Int /\ clock' \in Later(clock) /\ clock' \in Time
         /\ steady => clock' >= clock /\ Past(Pending(t), clock)
         /\ Fit(stored[t], Pending(t))
         /\ unused' = unused
         /\ With(stored[t], Pending(t)).seen \in Int
         /\ With(stored[t], Pending(t)).seen
              = IF Expired(Effective(t), clock) THEN Effective(t).seen
                ELSE Promise!Latest(Effective(t).seen, clock)
<1>1. stored[t] # None /\ clock' \in Later(clock) /\ unused' = unused
  BY DEF Reread
<1>2. stored[t] \in Stored /\ Good(stored[t], touches[t], clock, steady)
  BY <1>1, BarLive DEF Inv
<1>3. clock \in Int /\ clock' \in Int /\ clock' \in Time /\ (steady => clock' >= clock)
  BY <1>1, TimeIsInt DEF Inv, Later
<1>4. Fit(stored[t], Pending(t)) /\ (steady => Past(Pending(t), clock))
  BY <1>2, <1>3, NotedFits DEF Good, Pending
<1>5. With(stored[t], Pending(t)).seen
        = IF Expired(Effective(t), clock) THEN Effective(t).seen
          ELSE Promise!Latest(Effective(t).seen, clock)
  BY <1>2, <1>3, NotedFits DEF Good, Pending, Effective, Promise!Latest
<1>6. With(stored[t], Pending(t)).seen \in Int
  BY <1>2, <1>4, ExpiredAtDeadline, 0 \in Int DEF Stored
<1> QED BY <1>1, <1>2, <1>3, <1>4, <1>5, <1>6

\* Noting a use never shortens a session.
LEMMA PendingLonger ==
  ASSUME Inv, NEW t \in Tokens, Reread(t), NEW now \in Int,
         Expired(With(stored[t], Pending(t)), now)
  PROVE  Expired(Effective(t), now)
<1>1. now >= DeadlineOf(stored[t], Pending(t))
  BY PendingIs, ExpiredAtDeadline
<1>2. Fit(stored[t], touches[t]) /\ stored[t] \in Stored
  BY PendingIs DEF Inv, Good
<1>3. /\ Effective(t).seen \in Int /\ stored[t].end \in Int
      /\ With(stored[t], Pending(t)).seen >= Effective(t).seen
  <2>1. Effective(t).seen \in Int /\ stored[t].end \in Int
    BY <1>2, ExpiredAtDeadline, 0 \in Int DEF Effective, Stored
  <2> QED BY <2>1, PendingIs DEF Promise!Latest
<1>4. now >= DeadlineOf(stored[t], touches[t])
  BY <1>1, <1>3, PendingIs, LifetimeAssumption DEF DeadlineOf, Least, Effective
<1> QED BY <1>2, <1>4, ExpiredAtDeadline DEF Effective

LEMMA ExpireStep ==
  ASSUME Inv, NEW t \in Tokens, Expire(t), steady' = steady
  PROVE  Inv' /\ Promise!Request(t)
<1>1. /\ Reread(t) /\ Expired(With(stored[t], Pending(t)), clock')
      /\ stored' = Set(stored, t, None) /\ touches' = Set(touches, t, None)
      /\ answer' = "expired"
  BY DEF Expire
<1>2. Expired(Effective(t), clock')
  BY <1>1, PendingIs, PendingLonger
<1>3. Good(None, None, clock', steady)
  BY DEF Good, Fit, Past
<1>4. Inv' /\ Bars' = [Bars EXCEPT ![t] = None]
  BY <1>1, <1>3, PendingIs, OneSession DEF Bar
<1>5. clock' >= Promise!Deadline(t)
  <2>1. Promise!Deadline(t) = DeadlineOf(stored[t], touches[t])
    BY <1>1, PendingIs, BarLive DEF Promise!Deadline, Promise!Least, Least, Bars
  <2> QED BY <1>1, <1>2, <2>1, PendingIs, BarLive
<1>6. t \in Promise!Live
  BY <1>1, PendingIs, BarLive DEF Promise!Live, Bars
<1>7. Promise!Refuse(t)
  BY <1>1, <1>4, <1>5, <1>6 DEF Promise!Refuse, Bars
<1> QED BY <1>1, <1>4, <1>7, PendingIs DEF Promise!Request, Promise!Later, Later

LEMMA PersistStep ==
  ASSUME Inv, NEW t \in Tokens, Persist(t), steady' = steady
  PROVE  Inv' /\ Promise!Request(t)
<1> DEFINE s == Written(stored[t], clock')
           p == Left(Pending(t), clock')
<1>1. /\ Reread(t) /\ ~Expired(With(stored[t], Pending(t)), clock')
      /\ Due(clock', stored[t].seen)
      /\ stored' = Set(stored, t, s) /\ touches' = Set(touches, t, p)
      /\ answer' = "ok"
  BY DEF Persist, Written, Left
<1>2. /\ s \in Stored /\ Good(s, p, clock', steady)
      /\ clock' > stored[t].seen \/ stored[t].seen = 0
      /\ With(s, p).seen = Newest(Pending(t), clock')
  <2>1. /\ stored[t] \in Stored /\ clock \in Int /\ clock' \in Int
        /\ Fit(stored[t], Pending(t)) /\ Due(clock', stored[t].seen)
        /\ steady => clock' >= clock /\ Past(Pending(t), clock)
    BY <1>1, PendingIs
  <2> QED BY <2>1, PersistGood
<1>3. Inv' /\ Bars' = [Bars EXCEPT ![t] = Bar(s, p)]
  BY <1>1, <1>2, PendingIs, OneSession
<1>4. s.end = stored[t].end
  BY DEF Written
<1>5. With(s, p).seen = Promise!Latest(With(stored[t], Pending(t)).seen, clock')
  <2>1. clock' >= stored[t].seen /\ stored[t].seen \in Int /\ clock' \in Int
    BY <1>1, <1>2, PendingIs, TimeIsInt DEF Stored
  <2>2. Pending(t) # None => Pending(t).seen \in Int /\ Pending(t).seen > stored[t].seen
    BY <1>1, PendingIs DEF Fit, Touch
  <2>3. With(stored[t], Pending(t)).seen
          = IF Pending(t) # None THEN Pending(t).seen ELSE stored[t].seen
    BY <2>2 DEF With
  <2> QED BY <1>2, <2>1, <2>2, <2>3 DEF Promise!Latest, Newest
<1>6. Effective(t).seen \in Int
  BY <1>1, PendingIs, BarLive
<1> HIDE DEF s, p
<1>7. CASE ~Expired(Effective(t), clock)
  <2>1. With(s, p).seen = Promise!Latest(Effective(t).seen, Promise!Latest(clock, clock'))
    BY <1>1, <1>5, <1>6, <1>7, PendingIs DEF Promise!Latest
  <2> QED BY <1>1, <1>2, <1>3, <1>4, <1>7, <2>1, PendingIs, UseStep
<1>8. CASE Expired(Effective(t), clock)
  <2>1. With(s, p).seen = Promise!Latest(Effective(t).seen, clock')
    BY <1>1, <1>5, <1>8, PendingIs
  <2>2. ~Expired(Effective(t), clock')
    BY <1>1, <1>8 DEF Pending, Effective
  <2> QED BY <1>1, <1>2, <1>3, <1>4, <1>8, <2>1, <2>2, PendingIs, JumpStep
<1> QED BY <1>7, <1>8

\* An expired session is not looked up again while the clock is steady, and
\* what was due stays due: so these two cannot happen then.
LEMMA OnlyAfterJump ==
  ASSUME Inv, NEW t \in Tokens, StillFresh(t)
  PROVE  ~steady
<1>1. /\ Reread(t) /\ ~Expired(With(stored[t], Pending(t)), clock')
      /\ ~Due(clock', stored[t].seen)
  BY DEF StillFresh
<1>2. Expired(Effective(t), clock) \/ Due(clock, stored[t].seen)
  BY <1>1 DEF Reread
<1>3. stored[t].seen \in Int /\ clock \in Int /\ clock' \in Int
  BY <1>1, PendingIs DEF Stored
<1>4. ASSUME steady, Expired(Effective(t), clock) PROVE FALSE
  <2>1. clock' >= clock /\ clock >= DeadlineOf(stored[t], touches[t])
    BY <1>1, <1>4, PendingIs, BarLive
  <2>2. DeadlineOf(stored[t], touches[t]) \in Int
    BY <1>1, PendingIs, BarLive, ExpiredAtDeadline, 0 \in Int
  <2>3. Expired(Effective(t), clock')
    BY <1>1, <1>3, <2>1, <2>2, PendingIs, BarLive
  <2> QED BY <1>1, <1>4, <2>3 DEF Pending, Effective
<1>5. ASSUME steady, Due(clock, stored[t].seen) PROVE FALSE
  BY <1>1, <1>3, <1>5, PendingIs, IntervalPositive DEF Due
<1> QED BY <1>2, <1>4, <1>5

LEMMA StillFreshStep ==
  ASSUME Inv, NEW t \in Tokens, StillFresh(t), steady' = steady
  PROVE  Inv' /\ Promise!Request(t)
<1>1. /\ Reread(t) /\ ~Expired(With(stored[t], Pending(t)), clock')
      /\ touches' = Set(touches, t, Pending(t)) /\ answer' = "ok" /\ stored' = stored
  BY DEF StillFresh
<1>2. stored' = Set(stored, t, stored[t])
  BY <1>1 DEF Set, Inv
<1>3. Good(stored[t], Pending(t), clock', steady)
  BY <1>1, PendingIs, OnlyAfterJump DEF Good
<1>4. Inv' /\ Bars' = [Bars EXCEPT ![t] = Bar(stored[t], Pending(t))]
  BY <1>1, <1>2, <1>3, PendingIs, OneSession
<1>5. CASE ~Expired(Effective(t), clock)
  BY <1>1, <1>4, <1>5, PendingIs, UseStep
<1>6. CASE Expired(Effective(t), clock)
  <2>1. ~Expired(Effective(t), clock')
    BY <1>1, <1>6 DEF Pending, Effective
  <2>2. With(stored[t], Pending(t)).seen = Promise!Latest(Effective(t).seen, Effective(t).seen)
    BY <1>1, <1>6, PendingIs DEF Promise!Latest
  <2> QED BY <1>1, <1>4, <1>6, <2>1, <2>2, PendingIs, JumpStep
<1> QED BY <1>5, <1>6

LEMMA UpdateFailsStep ==
  ASSUME Inv, NEW t \in Tokens, UpdateFails(t), steady' = steady
  PROVE  Inv' /\ Promise!Request(t)
<1>1. /\ ~steady /\ Reread(t)
      /\ touches' = Set(touches, t, Pending(t)) /\ answer' = "error" /\ stored' = stored
  BY DEF UpdateFails
<1>2. stored' = Set(stored, t, stored[t])
  BY <1>1 DEF Set, Inv
<1>3. Good(stored[t], Pending(t), clock', steady)
  BY <1>1, PendingIs DEF Good
<1>4. Inv' /\ Bars' = [Bars EXCEPT ![t] = Bar(stored[t], Pending(t))]
  BY <1>1, <1>2, <1>3, PendingIs, OneSession
<1>5. Bar(stored[t], Pending(t)) = Promise!At(t, With(stored[t], Pending(t)).seen)
  BY <1>1, PendingIs, BarLive DEF Bar, Promise!At, Bars
<1>6. \E used \in {Bars[t].used, clock} :
        Bar(stored[t], Pending(t)) = Promise!At(t, Promise!Latest(Bars[t].used, used))
  BY <1>1, <1>5, PendingIs, BarLive DEF Promise!Latest
<1>7. t \in Promise!Live
  BY <1>1, PendingIs, BarLive DEF Promise!Live, Bars
<1>8. Promise!Fail(t)
  BY <1>1, <1>4, <1>6, <1>7 DEF Promise!Fail, Bars
<1> QED BY <1>1, <1>4, <1>8, PendingIs DEF Promise!Request, Promise!Later, Later

LEMMA UnknownStep ==
  ASSUME Inv, NEW t \in Tokens, Unknown(t), steady' = steady
  PROVE  Inv' /\ Promise!Request(t)
<1>1. /\ stored[t] = None /\ touches' = Set(touches, t, None) /\ answer' = "unknown"
      /\ clock' = clock /\ stored' = stored /\ unused' = unused
  BY DEF Unknown
<1>2. clock' \in Later(clock) /\ stored' = Set(stored, t, None) /\ Good(None, None, clock', steady)
  BY <1>1, TimeIsInt DEF Later, Inv, Set, Good, Fit, Past
<1>3. Inv' /\ Bars' = [Bars EXCEPT ![t] = None]
  BY <1>1, <1>2, OneSession DEF Bar
<1>4. Bars[t] = None /\ Bars' = Bars
  BY <1>1, <1>3 DEF Bars
<1>5. Promise!Miss(t)
  BY <1>1, <1>4 DEF Promise!Miss, Promise!Live, Bars
<1> QED BY <1>1, <1>2, <1>3, <1>5 DEF Promise!Request, Promise!Later, Later
-----------------------------------------------------------------------------
\* The operations that are not requests.
LEMMA CreateStep ==
  ASSUME Inv, NEW t \in Tokens, CreateSession(t), steady' = steady
  PROVE  Inv' /\ Promise!Begin(t)
<1> DEFINE s == [seen |-> clock, idle |-> clock + Idle, end |-> clock + Absolute]
<1>1. /\ t \in unused /\ unused' = unused \ {t} /\ clock' = clock /\ answer' = answer
      /\ stored' = Set(stored, t, s) /\ touches' = Set(touches, t, None)
  BY DEF CreateSession
<1>2. clock \in Int /\ clock' \in Later(clock)
  BY <1>1, TimeIsInt DEF Inv, Later
<1>3. /\ s \in Stored /\ s # None
      /\ s.seen = clock /\ s.idle = clock + Idle /\ s.end = clock + Absolute
  BY <1>2, LifetimeAssumption, NoneIsNoRecord DEF Stored
<1> HIDE DEF s
<1>4. Good(s, None, clock', steady)
  BY <1>3 DEF Good, Fit, Past
<1>5. Inv' /\ Bars' = [Bars EXCEPT ![t] = Bar(s, None)]
  BY <1>1, <1>2, <1>4, OneSession DEF Inv
<1>6. Bar(s, None) = [used |-> clock, ends |-> clock + Absolute]
  BY <1>3 DEF Bar, With
<1> QED BY <1>1, <1>5, <1>6 DEF Promise!Begin, Bars

LEMMA DeleteStep ==
  ASSUME Inv, NEW t \in Tokens, DeleteSession(t), steady' = steady
  PROVE  Inv' /\ Promise!Revoke(t)
<1>1. /\ stored' = Set(stored, t, None) /\ touches' = Set(touches, t, None)
      /\ answer' = "revoked" /\ clock' = clock /\ unused' = unused
  BY DEF DeleteSession
<1>2. clock' \in Later(clock) /\ Good(None, None, clock', steady)
  BY <1>1, TimeIsInt DEF Inv, Later, Good, Fit, Past
<1>3. Inv' /\ Bars' = [Bars EXCEPT ![t] = None]
  BY <1>1, <1>2, OneSession DEF Bar
<1>4. Bars' = [q \in Tokens |-> IF q \in Tokens \ {t} THEN Bars[q] ELSE None]
  BY <1>3 DEF Bars
<1> QED BY <1>1, <1>3, <1>4 DEF Promise!Revoke, Promise!Keep, Bars

LEMMA PasswordStep ==
  ASSUME Inv, ReplacePassword, steady' = steady
  PROVE  Inv' /\ Promise!RevokeAll
<1>1. /\ stored' = [t \in Tokens |-> None] /\ touches' = [t \in Tokens |-> None]
      /\ answer' = "revoked" /\ clock' = clock /\ unused' = unused
  BY DEF ReplacePassword
<1>2. Inv'
  BY <1>1 DEF Inv, Good, Fit, Past
<1>3. Bars' = [q \in Tokens |-> IF q \in {} THEN Bars[q] ELSE None]
  BY <1>1 DEF Bars
<1> QED BY <1>1, <1>2, <1>3 DEF Promise!RevokeAll, Promise!Keep, Bars

LEMMA RestartStep ==
  ASSUME Inv, Restart, steady' = steady
  PROVE  Inv' /\ Promise!Restart
<1>1. /\ touches' = [t \in Tokens |-> None] /\ stored' = stored
      /\ answer' = answer /\ clock' = clock /\ unused' = unused
  BY DEF Restart
<1>2. Inv'
  BY <1>1 DEF Inv, Good, Fit, Past
<1>3. Bars' = [t \in Tokens |-> Bar(stored[t], None)]
  BY <1>1 DEF Bars, Bar, Effective
<1>4. DOMAIN Bars' = Tokens /\ \A t \in Tokens \ Promise!Live : Bars'[t] = None
  BY <1>3, BarLive DEF Promise!Live, Bar, Bars
<1>5. ASSUME NEW t \in Promise!Live
      PROVE  /\ Bars'[t] # None
             /\ Bars'[t] = Promise!At(t, Bars'[t].used)
             /\ Bars'[t].used <= Bars[t].used
             /\ steady => Bars[t].used - Bars'[t].used < Interval
  <2>1. t \in Tokens /\ stored[t] # None
    BY <1>5 DEF Promise!Live, Bars
  <2>2. stored[t] \in Stored /\ stored[t].seen \in Int /\ stored[t].end \in Int
    BY <2>1, BarLive DEF Stored
  <2>3. Bars'[t] = [used |-> stored[t].seen, ends |-> stored[t].end]
    BY <1>3, <2>1 DEF Bar, With
  <2>4. Bars'[t].used = stored[t].seen
    BY <2>3
  <2>5. Bars[t].used \in Int /\ Bars[t].ends = stored[t].end
        /\ Bars[t].used = With(stored[t], touches[t]).seen
    BY <2>1, BarLive DEF Effective
  <2>6. Bars'[t] # None /\ Bars'[t] = Promise!At(t, Bars'[t].used)
    BY <2>2, <2>3, <2>4, <2>5, NoneIsNoRecord DEF Promise!At, Bars
  <2>7. Good(stored[t], touches[t], clock, steady)
    BY <2>1 DEF Inv
  <2>8. CASE touches[t] = None
    BY <2>2, <2>4, <2>5, <2>6, <2>8, IntervalPositive DEF With
  <2>9. CASE touches[t] # None
    <3>1. touches[t].seen \in Int /\ touches[t].seen > stored[t].seen
      BY <2>7, <2>9 DEF Good, Fit, Touch
    <3>2. Bars[t].used = touches[t].seen
      BY <2>5, <2>9, <3>1 DEF With
    <3>3. steady => touches[t].seen - stored[t].seen < Interval
      BY <2>7, <2>9 DEF Good
    <3> QED BY <2>2, <2>4, <2>6, <3>1, <3>2, <3>3
  <2> QED BY <2>8, <2>9
<1> QED BY <1>1, <1>2, <1>4, <1>5 DEF Promise!Restart, Bars

LEMMA TickStep ==
  ASSUME Inv, Tick, steady' = steady
  PROVE  Inv' /\ Promise!Tick
<1>1. /\ clock' \in Later(clock)
      /\ touches' = touches /\ stored' = stored /\ answer' = answer /\ unused' = unused
  BY DEF Tick
<1>2. ASSUME NEW t \in Tokens PROVE Good(stored[t], touches[t], clock', steady)
  <2>1. Good(stored[t], touches[t], clock, steady)
    BY DEF Inv
  <2>2. touches[t] # None => touches[t].seen \in Int
    BY <2>1 DEF Good, Fit, Touch
  <2>3. clock \in Int /\ clock' \in Int /\ (steady => clock' >= clock)
    BY <1>1, TimeIsInt DEF Later, Inv
  <2>4. Past(touches[t], clock) /\ steady => Past(touches[t], clock')
    BY <2>2, <2>3 DEF Past
  <2> QED BY <2>1, <2>4 DEF Good
<1>3. Inv'
  BY <1>1, <1>2 DEF Inv, Later
<1>4. Bars' = Bars
  BY <1>1 DEF Bars, Effective
<1> QED BY <1>1, <1>3, <1>4 DEF Promise!Tick, Promise!Later, Later, Bars

LEMMA PruneStep ==
  ASSUME Inv, PruneExpired, steady' = steady
  PROVE  Inv' /\ Promise!Prune
<1> DEFINE kept == {t \in Tokens : stored[t] # None /\ ~Over(t)}
<1>1. /\ stored' = [t \in Tokens |-> IF Over(t) THEN None
                                     ELSE IF Refreshed(t) THEN Effective(t) ELSE stored[t]]
      /\ touches' = [t \in Tokens |-> IF Over(t) \/ Refreshed(t) THEN None ELSE touches[t]]
      /\ answer' = answer /\ clock' = clock /\ unused' = unused
  BY DEF PruneExpired
<1>2. ASSUME NEW t \in Tokens
      PROVE  /\ Good(stored'[t], touches'[t], clock', steady)
             /\ Bar(stored'[t], touches'[t]) = IF t \in kept THEN Bars[t] ELSE None
  <2>1. Good(stored[t], touches[t], clock, steady)
    BY DEF Inv
  <2>2. CASE Over(t)
    BY <1>1, <2>2 DEF Good, Fit, Past, Bar
  <2>3. CASE ~Over(t) /\ ~Refreshed(t)
    BY <1>1, <2>1, <2>3, BarsAre DEF Bar
  <2>4. CASE ~Over(t) /\ Refreshed(t)
    <3>1. stored[t] \in Stored /\ stored[t] # None /\ Fit(stored[t], touches[t])
      BY <2>1, <2>4 DEF Refreshed, Good, Fit
    <3>2. Effective(t) \in Stored /\ Effective(t).end = stored[t].end
      BY <3>1, ExpiredAtDeadline, 0 \in Int DEF Effective
    <3>3. Effective(t) # None
      BY <3>2, NoneIsNoRecord
    <3>4. Least(Effective(t).idle, Effective(t).end) = Least(Effective(t).seen + Idle, Effective(t).end)
      <4>1. CASE touches[t] # None /\ touches[t].seen > stored[t].seen
        <5>1. touches[t] \in Touch /\ touches[t].seen \in Int
              /\ touches[t].idle = Least(touches[t].seen + Idle, stored[t].end)
          BY <3>1, <4>1 DEF Fit, Touch
        <5>2. Effective(t) = [seen |-> touches[t].seen, idle |-> touches[t].idle, end |-> stored[t].end]
          BY <4>1 DEF Effective, With
        <5>3. stored[t].end \in Int
          BY <3>1 DEF Stored
        <5> QED BY <5>1, <5>2, <5>3, LifetimeAssumption DEF Least
      <4>2. CASE ~(touches[t] # None /\ touches[t].seen > stored[t].seen)
        BY <3>1, <4>2 DEF Effective, With, Fit
      <4> QED BY <4>1, <4>2
    <3>5. Good(Effective(t), None, clock', steady)
      BY <3>2, <3>3, <3>4 DEF Good, Fit, Past
    <3>6. Bar(Effective(t), None) = Bars[t]
      BY <3>1, <3>2, <3>3 DEF Bar, With, Bars
    <3> QED BY <1>1, <2>4, <3>1, <3>5, <3>6
  <2> QED BY <2>2, <2>3, <2>4
<1>3. /\ stored' \in [Tokens -> Stored \cup {None}]
      /\ touches' \in [Tokens -> Touch \cup {None}]
  BY <1>1, <1>2 DEF Good, Fit
<1>4. Inv'
  BY <1>1, <1>2, <1>3 DEF Inv
<1>5. Bars' = [t \in Tokens |-> IF t \in kept THEN Bars[t] ELSE None]
  <2>1. Bars' = [t \in Tokens |-> Bar(stored'[t], touches'[t])]
    BY DEF Bars, Bar, Effective
  <2> QED BY <1>2, <2>1
<1>6. kept \in SUBSET Promise!Live
  BY BarLive DEF Promise!Live, Bars
<1>7. ASSUME NEW t \in Promise!Live \ kept PROVE clock >= Promise!Deadline(t)
  <2>1. t \in Tokens /\ stored[t] # None /\ Expired(Effective(t), clock)
    BY <1>7 DEF Promise!Live, Bars, Over
  <2>2. Promise!Deadline(t) = DeadlineOf(stored[t], touches[t])
    BY <2>1, BarLive DEF Promise!Deadline, Promise!Least, Least, Bars
  <2> QED BY <2>1, <2>2, BarLive, TimeIsInt DEF Inv
<1> HIDE DEF kept
<1> QED BY <1>1, <1>4, <1>5, <1>6, <1>7 DEF Promise!Prune, Promise!Keep, Bars
-----------------------------------------------------------------------------
LEMMA Start ==
  ASSUME Init PROVE Inv /\ Promise!Init
BY DEF Init, Inv, Good, Fit, Past, Promise!Init

\* What Sessions allows, and its variables.
Allowed == Promise!Next /\ UNCHANGED steady
Seen == <<clock, Bars, unused, answer, steady>>

LEMMA EveryStep ==
  ASSUME Inv, [Next /\ UNCHANGED steady]_vars
  PROVE  Inv' /\ [Allowed]_Seen
<1>1. CASE UNCHANGED vars
  <2>1. Inv'
    BY <1>1 DEF Inv, vars
  <2>2. Seen' = Seen
    BY <1>1 DEF vars, Seen, Bars, Effective
  <2> QED BY <2>1, <2>2
<1>2. CASE Next /\ UNCHANGED steady
  <2> steady' = steady
    BY <1>2
  <2> SUFFICES Inv' /\ Promise!Next
    BY DEF Allowed
  <2>1. CASE Tick
    BY <2>1, TickStep DEF Promise!Next
  <2>2. CASE ReplacePassword
    BY <2>2, PasswordStep DEF Promise!Next
  <2>3. CASE PruneExpired
    BY <2>3, PruneStep DEF Promise!Next
  <2>4. CASE Restart
    BY <2>4, RestartStep DEF Promise!Next
  <2>5. ASSUME NEW t \in Tokens, CreateSession(t) PROVE Inv' /\ Promise!Next
    BY <2>5, CreateStep DEF Promise!Next
  <2>6. ASSUME NEW t \in Tokens, DeleteSession(t) PROVE Inv' /\ Promise!Next
    BY <2>6, DeleteStep DEF Promise!Next
  <2>7. ASSUME NEW t \in Tokens, Session(t) PROVE Inv' /\ Promise!Next
    <3>1. Inv' /\ Promise!Request(t)
      BY <2>7, UnknownStep, CoalesceStep, ExpireStep, PersistStep, StillFreshStep,
         UpdateFailsStep DEF Session
    <3> QED BY <3>1 DEF Promise!Next
  <2> QED BY <1>2, <2>1, <2>2, <2>3, <2>4, <2>5, <2>6, <2>7 DEF Next
<1> QED BY <1>1, <1>2

LEMMA Invariant == Spec => []Inv
<1>1. Init => Inv
  BY Start
<1>2. Inv /\ [Next /\ UNCHANGED steady]_vars => Inv'
  BY EveryStep
<1> QED BY <1>1, <1>2, PTL DEF Spec

\* Records, notes and tokens keep their types.
THEOREM StoreTypeCorrect == Spec => []TypeOK
<1>1. Inv => TypeOK
  BY DEF Inv, TypeOK
<1> QED BY <1>1, Invariant, PTL

\* Whatever the clock does, a note in memory belongs to a session in the
\* bucket and is newer than its record (sessionTouches, store.go).
THEOREM NotesNeverStray == Spec => []NoStrayTouch
<1>1. Inv => NoStrayTouch
  BY DEF Inv, Good, Fit, NoStrayTouch
<1> QED BY <1>1, Invariant, PTL

\* A crash takes less than one touch interval of use from a session
\* (sessionTouchInterval and credentialTouchDue, store.go).
THEOREM NotesLag == Spec => []TouchLag
<1>1. Inv => TouchLag
  BY DEF Inv, Good, TouchLag
<1> QED BY <1>1, Invariant, PTL

\* For any number of sessions, any lifetimes and any clock, the coalesced
\* store answers every request as sessions whose uses count at once would be
\* answered (Session, PruneExpired and the rest of store.go).
THEOREM StoreIsExact == Spec => ExactSessions
<1>1. Init => Promise!Init
  BY Start
<1>2. Inv /\ [Next /\ UNCHANGED steady]_vars => [Allowed]_Seen
  BY EveryStep
<1> QED BY <1>1, <1>2, Invariant, PTL DEF Spec, ExactSessions, Promise!Spec, Allowed, Seen, Bars

-----------------------------------------------------------------------------
(***************************************************************************)
(* Supervisor.  The inductive invariant says who may touch what: the       *)
(* records of the lock follow the step of its owner, no starter takes over *)
(* while there is one, and each backend, file and rule that is left        *)
(* belongs to a supervisor that still will, or never can, remove it.       *)
(***************************************************************************)

\* The steps at which an owner's own record is in the lock
HasOwner == Owned \ {"owner", "dropIdent", "dropChild", "free"}
HasIdent == Owned \ {"owner", "ident", "dropChild", "free"}
HasChild == {"exe", "wait", "stop", "reap", "shut", "check", "dropSocket", "dropPid", "dropOwner",
             "dropIdent", "dropChild"}
\* ... at which server.pid is its own if it is there, its backend may run, the port is open
HasPid   == Owned \ {"owner", "ident", "pid", "dropOwner", "dropIdent", "dropChild", "free"}
Launched == {"record", "exe", "wait", "stop", "reap"}
Opened   == Launched \cup {"launch", "shut"}
\* ... and at which a starter has found the owner dead
Taking   == Acquiring \ {"read"}

\* What a regime allows: no starter takes over, or only one acquires.
Turns ==
  /\ regime = "together" => \A s \in Supervisors : pc[s] \in Owned \cup {"new", "read", "done"}
  /\ regime = "together" /\ lock => \E s \in Supervisors : pc[s] \in Owned
  /\ regime = "alone" =>
       \A s, t \in Supervisors : pc[s] \in Acquiring /\ pc[t] \in Acquiring => s = t

\* The lock has one owner, whose records are exactly those it has written and
\* not removed; a lock that is not there has left none behind.
Whose ==
  /\ \A s, t \in Supervisors : pc[s] \in Owned /\ pc[t] \in Owned => s = t
  /\ \A s, t \in Supervisors : pc[s] \in Owned => pc[t] \notin Taking
  /\ ~lock => Empty
  /\ \A s \in Supervisors : pc[s] \in Owned =>
       /\ lock
       /\ rec["owner"] = IF pc[s] \in HasOwner THEN s ELSE Nobody
       /\ rec["ident"] = IF pc[s] \in HasIdent THEN s ELSE Nobody
       /\ rec["child"] = IF pc[s] \in HasChild THEN s ELSE Nobody

\* A backend that may run is in the lock's records, or its supervisor is about
\* to write it there, or was killed then; a starter removes that record only
\* after it has seen the backend end.
Children ==
  /\ \A b \in Supervisors : Alive(b) => pc[b] \in Launched \cup {"killed"}
  /\ \A b \in lost : pc[b] = "killed"
  /\ \A b \in Supervisors : Alive(b) /\ b \notin lost => pc[b] = "record" \/ rec["child"] = b
  /\ \A s \in Supervisors : pc[s] \in Launched \cup {"shut"} => backend[s] # "off"
  /\ \A s \in Supervisors : pc[s] = "kill" => target[s] = rec["child"]
  /\ \A s \in Supervisors :
       pc[s] \in {"unlinkOwner", "unlinkIdent", "unlinkChild"} /\ rec["child"] # Nobody
         => ~Alive(rec["child"])

\* The lock of zenfm.db lets one backend serve.
Database ==
  \A b \in Supervisors : backend[b] \in {"bound", "serving", "stopping"} => db = b

\* server.pid, the socket and the firewall are those of a supervisor that is
\* still to clean them up, or that was killed.
Traces ==
  /\ \A s \in Supervisors : pc[s] \in HasPid => pidFile = s \/ (dropped /\ pidFile = Nobody)
  /\ pidFile # Nobody => pc[pidFile] \in HasPid \cup {"killed"}
  /\ \A s \in Supervisors : pc[s] \in Opened => firewall
  /\ firewall => \E s \in Supervisors : pc[s] \in Opened \cup {"killed"}
  /\ \A b \in Supervisors : backend[b] = "serving" /\ pc[b] \in {"record", "exe", "wait"} => sock = b
  /\ sock # Nobody => pc[sock] \in Launched \cup {"shut", "check", "dropSocket", "killed"}

Sound == regime # "any" => Turns /\ Whose /\ Children /\ Traces
-----------------------------------------------------------------------------
\* Every step keeps each part; those of the invariant it rests on are named.
LEMMA TypeStep ==
  SupervisorTypeOK /\ [SupervisorNext]_supervisorVars => SupervisorTypeOK'
<1> SUFFICES ASSUME SupervisorTypeOK, [SupervisorNext]_supervisorVars PROVE SupervisorTypeOK'
  OBVIOUS
<1> USE NobodyAssumption
    DEF SupervisorTypeOK, files, pid, Records, Go, Write, Live, Alive, Owned, Acquiring
<1>1. ASSUME NEW s \in Supervisors, StartSupervisor(s) PROVE SupervisorTypeOK'
  BY <1>1 DEF StartSupervisor
<1>2. ASSUME NEW s \in Supervisors, ReadRecords(s) PROVE SupervisorTypeOK'
  BY <1>2 DEF ReadRecords, Refuse
<1>3. ASSUME NEW s \in Supervisors, TerminateChild(s) PROVE SupervisorTypeOK'
  BY <1>3 DEF TerminateChild, Signal
<1>4. ASSUME NEW s \in Supervisors, KillChild(s) PROVE SupervisorTypeOK'
  BY <1>4 DEF KillChild, Die
<1>5. ASSUME NEW s \in Supervisors, UnlinkRecord(s) PROVE SupervisorTypeOK'
  BY <1>5 DEF UnlinkRecord, Unlink
<1>6. ASSUME NEW s \in Supervisors, RemoveLock(s) PROVE SupervisorTypeOK'
  BY <1>6 DEF RemoveLock, Empty
<1>7. ASSUME NEW s \in Supervisors, MakeLock(s) PROVE SupervisorTypeOK'
  BY <1>7 DEF MakeLock
<1>8. ASSUME NEW s \in Supervisors, RecordOwner(s) PROVE SupervisorTypeOK'
  BY <1>8 DEF RecordOwner, Record
<1>9. ASSUME NEW s \in Supervisors, RecordIdent(s) PROVE SupervisorTypeOK'
  BY <1>9 DEF RecordIdent, Record
<1>10. ASSUME NEW s \in Supervisors, WritePid(s) PROVE SupervisorTypeOK'
  BY <1>10 DEF WritePid
<1>11. ASSUME NEW s \in Supervisors, OpenFirewall(s) PROVE SupervisorTypeOK'
  BY <1>11 DEF OpenFirewall
<1>12. ASSUME NEW s \in Supervisors, Launch(s) PROVE SupervisorTypeOK'
  BY <1>12 DEF Launch
<1>13. ASSUME NEW s \in Supervisors, RecordChild(s) PROVE SupervisorTypeOK'
  BY <1>13 DEF RecordChild, Record
<1>14. ASSUME NEW s \in Supervisors, RecordExe(s) PROVE SupervisorTypeOK'
  BY <1>14 DEF RecordExe
<1>15. ASSUME NEW s \in Supervisors, Awake(s) PROVE SupervisorTypeOK'
  BY <1>15 DEF Awake
<1>16. ASSUME NEW s \in Supervisors, StopChild(s) PROVE SupervisorTypeOK'
  BY <1>16 DEF StopChild, Signal
<1>17. ASSUME NEW s \in Supervisors, Reap(s) PROVE SupervisorTypeOK'
  BY <1>17 DEF Reap, Die
<1>18. ASSUME NEW s \in Supervisors, Shut(s) PROVE SupervisorTypeOK'
  BY <1>18 DEF Shut
<1>19. ASSUME NEW s \in Supervisors, Check(s) PROVE SupervisorTypeOK'
  BY <1>19 DEF Check
<1>20. ASSUME NEW s \in Supervisors, DropSocket(s) PROVE SupervisorTypeOK'
  BY <1>20 DEF DropSocket
<1>21. ASSUME NEW s \in Supervisors, DropPid(s) PROVE SupervisorTypeOK'
  BY <1>21 DEF DropPid
<1>22. ASSUME NEW s \in Supervisors, Free(s) PROVE SupervisorTypeOK'
  BY <1>22 DEF Free, Empty
<1>23. ASSUME NEW s \in Supervisors, Kill(s) PROVE SupervisorTypeOK'
  BY <1>23 DEF Kill
<1>24. ASSUME NEW s \in Supervisors, Open(s) PROVE SupervisorTypeOK'
  BY <1>24 DEF Open
<1>25. ASSUME NEW s \in Supervisors, Listen(s) PROVE SupervisorTypeOK'
  BY <1>25 DEF Listen
<1>26. ASSUME NEW s \in Supervisors, Stop(s) PROVE SupervisorTypeOK'
  BY <1>26 DEF Stop
<1>27. ASSUME NEW s \in Supervisors, CloseSocket(s) PROVE SupervisorTypeOK'
  BY <1>27 DEF CloseSocket
<1>28. ASSUME NEW s \in Supervisors, Exit(s) PROVE SupervisorTypeOK'
  BY <1>28 DEF Exit, Die
<1>29. CASE StopUnanswered  BY <1>29 DEF StopUnanswered
<1>30. CASE UNCHANGED supervisorVars  BY <1>30 DEF supervisorVars
<1>31. QED
    BY <1>1, <1>2, <1>3, <1>4, <1>5, <1>6, <1>7, <1>8, <1>9, <1>10, <1>11, <1>12, <1>13, <1>14,
     <1>15, <1>16, <1>17, <1>18, <1>19, <1>20, <1>21, <1>22, <1>23, <1>24, <1>25, <1>26, <1>27,
     <1>28, <1>29, <1>30 DEF SupervisorNext, Acquire, Run, Cleanup, Backend

LEMMA DatabaseStep ==
  SupervisorTypeOK /\ Database /\ [SupervisorNext]_supervisorVars => Database'
<1> SUFFICES ASSUME SupervisorTypeOK, Database, [SupervisorNext]_supervisorVars PROVE Database'
  OBVIOUS
<1> USE NobodyAssumption
    DEF Database, SupervisorTypeOK, files, pid, Go, Alive
<1>1. ASSUME NEW s \in Supervisors, StartSupervisor(s) PROVE Database'
  BY <1>1 DEF StartSupervisor
<1>2. ASSUME NEW s \in Supervisors, ReadRecords(s) PROVE Database'
  BY <1>2 DEF ReadRecords, Refuse
<1>3. ASSUME NEW s \in Supervisors, TerminateChild(s) PROVE Database'
  BY <1>3 DEF TerminateChild, Signal
<1>4. ASSUME NEW s \in Supervisors, KillChild(s) PROVE Database'
  BY <1>4 DEF KillChild, Die
<1>5. ASSUME NEW s \in Supervisors, UnlinkRecord(s) PROVE Database'
  BY <1>5 DEF UnlinkRecord, Unlink
<1>6. ASSUME NEW s \in Supervisors, RemoveLock(s) PROVE Database'
  BY <1>6 DEF RemoveLock, Empty
<1>7. ASSUME NEW s \in Supervisors, MakeLock(s) PROVE Database'
  BY <1>7 DEF MakeLock
<1>8. ASSUME NEW s \in Supervisors, RecordOwner(s) PROVE Database'
  BY <1>8 DEF RecordOwner, Record
<1>9. ASSUME NEW s \in Supervisors, RecordIdent(s) PROVE Database'
  BY <1>9 DEF RecordIdent, Record
<1>10. ASSUME NEW s \in Supervisors, WritePid(s) PROVE Database'
  BY <1>10 DEF WritePid
<1>11. ASSUME NEW s \in Supervisors, OpenFirewall(s) PROVE Database'
  BY <1>11 DEF OpenFirewall
<1>12. ASSUME NEW s \in Supervisors, Launch(s) PROVE Database'
  BY <1>12 DEF Launch
<1>13. ASSUME NEW s \in Supervisors, RecordChild(s) PROVE Database'
  BY <1>13 DEF RecordChild, Record
<1>14. ASSUME NEW s \in Supervisors, RecordExe(s) PROVE Database'
  BY <1>14 DEF RecordExe
<1>15. ASSUME NEW s \in Supervisors, Awake(s) PROVE Database'
  BY <1>15 DEF Awake
<1>16. ASSUME NEW s \in Supervisors, StopChild(s) PROVE Database'
  BY <1>16 DEF StopChild, Signal
<1>17. ASSUME NEW s \in Supervisors, Reap(s) PROVE Database'
  BY <1>17 DEF Reap, Die
<1>18. ASSUME NEW s \in Supervisors, Shut(s) PROVE Database'
  BY <1>18 DEF Shut
<1>19. ASSUME NEW s \in Supervisors, Check(s) PROVE Database'
  BY <1>19 DEF Check
<1>20. ASSUME NEW s \in Supervisors, DropSocket(s) PROVE Database'
  BY <1>20 DEF DropSocket
<1>21. ASSUME NEW s \in Supervisors, DropPid(s) PROVE Database'
  BY <1>21 DEF DropPid
<1>22. ASSUME NEW s \in Supervisors, Free(s) PROVE Database'
  BY <1>22 DEF Free, Empty
<1>23. ASSUME NEW s \in Supervisors, Kill(s) PROVE Database'
  BY <1>23 DEF Kill
<1>24. ASSUME NEW s \in Supervisors, Open(s) PROVE Database'
  BY <1>24 DEF Open
<1>25. ASSUME NEW s \in Supervisors, Listen(s) PROVE Database'
  BY <1>25 DEF Listen
<1>26. ASSUME NEW s \in Supervisors, Stop(s) PROVE Database'
  BY <1>26 DEF Stop
<1>27. ASSUME NEW s \in Supervisors, CloseSocket(s) PROVE Database'
  BY <1>27 DEF CloseSocket
<1>28. ASSUME NEW s \in Supervisors, Exit(s) PROVE Database'
  BY <1>28 DEF Exit, Die
<1>29. CASE StopUnanswered  BY <1>29 DEF StopUnanswered
<1>30. CASE UNCHANGED supervisorVars  BY <1>30 DEF supervisorVars
<1>31. QED
    BY <1>1, <1>2, <1>3, <1>4, <1>5, <1>6, <1>7, <1>8, <1>9, <1>10, <1>11, <1>12, <1>13, <1>14,
     <1>15, <1>16, <1>17, <1>18, <1>19, <1>20, <1>21, <1>22, <1>23, <1>24, <1>25, <1>26, <1>27,
     <1>28, <1>29, <1>30 DEF SupervisorNext, Acquire, Run, Cleanup, Backend

LEMMA TurnsStep ==
  SupervisorTypeOK /\ regime # "any" /\ Turns /\ Whose /\ [SupervisorNext]_supervisorVars => Turns'
<1> SUFFICES
      ASSUME SupervisorTypeOK, regime # "any", Turns, Whose, [SupervisorNext]_supervisorVars
      PROVE  Turns'
  OBVIOUS
<1> USE NobodyAssumption
    DEF Turns, Whose, Empty, SupervisorTypeOK, files, pid, Records, Go, Write, Live, Alive, Owned, Acquiring,
        Taking, HasOwner, HasIdent, HasChild
<1>1. ASSUME NEW s \in Supervisors, StartSupervisor(s) PROVE Turns'
  BY <1>1 DEF StartSupervisor
<1>2. ASSUME NEW s \in Supervisors, ReadRecords(s) PROVE Turns'
  BY <1>2 DEF ReadRecords, Refuse
<1>3. ASSUME NEW s \in Supervisors, TerminateChild(s) PROVE Turns'
  BY <1>3 DEF TerminateChild, Signal
<1>4. ASSUME NEW s \in Supervisors, KillChild(s) PROVE Turns'
  BY <1>4 DEF KillChild, Die
<1>5. ASSUME NEW s \in Supervisors, UnlinkRecord(s) PROVE Turns'
  BY <1>5 DEF UnlinkRecord, Unlink
<1>6. ASSUME NEW s \in Supervisors, RemoveLock(s) PROVE Turns'
  BY <1>6 DEF RemoveLock, Empty
<1>7. ASSUME NEW s \in Supervisors, MakeLock(s) PROVE Turns'
  BY <1>7 DEF MakeLock
<1>8. ASSUME NEW s \in Supervisors, RecordOwner(s) PROVE Turns'
  BY <1>8 DEF RecordOwner, Record
<1>9. ASSUME NEW s \in Supervisors, RecordIdent(s) PROVE Turns'
  BY <1>9 DEF RecordIdent, Record
<1>10. ASSUME NEW s \in Supervisors, WritePid(s) PROVE Turns'
  BY <1>10 DEF WritePid
<1>11. ASSUME NEW s \in Supervisors, OpenFirewall(s) PROVE Turns'
  BY <1>11 DEF OpenFirewall
<1>12. ASSUME NEW s \in Supervisors, Launch(s) PROVE Turns'
  BY <1>12 DEF Launch
<1>13. ASSUME NEW s \in Supervisors, RecordChild(s) PROVE Turns'
  BY <1>13 DEF RecordChild, Record
<1>14. ASSUME NEW s \in Supervisors, RecordExe(s) PROVE Turns'
  BY <1>14 DEF RecordExe
<1>15. ASSUME NEW s \in Supervisors, Awake(s) PROVE Turns'
  BY <1>15 DEF Awake
<1>16. ASSUME NEW s \in Supervisors, StopChild(s) PROVE Turns'
  BY <1>16 DEF StopChild, Signal
<1>17. ASSUME NEW s \in Supervisors, Reap(s) PROVE Turns'
  BY <1>17 DEF Reap, Die
<1>18. ASSUME NEW s \in Supervisors, Shut(s) PROVE Turns'
  BY <1>18 DEF Shut
<1>19. ASSUME NEW s \in Supervisors, Check(s) PROVE Turns'
  BY <1>19 DEF Check
<1>20. ASSUME NEW s \in Supervisors, DropSocket(s) PROVE Turns'
  BY <1>20 DEF DropSocket
<1>21. ASSUME NEW s \in Supervisors, DropPid(s) PROVE Turns'
  BY <1>21 DEF DropPid
<1>22. ASSUME NEW s \in Supervisors, Free(s) PROVE Turns'
  <2>1. rec["owner"] = Nobody /\ rec["ident"] = Nobody /\ rec["child"] = Nobody
    BY <1>22 DEF Free
  <2>2. ~lock'
    BY <1>22, <2>1 DEF Free, Empty
  <2>3. QED
    BY <1>22, <2>2 DEF Free
<1>23. ASSUME NEW s \in Supervisors, Kill(s) PROVE Turns'
  BY <1>23 DEF Kill
<1>24. ASSUME NEW s \in Supervisors, Open(s) PROVE Turns'
  BY <1>24 DEF Open
<1>25. ASSUME NEW s \in Supervisors, Listen(s) PROVE Turns'
  BY <1>25 DEF Listen
<1>26. ASSUME NEW s \in Supervisors, Stop(s) PROVE Turns'
  BY <1>26 DEF Stop
<1>27. ASSUME NEW s \in Supervisors, CloseSocket(s) PROVE Turns'
  BY <1>27 DEF CloseSocket
<1>28. ASSUME NEW s \in Supervisors, Exit(s) PROVE Turns'
  BY <1>28 DEF Exit, Die
<1>29. CASE StopUnanswered  BY <1>29 DEF StopUnanswered
<1>30. CASE UNCHANGED supervisorVars  BY <1>30 DEF supervisorVars
<1>31. QED
    BY <1>1, <1>2, <1>3, <1>4, <1>5, <1>6, <1>7, <1>8, <1>9, <1>10, <1>11, <1>12, <1>13, <1>14,
     <1>15, <1>16, <1>17, <1>18, <1>19, <1>20, <1>21, <1>22, <1>23, <1>24, <1>25, <1>26, <1>27,
     <1>28, <1>29, <1>30 DEF SupervisorNext, Acquire, Run, Cleanup, Backend

LEMMA WhoseStep ==
  SupervisorTypeOK /\ regime # "any" /\ Turns /\ Whose /\ [SupervisorNext]_supervisorVars => Whose'
<1> SUFFICES
      ASSUME SupervisorTypeOK, regime # "any", Turns, Whose, [SupervisorNext]_supervisorVars
      PROVE  Whose'
  OBVIOUS
<1> USE NobodyAssumption
    DEF Turns, Whose, Empty, SupervisorTypeOK, files, pid, Records, Go, Write, Live, Alive, Owned, Acquiring,
        Taking, HasOwner, HasIdent, HasChild
<1>1. ASSUME NEW s \in Supervisors, StartSupervisor(s) PROVE Whose'
  BY <1>1 DEF StartSupervisor
<1>2. ASSUME NEW s \in Supervisors, ReadRecords(s) PROVE Whose'
  BY <1>2 DEF ReadRecords, Refuse
<1>3. ASSUME NEW s \in Supervisors, TerminateChild(s) PROVE Whose'
  BY <1>3 DEF TerminateChild, Signal
<1>4. ASSUME NEW s \in Supervisors, KillChild(s) PROVE Whose'
  BY <1>4 DEF KillChild, Die
<1>5. ASSUME NEW s \in Supervisors, UnlinkRecord(s) PROVE Whose'
  BY <1>5 DEF UnlinkRecord, Unlink
<1>6. ASSUME NEW s \in Supervisors, RemoveLock(s) PROVE Whose'
  BY <1>6 DEF RemoveLock, Empty
<1>7. ASSUME NEW s \in Supervisors, MakeLock(s) PROVE Whose'
  BY <1>7 DEF MakeLock
<1>8. ASSUME NEW s \in Supervisors, RecordOwner(s) PROVE Whose'
  BY <1>8 DEF RecordOwner, Record
<1>9. ASSUME NEW s \in Supervisors, RecordIdent(s) PROVE Whose'
  BY <1>9 DEF RecordIdent, Record
<1>10. ASSUME NEW s \in Supervisors, WritePid(s) PROVE Whose'
  BY <1>10 DEF WritePid
<1>11. ASSUME NEW s \in Supervisors, OpenFirewall(s) PROVE Whose'
  BY <1>11 DEF OpenFirewall
<1>12. ASSUME NEW s \in Supervisors, Launch(s) PROVE Whose'
  BY <1>12 DEF Launch
<1>13. ASSUME NEW s \in Supervisors, RecordChild(s) PROVE Whose'
  BY <1>13 DEF RecordChild, Record
<1>14. ASSUME NEW s \in Supervisors, RecordExe(s) PROVE Whose'
  BY <1>14 DEF RecordExe
<1>15. ASSUME NEW s \in Supervisors, Awake(s) PROVE Whose'
  BY <1>15 DEF Awake
<1>16. ASSUME NEW s \in Supervisors, StopChild(s) PROVE Whose'
  BY <1>16 DEF StopChild, Signal
<1>17. ASSUME NEW s \in Supervisors, Reap(s) PROVE Whose'
  BY <1>17 DEF Reap, Die
<1>18. ASSUME NEW s \in Supervisors, Shut(s) PROVE Whose'
  BY <1>18 DEF Shut
<1>19. ASSUME NEW s \in Supervisors, Check(s) PROVE Whose'
  BY <1>19 DEF Check
<1>20. ASSUME NEW s \in Supervisors, DropSocket(s) PROVE Whose'
  BY <1>20 DEF DropSocket
<1>21. ASSUME NEW s \in Supervisors, DropPid(s) PROVE Whose'
  BY <1>21 DEF DropPid
<1>22. ASSUME NEW s \in Supervisors, Free(s) PROVE Whose'
  BY <1>22 DEF Free, Empty
<1>23. ASSUME NEW s \in Supervisors, Kill(s) PROVE Whose'
  BY <1>23 DEF Kill
<1>24. ASSUME NEW s \in Supervisors, Open(s) PROVE Whose'
  BY <1>24 DEF Open
<1>25. ASSUME NEW s \in Supervisors, Listen(s) PROVE Whose'
  BY <1>25 DEF Listen
<1>26. ASSUME NEW s \in Supervisors, Stop(s) PROVE Whose'
  BY <1>26 DEF Stop
<1>27. ASSUME NEW s \in Supervisors, CloseSocket(s) PROVE Whose'
  BY <1>27 DEF CloseSocket
<1>28. ASSUME NEW s \in Supervisors, Exit(s) PROVE Whose'
  BY <1>28 DEF Exit, Die
<1>29. CASE StopUnanswered  BY <1>29 DEF StopUnanswered
<1>30. CASE UNCHANGED supervisorVars  BY <1>30 DEF supervisorVars
<1>31. QED
    BY <1>1, <1>2, <1>3, <1>4, <1>5, <1>6, <1>7, <1>8, <1>9, <1>10, <1>11, <1>12, <1>13, <1>14,
     <1>15, <1>16, <1>17, <1>18, <1>19, <1>20, <1>21, <1>22, <1>23, <1>24, <1>25, <1>26, <1>27,
     <1>28, <1>29, <1>30 DEF SupervisorNext, Acquire, Run, Cleanup, Backend

LEMMA ChildrenStep ==
  SupervisorTypeOK /\ regime # "any" /\ Turns /\ Whose /\ Children
  /\ [SupervisorNext]_supervisorVars => Children'
<1> SUFFICES
      ASSUME SupervisorTypeOK, regime # "any", Turns, Whose, Children, [SupervisorNext]_supervisorVars
      PROVE  Children'
  OBVIOUS
<1> USE NobodyAssumption
    DEF Whose, Children, Launched, SupervisorTypeOK, files, pid, Records, Go, Write, Live, Alive, Owned,
        Acquiring, Taking, HasOwner, HasIdent, HasChild
<1>1. ASSUME NEW s \in Supervisors, StartSupervisor(s) PROVE Children'
  BY <1>1 DEF StartSupervisor
<1>2. ASSUME NEW s \in Supervisors, ReadRecords(s) PROVE Children'
  BY <1>2 DEF ReadRecords, Refuse
<1>3. ASSUME NEW s \in Supervisors, TerminateChild(s) PROVE Children'
  BY <1>3 DEF TerminateChild, Signal
<1>4. ASSUME NEW s \in Supervisors, KillChild(s) PROVE Children'
  BY <1>4 DEF KillChild, Die
<1>5. ASSUME NEW s \in Supervisors, UnlinkRecord(s) PROVE Children'
  <2>1. CASE Unlink(s, "unlinkOwner", "owner", "unlinkIdent")  BY <2>1 DEF Unlink
  <2>2. CASE Unlink(s, "unlinkIdent", "ident", "unlinkChild")  BY <2>2 DEF Unlink
  <2>3. CASE Unlink(s, "unlinkChild", "child", "rmdir")
    <3>1. \A b \in Supervisors : Alive(b) /\ b \notin lost => pc[b] = "record"
      BY <2>3 DEF Unlink
    <3>2. /\ pc' = [pc EXCEPT ![s] = "rmdir"] /\ pc[s] = "unlinkChild"
          /\ rec' = [rec EXCEPT !["child"] = Nobody]
          /\ UNCHANGED <<backend, lost, target, regime>>
      BY <2>3 DEF Unlink
    <3>3. \A t \in Supervisors : pc[t] # "kill"
      BY <3>2 DEF Turns
    <3>4. QED
      BY <3>1, <3>2, <3>3
  <2>4. CASE Unlink(s, "dropOwner", "owner", "dropIdent")      BY <2>4 DEF Unlink
  <2>5. CASE Unlink(s, "dropIdent", "ident", "dropChild")      BY <2>5 DEF Unlink
  <2>6. CASE Unlink(s, "dropChild", "child", "free")           BY <2>6 DEF Unlink
  <2>7. QED
    BY <1>5, <2>1, <2>2, <2>3, <2>4, <2>5, <2>6 DEF UnlinkRecord
<1>6. ASSUME NEW s \in Supervisors, RemoveLock(s) PROVE Children'
  BY <1>6 DEF RemoveLock, Empty
<1>7. ASSUME NEW s \in Supervisors, MakeLock(s) PROVE Children'
  BY <1>7 DEF MakeLock
<1>8. ASSUME NEW s \in Supervisors, RecordOwner(s) PROVE Children'
  BY <1>8 DEF RecordOwner, Record
<1>9. ASSUME NEW s \in Supervisors, RecordIdent(s) PROVE Children'
  BY <1>9 DEF RecordIdent, Record
<1>10. ASSUME NEW s \in Supervisors, WritePid(s) PROVE Children'
  BY <1>10 DEF WritePid
<1>11. ASSUME NEW s \in Supervisors, OpenFirewall(s) PROVE Children'
  BY <1>11 DEF OpenFirewall
<1>12. ASSUME NEW s \in Supervisors, Launch(s) PROVE Children'
  BY <1>12 DEF Launch
<1>13. ASSUME NEW s \in Supervisors, RecordChild(s) PROVE Children'
  BY <1>13 DEF RecordChild, Record
<1>14. ASSUME NEW s \in Supervisors, RecordExe(s) PROVE Children'
  BY <1>14 DEF RecordExe
<1>15. ASSUME NEW s \in Supervisors, Awake(s) PROVE Children'
  BY <1>15 DEF Awake
<1>16. ASSUME NEW s \in Supervisors, StopChild(s) PROVE Children'
  BY <1>16 DEF StopChild, Signal
<1>17. ASSUME NEW s \in Supervisors, Reap(s) PROVE Children'
  BY <1>17 DEF Reap, Die
<1>18. ASSUME NEW s \in Supervisors, Shut(s) PROVE Children'
  BY <1>18 DEF Shut
<1>19. ASSUME NEW s \in Supervisors, Check(s) PROVE Children'
  BY <1>19 DEF Check
<1>20. ASSUME NEW s \in Supervisors, DropSocket(s) PROVE Children'
  BY <1>20 DEF DropSocket
<1>21. ASSUME NEW s \in Supervisors, DropPid(s) PROVE Children'
  BY <1>21 DEF DropPid
<1>22. ASSUME NEW s \in Supervisors, Free(s) PROVE Children'
  BY <1>22 DEF Free, Empty
<1>23. ASSUME NEW s \in Supervisors, Kill(s) PROVE Children'
  BY <1>23 DEF Kill
<1>24. ASSUME NEW s \in Supervisors, Open(s) PROVE Children'
  BY <1>24 DEF Open
<1>25. ASSUME NEW s \in Supervisors, Listen(s) PROVE Children'
  BY <1>25 DEF Listen
<1>26. ASSUME NEW s \in Supervisors, Stop(s) PROVE Children'
  BY <1>26 DEF Stop
<1>27. ASSUME NEW s \in Supervisors, CloseSocket(s) PROVE Children'
  BY <1>27 DEF CloseSocket
<1>28. ASSUME NEW s \in Supervisors, Exit(s) PROVE Children'
  BY <1>28 DEF Exit, Die
<1>29. CASE StopUnanswered  BY <1>29 DEF StopUnanswered
<1>30. CASE UNCHANGED supervisorVars  BY <1>30 DEF supervisorVars
<1>31. QED
    BY <1>1, <1>2, <1>3, <1>4, <1>5, <1>6, <1>7, <1>8, <1>9, <1>10, <1>11, <1>12, <1>13, <1>14,
     <1>15, <1>16, <1>17, <1>18, <1>19, <1>20, <1>21, <1>22, <1>23, <1>24, <1>25, <1>26, <1>27,
     <1>28, <1>29, <1>30 DEF SupervisorNext, Acquire, Run, Cleanup, Backend

LEMMA TracesStep ==
  SupervisorTypeOK /\ regime # "any" /\ Whose /\ Children /\ Database /\ Traces
  /\ [SupervisorNext]_supervisorVars => Traces'
<1> SUFFICES
      ASSUME SupervisorTypeOK, regime # "any", Whose, Children, Database, Traces, [SupervisorNext]_supervisorVars
      PROVE  Traces'
  OBVIOUS
<1> USE NobodyAssumption
    DEF Whose, Children, Database, Traces, Launched, Opened, HasPid, SupervisorTypeOK, files, pid, Records, Go,
        Write, Live, Alive, Owned, Acquiring, Taking, HasOwner, HasIdent, HasChild
<1>1. ASSUME NEW s \in Supervisors, StartSupervisor(s) PROVE Traces'
  BY <1>1 DEF StartSupervisor
<1>2. ASSUME NEW s \in Supervisors, ReadRecords(s) PROVE Traces'
  BY <1>2 DEF ReadRecords, Refuse
<1>3. ASSUME NEW s \in Supervisors, TerminateChild(s) PROVE Traces'
  BY <1>3 DEF TerminateChild, Signal
<1>4. ASSUME NEW s \in Supervisors, KillChild(s) PROVE Traces'
  BY <1>4 DEF KillChild, Die
<1>5. ASSUME NEW s \in Supervisors, UnlinkRecord(s) PROVE Traces'
  BY <1>5 DEF UnlinkRecord, Unlink
<1>6. ASSUME NEW s \in Supervisors, RemoveLock(s) PROVE Traces'
  BY <1>6 DEF RemoveLock, Empty
<1>7. ASSUME NEW s \in Supervisors, MakeLock(s) PROVE Traces'
  BY <1>7 DEF MakeLock
<1>8. ASSUME NEW s \in Supervisors, RecordOwner(s) PROVE Traces'
  BY <1>8 DEF RecordOwner, Record
<1>9. ASSUME NEW s \in Supervisors, RecordIdent(s) PROVE Traces'
  BY <1>9 DEF RecordIdent, Record
<1>10. ASSUME NEW s \in Supervisors, WritePid(s) PROVE Traces'
  BY <1>10 DEF WritePid
<1>11. ASSUME NEW s \in Supervisors, OpenFirewall(s) PROVE Traces'
  BY <1>11 DEF OpenFirewall
<1>12. ASSUME NEW s \in Supervisors, Launch(s) PROVE Traces'
  BY <1>12 DEF Launch
<1>13. ASSUME NEW s \in Supervisors, RecordChild(s) PROVE Traces'
  BY <1>13 DEF RecordChild, Record
<1>14. ASSUME NEW s \in Supervisors, RecordExe(s) PROVE Traces'
  BY <1>14 DEF RecordExe
<1>15. ASSUME NEW s \in Supervisors, Awake(s) PROVE Traces'
  BY <1>15 DEF Awake
<1>16. ASSUME NEW s \in Supervisors, StopChild(s) PROVE Traces'
  BY <1>16 DEF StopChild, Signal
<1>17. ASSUME NEW s \in Supervisors, Reap(s) PROVE Traces'
  BY <1>17 DEF Reap, Die
<1>18. ASSUME NEW s \in Supervisors, Shut(s) PROVE Traces'
  <2>1. backend[s] # "off"
    BY <1>18 DEF Shut
  <2>2. ~firewall' /\ pc' = [pc EXCEPT ![s] = "check"] /\ UNCHANGED <<pidFile, sock, backend>>
    BY <1>18, <2>1 DEF Shut
  <2>3. \A t \in Supervisors : pc'[t] \notin Opened
    BY <1>18, <2>2 DEF Shut
  <2>4. QED
    BY <1>18, <2>2, <2>3 DEF Shut
<1>19. ASSUME NEW s \in Supervisors, Check(s) PROVE Traces'
  BY <1>19 DEF Check
<1>20. ASSUME NEW s \in Supervisors, DropSocket(s) PROVE Traces'
  BY <1>20 DEF DropSocket
<1>21. ASSUME NEW s \in Supervisors, DropPid(s) PROVE Traces'
  BY <1>21 DEF DropPid
<1>22. ASSUME NEW s \in Supervisors, Free(s) PROVE Traces'
  BY <1>22 DEF Free, Empty
<1>23. ASSUME NEW s \in Supervisors, Kill(s) PROVE Traces'
  BY <1>23 DEF Kill
<1>24. ASSUME NEW s \in Supervisors, Open(s) PROVE Traces'
  BY <1>24 DEF Open
<1>25. ASSUME NEW s \in Supervisors, Listen(s) PROVE Traces'
  BY <1>25 DEF Listen
<1>26. ASSUME NEW s \in Supervisors, Stop(s) PROVE Traces'
  BY <1>26 DEF Stop
<1>27. ASSUME NEW s \in Supervisors, CloseSocket(s) PROVE Traces'
  BY <1>27 DEF CloseSocket
<1>28. ASSUME NEW s \in Supervisors, Exit(s) PROVE Traces'
  BY <1>28 DEF Exit, Die
<1>29. CASE StopUnanswered  BY <1>29 DEF StopUnanswered
<1>30. CASE UNCHANGED supervisorVars  BY <1>30 DEF supervisorVars
<1>31. QED
    BY <1>1, <1>2, <1>3, <1>4, <1>5, <1>6, <1>7, <1>8, <1>9, <1>10, <1>11, <1>12, <1>13, <1>14,
     <1>15, <1>16, <1>17, <1>18, <1>19, <1>20, <1>21, <1>22, <1>23, <1>24, <1>25, <1>26, <1>27,
     <1>28, <1>29, <1>30 DEF SupervisorNext, Acquire, Run, Cleanup, Backend

LEMMA SoundInit == SupervisorInit => SupervisorTypeOK /\ Database /\ Sound
<1> SUFFICES ASSUME SupervisorInit PROVE SupervisorTypeOK /\ Database /\ Sound
  OBVIOUS
<1>1. SupervisorTypeOK
  BY DEF SupervisorInit, SupervisorTypeOK, Records, Owned, Acquiring
<1>2. Database
  BY DEF SupervisorInit, Database
<1>3. Turns /\ Whose
  BY DEF SupervisorInit, Turns, Whose, Empty, Records, Owned, Acquiring, Taking
<1>4. Children /\ Traces
  BY DEF SupervisorInit, Children, Traces, Alive, Launched, Opened, HasPid, Owned
<1>5. QED
  BY <1>1, <1>2, <1>3, <1>4 DEF Sound

LEMMA SoundStep ==
  SupervisorTypeOK /\ Database /\ Sound /\ [SupervisorNext]_supervisorVars
  => (SupervisorTypeOK /\ Database /\ Sound)'
<1> SUFFICES
      ASSUME SupervisorTypeOK, Database, Sound, [SupervisorNext]_supervisorVars
      PROVE  (SupervisorTypeOK /\ Database /\ Sound)'
  OBVIOUS
<1>1. UNCHANGED regime
  BY DEF SupervisorNext, Acquire, Run, Cleanup, Backend, supervisorVars, StartSupervisor, ReadRecords,
     TerminateChild, KillChild, UnlinkRecord, Unlink, RemoveLock, MakeLock, RecordOwner, RecordIdent, RecordChild, Record,
     WritePid, OpenFirewall, Launch, RecordExe, Awake, StopChild, Reap, Shut, Check, DropSocket,
     StopUnanswered, DropPid, Free, Kill, Open, Listen, Stop, CloseSocket, Exit
<1>2. QED
  BY <1>1, TypeStep, DatabaseStep, TurnsStep, WhoseStep, ChildrenStep, TracesStep DEF Sound
-----------------------------------------------------------------------------
\* The variables keep their types, and the lock of the database admits one
\* backend that serves (state.Open), in every regime.
THEOREM SupervisorTypeCorrect == SupervisorSpec => [](SupervisorTypeOK /\ Database)
  BY SoundInit, TypeStep, DatabaseStep, PTL DEF SupervisorSpec

LEMMA SupervisorSound == SupervisorSpec => []Sound
  BY SoundInit, SoundStep, PTL DEF SupervisorSpec

\* However many supervisors start at once, or are killed at any step and taken
\* over from one at a time, no two of them own the lock (supervisor.sh).
THEOREM SupervisorOneOwner == SupervisorSpec => []OneOwner
<1>1. Sound => OneOwner
  BY DEF Sound, Whose, OneOwner
<1>2. QED
  BY <1>1, SupervisorSound, PTL

\* A backend that serves under its supervisor has the socket, server.pid and
\* the firewall for itself: no other supervisor's cleanup and no earlier
\* backend's close takes them away.  Only Daemon:stop does, when nobody
\* answers it, and it takes no more than server.pid.
THEOREM SupervisorReachable == SupervisorSpec => []Reachable
<1>1. Sound => Reachable
  BY DEF Sound, Traces, Reachable, HasPid, Opened, Launched, Owned
<1>2. QED
  BY <1>1, SupervisorSound, PTL

\* When the lock is free no backend runs that was ever recorded, and only
\* supervisors that were killed have left a file, a socket or an open port.
THEOREM SupervisorReleased == SupervisorSpec => []Released
<1>1. SupervisorTypeOK /\ Sound => Released
  <2> SUFFICES ASSUME SupervisorTypeOK, Sound, regime # "any", ~lock PROVE Released
    BY DEF Released
  <2> USE DEF Sound, SupervisorTypeOK
  <2>1. \A s \in Supervisors : pc[s] \notin Owned
    BY DEF Whose
  <2>2. \A b \in Supervisors \ lost : ~Alive(b)
    BY <2>1, NobodyAssumption DEF Whose, Children, Empty, Records, Owned
  <2>3. pidFile \in Killed \cup {Nobody} /\ sock \in Killed \cup {Nobody}
    BY <2>1 DEF Traces, HasPid, Launched, Owned, Killed
  <2>4. firewall => Killed # {}
    BY <2>1 DEF Traces, Opened, Launched, Owned, Killed
  <2>5. QED
    BY <2>2, <2>3, <2>4 DEF Released
<1>2. QED
  BY <1>1, SupervisorSound, SupervisorTypeCorrect, PTL
=============================================================================

-------------------------- MODULE BackofficeProofs --------------------------
(***************************************************************************)
(* Safety of the console, for any number of tabs, rotations, losses and    *)
(* pages, and any window, lockout and life of a cached read.               *)
(*                                                                         *)
(* LockedByGuesses: what the throttle counts is among the wrong tokens of  *)
(* the history, both numbered without gaps per time, so one more of this   *)
(* moment is a new one in each; a lock that stands was set on enough of    *)
(* them, and what has been forgiven has ended it (ThrottleInv).            *)
(* SessionEndsForAReason: an answer's cookie is the token its request has  *)
(* carried, or none, which only a sign-out and a replayed cookie of an     *)
(* earlier token are told (Owned).  AnswersAreFresh: what waits has waited *)
(* no longer than its ceiling and has seen the service in that time, what  *)
(* is cached began no longer before than its pages may take (Timely).      *)
(***************************************************************************)
EXTENDS Backoffice, TLAPS, FiniteSetTheorems

Who      == AllTabs \cup {NoTab}
Kinds    == {"shell", "session", "signout", "data", "script"}
Stages   == {"sent", "api", "waits", "answered"}
Outs     == {"none", "ok", "degraded", "operational", "down"}
AllCards == {"none", "table", "costs", "logs", "status"}

Requests ==
  [tab : Who, kind : Kinds, e : AllCards, presented : Nat, cookie : Nat, stage : Stages,
   status : Nat, setCookie : SUBSET Nat, out : Outs, born : Nat, at : Nat]

Clock ==
  /\ scenario \in Scenarios
  /\ now \in Times
  /\ token \in Nat \ {0}
  /\ jar \in 0 .. token

-----------------------------------------------------------------------------
(* The throttle.                                                           *)

Marks == Nat \X (Nat \ {0})

\* The marks of each time are its first ones.
Numbered(S) ==
  /\ S \subseteq Marks
  /\ IsFiniteSet(S)
  /\ \A x \in Nat : \E m \in Nat : At(S, x) = {<<x, k>> : k \in 1 .. m}

ThrottleInv ==
  /\ Numbered(failures) /\ Numbered(guesses)
  /\ failures \subseteq guesses
  /\ Cardinality(failures) < MaxFailures
  /\ \A f \in failures : f[1] <= now
  /\ lockedUntil \in Nat
  /\ lockedUntil # 0 =>
       \E x \in Times : lockedUntil = x + Lockout /\ WrongUpTo(x) >= MaxFailures

-----------------------------------------------------------------------------
(* The requests.                                                           *)

\* Its cookie is none later than token k, and so is what it sets.
Owned(r, k) ==
  /\ r.cookie <= k
  /\ \A c \in r.setCookie :
       \/ c = NoToken /\ (r.kind = "signout" \/ (r.cookie # NoToken /\ r.cookie < k))
       \/ c = Candidate(r) /\ c # NoToken /\ c <= k

\* All the pages of a read may take this long.
ReadTime == MaxPages * PageTimeout

\* The answer is as fresh as the caches promise, the service having answered at u.
Promised(out, born, at, u) ==
  /\ out = "ok" => at <= born + Ttl + ReadTime
  /\ out = "operational" => \E x \in u : x <= at /\ at <= x + StatusTtl + ProbeTimeout

Fresh(r, u) == Promised(r.out, r.born, r.at, u)

Timely(r, n, u) ==
  /\ r.stage \in {"sent", "api"} => r.out = "none"
  /\ r.stage = "answered" => Fresh(r, u)
  /\ Running(r) =>
       /\ r.born <= n /\ n <= r.born + ProbeTimeout
       /\ r.out \in {"none", "operational", "down"}
       /\ r.out = "operational" => \E x \in u : r.born <= x /\ x <= n

\* Behind the door's own scenarios there is one plain endpoint.
Plain(r) == r.e \in {"table", "none"} /\ r.out = "none"

Good(r, k, n, u, d) == r \in Requests /\ Owned(r, k) /\ Timely(r, n, u) /\ (d => Plain(r))

RequestsInv == \A r \in net : Good(r, token, now, upAt, Door)

UpInv ==
  /\ upAt \subseteq Nat
  /\ up => now \in upAt

FlightInv ==
  \A f \in flight :
    /\ f \in [page : 1 .. MaxPages, since : Nat, born : Nat]
    /\ f.since <= now /\ now <= f.since + PageTimeout
    /\ f.since <= f.born + (f.page - 1) * PageTimeout

ReadInv == \A v \in ok : v \in [at : Nat, born : Nat] /\ v.at <= v.born + ReadTime

StatusInv ==
  \A v \in statusCache :
    /\ v \in [at : Nat, born : Nat, out : Outs] /\ v.at <= now
    /\ v.out \in {"operational", "down"}
    /\ v.out = "operational" => \E x \in upAt : x <= v.at /\ v.at <= x + ProbeTimeout

CachesInv == UpInv /\ FlightInv /\ ReadInv /\ StatusInv

BackofficeInv == Clock /\ ThrottleInv /\ RequestsInv /\ CachesInv

-----------------------------------------------------------------------------
(* The marks of one time: as many as the last of them says.                *)
LEMMA MarksOfATime ==
  ASSUME NEW S, Numbered(S), NEW x \in Nat
  PROVE  \E m \in Nat : At(S, x) = {<<x, k>> : k \in 1 .. m} /\ Cardinality(At(S, x)) = m
<1>1. PICK m \in Nat : At(S, x) = {<<x, k>> : k \in 1 .. m}  BY DEF Numbered
<1> DEFINE M == {<<x, k>> : k \in 1 .. m}
           f == [k \in 1 .. m |-> <<x, k>>]
<1>2. f \in Bijection(1 .. m, M)
  <2>1. f \in Injection(1 .. m, M)  BY DEF Injection, IsInjective
  <2>2. f \in Surjection(1 .. m, M)  BY DEF Surjection
  <2> QED BY <2>1, <2>2 DEF Bijection
<1>3. ExistsBijection(1 .. m, M)  BY <1>2 DEF ExistsBijection
<1>4. Cardinality(M) = m  BY <1>3, FS_CountingElements
<1> QED BY <1>1, <1>4

(* What has not aged out is numbered as before.                            *)
LEMMA RecentIsNumbered ==
  ASSUME NEW S, Numbered(S), now \in Nat, Window \in Nat
  PROVE  Recent(S) \subseteq S /\ Numbered(Recent(S))
<1>1. Recent(S) \subseteq S  BY DEF Recent
<1>2. IsFiniteSet(Recent(S))  BY <1>1, FS_Subset DEF Numbered
<1>3. ASSUME NEW x \in Nat
      PROVE  \E m \in Nat : At(Recent(S), x) = {<<x, k>> : k \in 1 .. m}
  <2>1. CASE x + Window > now
    <3>1. At(Recent(S), x) = At(S, x)  BY <2>1 DEF At, Recent
    <3> QED BY <3>1 DEF Numbered
  <2>2. CASE ~(x + Window > now)
    <3>1. At(Recent(S), x) = {}  BY <2>2 DEF At, Recent
    <3>2. {} = {<<x, k>> : k \in 1 .. 0}  OBVIOUS
    <3> QED BY <3>1, <3>2
  <2> QED BY <2>1, <2>2
<1> QED BY <1>1, <1>2, <1>3 DEF Numbered

(* One more is a new one, with the next number.                            *)
LEMMA AnotherIsNew ==
  ASSUME NEW S, Numbered(S), now \in Nat
  PROVE  /\ Numbered(Another(S))
         /\ Cardinality(Another(S)) = Cardinality(S) + 1
<1>1. PICK m \in Nat : At(S, now) = {<<now, k>> : k \in 1 .. m} /\ Cardinality(At(S, now)) = m
  BY MarksOfATime
<1> DEFINE g == <<now, m + 1>>
<1>2. Another(S) = S \cup {g}  BY <1>1 DEF Another
<1>3. g \notin S  BY <1>1 DEF At
<1>4. IsFiniteSet(S \cup {g}) /\ Cardinality(S \cup {g}) = Cardinality(S) + 1
  BY <1>3, FS_AddElement DEF Numbered
<1>5. S \cup {g} \subseteq Marks  BY DEF Numbered, Marks
<1>6. ASSUME NEW x \in Nat
      PROVE  \E n \in Nat : At(S \cup {g}, x) = {<<x, k>> : k \in 1 .. n}
  <2>1. CASE x = now
    <3>1. At(S \cup {g}, x) = At(S, x) \cup {g}  BY <2>1 DEF At
    <3>2. {<<now, k>> : k \in 1 .. m} \cup {g} = {<<now, k>> : k \in 1 .. m + 1}
      <4>1. 1 .. m + 1 = (1 .. m) \cup {m + 1}  OBVIOUS
      <4> QED BY <4>1
    <3> QED BY <2>1, <3>1, <3>2, <1>1
  <2>2. CASE x # now
    <3>1. At(S \cup {g}, x) = At(S, x)  BY <2>2 DEF At
    <3> QED BY <3>1 DEF Numbered
  <2> QED BY <2>1, <2>2
<1> QED BY <1>2, <1>4, <1>5, <1>6 DEF Numbered

(* What is counted stays within the history when both take one more, and   *)
(* when the history already holds more of this moment than are counted.    *)
LEMMA AnotherStaysWithin ==
  ASSUME NEW S, NEW T, Numbered(S), Numbered(T), S \subseteq T, now \in Nat
  PROVE  /\ Another(S) \subseteq Another(T)
         /\ Cardinality(S) < Cardinality(At(T, now)) => Another(S) \subseteq T
<1>1. PICK m \in Nat : At(S, now) = {<<now, k>> : k \in 1 .. m} /\ Cardinality(At(S, now)) = m
  BY MarksOfATime
<1>2. PICK n \in Nat : At(T, now) = {<<now, k>> : k \in 1 .. n} /\ Cardinality(At(T, now)) = n
  BY MarksOfATime
<1>3. At(S, now) \subseteq At(T, now) /\ At(T, now) \subseteq T /\ At(S, now) \subseteq S
  BY DEF At
<1>4. IsFiniteSet(S) /\ IsFiniteSet(At(T, now))  BY <1>3, FS_Subset DEF Numbered
<1>5. m <= n  BY <1>1, <1>2, <1>3, <1>4, FS_Subset
<1>6. m <= Cardinality(S)  BY <1>1, <1>3, <1>4, FS_Subset
<1>7. Another(S) = S \cup {<<now, m + 1>>} /\ Another(T) = T \cup {<<now, n + 1>>}
  BY <1>1, <1>2 DEF Another
<1>8. m < n => <<now, m + 1>> \in T
  <2> SUFFICES ASSUME m < n PROVE <<now, m + 1>> \in T  OBVIOUS
  <2>1. m + 1 \in 1 .. n  OBVIOUS
  <2>2. <<now, m + 1>> \in At(T, now)  BY <2>1, <1>2
  <2> QED BY <2>2, <1>3
<1>9. Another(S) \subseteq Another(T)
  <2>1. CASE m < n  BY <2>1, <1>7, <1>8
  <2>2. CASE m = n  BY <2>2, <1>7
  <2> QED BY <2>1, <2>2, <1>5
<1>10. ASSUME Cardinality(S) < Cardinality(At(T, now)) PROVE Another(S) \subseteq T
  <2>1. Cardinality(S) \in Nat  BY <1>4, FS_CardinalityType
  <2>2. m < n  BY <1>10, <1>2, <1>6, <2>1
  <2> QED BY <2>2, <1>7, <1>8
<1> QED BY <1>9, <1>10

LEMMA NothingIsNumbered == Numbered({}) /\ Cardinality({}) = 0
<1>1. \A x \in Nat : At({}, x) = {<<x, k>> : k \in 1 .. 0}  BY DEF At
<1>2. Cardinality({}) = 0 /\ IsFiniteSet({})  BY FS_EmptySet
<1> QED BY <1>1, <1>2 DEF Numbered, Marks

(* More wrong tokens never make a count of them smaller.                   *)
LEMMA GuessesAddUp ==
  ASSUME guesses \subseteq guesses', IsFiniteSet(guesses'), NEW x, WrongUpTo(x) >= MaxFailures,
         MaxFailures \in Nat
  PROVE  WrongUpTo(x)' >= MaxFailures
<1> DEFINE W == {g \in guesses : g[1] <= x /\ x < g[1] + Window}
           V == {g \in guesses' : g[1] <= x /\ x < g[1] + Window}
<1>1. W \subseteq V /\ V \subseteq guesses'  OBVIOUS
<1>2. IsFiniteSet(V)  BY <1>1, FS_Subset
<1>3. IsFiniteSet(W) /\ Cardinality(W) <= Cardinality(V)  BY <1>1, <1>2, FS_Subset
<1>4. Cardinality(W) \in Nat /\ Cardinality(V) \in Nat  BY <1>2, <1>3, FS_CardinalityType
<1>5. Cardinality(W) >= MaxFailures  BY DEF WrongUpTo
<1>6. Cardinality(V) >= MaxFailures
  <2> HIDE DEF W, V
  <2> QED BY <1>3, <1>4, <1>5
<1> QED BY <1>6 DEF WrongUpTo

(* Handling any request keeps the throttle's invariant.                    *)
LEMMA HandlingIsThrottled ==
  ASSUME BackofficeConstants, Clock, ThrottleInv, NEW r, Throttle(r), History(r),
         now' = now, scenario' = scenario
  PROVE  ThrottleInv'
<1>1. now \in Nat /\ Window \in Nat /\ Lockout \in Nat /\ MaxFailures \in Nat \ {0}
      /\ now \in Times /\ Times' = Times
  <2>1. MaxClock \in [Scenarios -> Nat]  BY DEF BackofficeConstants
  <2>2. MaxClock[scenario] \in Nat  BY <2>1 DEF Clock
  <2> QED BY <2>2 DEF Clock, Times, BackofficeConstants
<1>2. CASE Authed(r)
  <2>1. failures' = {} /\ lockedUntil' = 0
    <3>1. Reset  BY <1>2 DEF Throttle, Guess, StaleCookie
    <3> QED BY <3>1 DEF Reset
  <2>2. guesses' = {}  BY <1>2 DEF History
  <2> QED BY <2>1, <2>2, <1>1, NothingIsNumbered DEF ThrottleInv
<1>3. CASE ~Authed(r) /\ ~Guess(r)
  <2>1. failures' = failures /\ lockedUntil' = lockedUntil /\ guesses' = guesses
    BY <1>3 DEF Throttle, History
  <2>2. \A x : WrongUpTo(x)' = WrongUpTo(x)  BY <2>1 DEF WrongUpTo
  <2> QED BY <2>1, <2>2, <1>1 DEF ThrottleInv
<1>4. CASE ~Authed(r) /\ Guess(r)
  <2> DEFINE counted == Another(Recent(failures))
             locks   == Cardinality(counted) >= MaxFailures
             over    == ~locks /\ lockedUntil # 0 /\ ~Locked
  <2>1. RecordFailure  BY <1>4 DEF Throttle
  <2>2. /\ failures' = IF locks \/ over THEN {} ELSE counted
        /\ lockedUntil' = IF locks THEN now + Lockout ELSE IF over THEN 0 ELSE lockedUntil
    BY <2>1 DEF RecordFailure
  <2>3. Numbered(failures) /\ Numbered(guesses) /\ failures \subseteq guesses
    BY DEF ThrottleInv
  <2>4. Recent(failures) \subseteq failures /\ Numbered(Recent(failures))
    BY <2>3, <1>1, RecentIsNumbered
  <2>5. Numbered(counted) /\ Cardinality(counted) = Cardinality(Recent(failures)) + 1
    BY <2>4, <1>1, AnotherIsNew
  <2>6. Cardinality(Recent(failures)) \in Nat /\ Cardinality(Recent(failures)) < MaxFailures
    <3>1. IsFiniteSet(failures) /\ IsFiniteSet(Recent(failures))  BY <2>3, <2>4 DEF Numbered
    <3>2. Cardinality(Recent(failures)) <= Cardinality(failures)  BY <3>1, <2>4, FS_Subset
    <3>3. Cardinality(Recent(failures)) \in Nat /\ Cardinality(failures) \in Nat
      BY <3>1, FS_CardinalityType
    <3> QED BY <3>2, <3>3, <1>1 DEF ThrottleInv
  <2>7. guesses' = IF Cardinality(At(guesses, now)) < MaxFailures THEN Another(guesses) ELSE guesses
    BY <1>4 DEF History
  <2>8. Numbered(guesses') /\ guesses \subseteq guesses' /\ counted \subseteq guesses'
    <3>1. Recent(failures) \subseteq guesses  BY <2>3, <2>4
    <3>2. CASE Cardinality(At(guesses, now)) < MaxFailures
      <4>1. guesses' = Another(guesses)  BY <3>2, <2>7
      <4>2. Numbered(Another(guesses))  BY <2>3, <1>1, AnotherIsNew
      <4>3. counted \subseteq Another(guesses)  BY <2>3, <2>4, <3>1, <1>1, AnotherStaysWithin
      <4>4. guesses \subseteq Another(guesses)  BY DEF Another
      <4> HIDE DEF counted
      <4> QED BY <4>1, <4>2, <4>3, <4>4
    <3>3. CASE ~(Cardinality(At(guesses, now)) < MaxFailures)
      <4>1. guesses' = guesses  BY <3>3, <2>7
      <4>2. PICK n \in Nat : Cardinality(At(guesses, now)) = n  BY <2>3, <1>1, MarksOfATime
      <4>3. Cardinality(Recent(failures)) < Cardinality(At(guesses, now))
        BY <3>3, <4>2, <2>6, <1>1
      <4>4. counted \subseteq guesses  BY <2>3, <2>4, <3>1, <4>3, <1>1, AnotherStaysWithin
      <4> HIDE DEF counted
      <4> QED BY <4>1, <4>4, <2>3
    <3> QED BY <3>2, <3>3
  <2>9. \A f \in counted : f[1] <= now /\ now < f[1] + Window
    <3>1. \A f \in Recent(failures) : f[1] <= now /\ now < f[1] + Window
      BY <1>1, <2>3 DEF Recent, ThrottleInv, Numbered, Marks
    <3> QED BY <3>1, <1>1 DEF Another
  <2>10. locks => \E x \in Times : now + Lockout = x + Lockout /\ WrongUpTo(x)' >= MaxFailures
    <3> SUFFICES ASSUME locks, NEW x, x = now PROVE WrongUpTo(x)' >= MaxFailures
      BY <1>1
    <3> DEFINE W == {g \in guesses' : g[1] <= x /\ x < g[1] + Window}
    <3>1. counted \subseteq W  BY <2>8, <2>9
    <3>2. IsFiniteSet(W)
      <4>1. W \subseteq guesses'  OBVIOUS
      <4> QED BY <4>1, <2>8, FS_Subset DEF Numbered
    <3>3. Cardinality(counted) <= Cardinality(W) /\ IsFiniteSet(counted)  BY <3>1, <3>2, FS_Subset
    <3>4. Cardinality(counted) \in Nat /\ Cardinality(W) \in Nat
      BY <3>2, <3>3, FS_CardinalityType
    <3>5. Cardinality(W) >= MaxFailures
      <4> HIDE DEF W, counted
      <4> QED BY <3>3, <3>4, <1>1
    <3> QED BY <3>5 DEF WrongUpTo
  <2>11. lockedUntil # 0 =>
           \E x \in Times : lockedUntil = x + Lockout /\ WrongUpTo(x)' >= MaxFailures
    <3> SUFFICES ASSUME lockedUntil # 0
                 PROVE  \E x \in Times : lockedUntil = x + Lockout /\ WrongUpTo(x)' >= MaxFailures
      OBVIOUS
    <3>1. PICK x \in Times : lockedUntil = x + Lockout /\ WrongUpTo(x) >= MaxFailures
      BY DEF ThrottleInv
    <3>2. WrongUpTo(x)' >= MaxFailures
      <4>1. IsFiniteSet(guesses') /\ guesses \subseteq guesses'  BY <2>8 DEF Numbered
      <4> QED BY <3>1, <4>1, <1>1, GuessesAddUp
    <3> QED BY <3>1, <3>2
  <2>12. /\ Numbered(failures') /\ failures' \subseteq guesses'
         /\ Cardinality(failures') < MaxFailures
         /\ \A f \in failures' : f[1] <= now
    <3>1. CASE locks \/ over
      <4>1. failures' = {}  BY <3>1, <2>2
      <4> QED BY <4>1, NothingIsNumbered, <1>1
    <3>2. CASE ~(locks \/ over)
      <4>1. failures' = counted  BY <3>2, <2>2
      <4>2. Cardinality(counted) < MaxFailures  BY <3>2, <2>5, <2>6, <1>1
      <4> HIDE DEF counted
      <4> QED BY <4>1, <4>2, <2>5, <2>8, <2>9
    <3> QED BY <3>1, <3>2
  <2>13. /\ lockedUntil' \in Nat
         /\ lockedUntil' # 0 =>
              \E x \in Times : lockedUntil' = x + Lockout /\ WrongUpTo(x)' >= MaxFailures
    <3> HIDE DEF locks, over
    <3> QED BY <2>2, <2>10, <2>11, <1>1 DEF ThrottleInv
  <2> QED
    <3> HIDE DEF counted
    <3> QED BY <2>8, <2>12, <2>13, <1>1 DEF ThrottleInv
<1> QED BY <1>2, <1>3, <1>4

LEMMA OthersLeaveTheThrottle ==
  ASSUME BackofficeConstants, Clock, ThrottleInv, now' \in Nat, now' >= now,
         UNCHANGED <<scenario, failures, lockedUntil, guesses>>
  PROVE  ThrottleInv'
<1>1. \A x : WrongUpTo(x)' = WrongUpTo(x)  BY DEF WrongUpTo
<1>2. Times' = Times /\ now \in Nat
  <2>1. MaxClock[scenario] \in Nat  BY DEF BackofficeConstants, Clock
  <2> QED BY <2>1 DEF Clock, Times
<1>3. \A f \in failures : f[1] <= now'
  BY <1>2 DEF ThrottleInv, Numbered, Marks
<1> QED BY <1>1, <1>2, <1>3 DEF ThrottleInv

-----------------------------------------------------------------------------
(* What the operators on requests return.                                  *)
LEMMA NewRequest ==
  ASSUME NEW t \in Who, NEW kind \in Kinds, NEW e \in AllCards, NEW presented \in Nat,
         NEW cookie \in Nat, NEW k \in Nat, cookie <= k, NEW n, NEW u, NEW d \in BOOLEAN,
         d => e \in {"table", "none"}
  PROVE  /\ Good(Request(t, kind, e, presented, cookie), k, n, u, d)
         /\ Request(t, kind, e, presented, cookie).stage = "sent"
<1> DEFINE r == Request(t, kind, e, presented, cookie)
<1>1. r \in Requests  BY DEF Request, Requests, Stages, Outs
<1>2. /\ r.setCookie = {} /\ r.cookie = cookie /\ r.stage = "sent" /\ r.out = "none"
      /\ r.e = e
  BY DEF Request
<1> QED BY <1>1, <1>2 DEF Good, Owned, Timely, Running, Plain

LEMMA OrphanIsGood ==
  ASSUME NEW r, NEW k, NEW n, NEW u, NEW d \in BOOLEAN, Good(r, k, n, u, d)
  PROVE  Good([r EXCEPT !.tab = NoTab], k, n, u, d)
<1> DEFINE s == [r EXCEPT !.tab = NoTab]
<1>1. s \in Requests  BY DEF Good, Requests, Who
<1>2. /\ s.kind = r.kind /\ s.e = r.e /\ s.presented = r.presented /\ s.cookie = r.cookie
      /\ s.stage = r.stage /\ s.setCookie = r.setCookie /\ s.out = r.out
      /\ s.born = r.born /\ s.at = r.at
  BY DEF Good, Requests
<1>3. Owned(s, k)
  <2> HIDE DEF s
  <2> QED BY <1>2 DEF Good, Owned, Candidate
<1>4. Timely(s, n, u) /\ (d => Plain(s))
  <2> HIDE DEF s
  <2> QED BY <1>2 DEF Good, Timely, Running, Fresh, Plain
<1> QED BY <1>1, <1>3, <1>4 DEF Good

LEMMA AnswerFields ==
  ASSUME NEW r \in Requests, NEW status \in Nat, NEW C \in SUBSET Nat
  PROVE  LET a == Answer(r, status, C)
         IN  /\ a \in Requests
             /\ a.stage = "answered" /\ a.setCookie = C /\ a.kind = r.kind /\ a.e = r.e
             /\ a.presented = r.presented /\ a.cookie = r.cookie
             /\ a.out = r.out /\ a.born = r.born /\ a.at = r.at
<1> DEFINE a == [r EXCEPT !.stage = "answered"]
           b == [a EXCEPT !.status = status]
           c == [b EXCEPT !.setCookie = C]
<1>1. Answer(r, status, C) = c  BY DEF Answer, Requests
<1>2. /\ a \in Requests /\ a.stage = "answered" /\ a.kind = r.kind /\ a.e = r.e
      /\ a.presented = r.presented /\ a.cookie = r.cookie
      /\ a.out = r.out /\ a.born = r.born /\ a.at = r.at
  BY DEF Requests, Stages
<1> HIDE DEF a
<1>3. /\ b \in Requests /\ b.stage = "answered" /\ b.kind = a.kind /\ b.e = a.e
      /\ b.presented = a.presented /\ b.cookie = a.cookie
      /\ b.out = a.out /\ b.born = a.born /\ b.at = a.at
  BY <1>2 DEF Requests
<1> HIDE DEF b
<1>4. /\ c \in Requests /\ c.stage = "answered" /\ c.kind = b.kind /\ c.e = b.e
      /\ c.presented = b.presented /\ c.cookie = b.cookie /\ c.setCookie = C
      /\ c.out = b.out /\ c.born = b.born /\ c.at = b.at
  BY <1>3 DEF Requests
<1> HIDE DEF c
<1> QED BY <1>1, <1>2, <1>3, <1>4

LEMMA DataFields ==
  ASSUME NEW r \in Requests, NEW status \in Nat, NEW out \in Outs, NEW born \in Nat, now \in Nat
  PROVE  LET a == Data(r, status, out, born)
         IN  /\ a \in Requests
             /\ a.stage = "answered" /\ a.setCookie = r.setCookie /\ a.kind = r.kind
             /\ a.e = r.e /\ a.presented = r.presented /\ a.cookie = r.cookie
             /\ a.out = out /\ a.born = born /\ a.at = now
<1> DEFINE p == Answer(r, status, r.setCookie)
           a == [p EXCEPT !.out = out]
           b == [a EXCEPT !.born = born]
           c == [b EXCEPT !.at = now]
<1>1. r.setCookie \in SUBSET Nat  BY DEF Requests
<1>2. /\ p \in Requests
      /\ p.stage = "answered" /\ p.setCookie = r.setCookie /\ p.kind = r.kind /\ p.e = r.e
      /\ p.presented = r.presented /\ p.cookie = r.cookie
  BY <1>1, AnswerFields
<1> HIDE DEF p
<1>3. Data(r, status, out, born) = c
  <2>1. Data(r, status, out, born) = [p EXCEPT !.out = out, !.born = born, !.at = now]
    BY DEF Data, p
  <2> QED BY <1>2, <2>1 DEF Requests
<1>4. /\ a \in Requests /\ a.stage = p.stage /\ a.setCookie = p.setCookie /\ a.kind = p.kind
      /\ a.e = p.e /\ a.presented = p.presented /\ a.cookie = p.cookie /\ a.out = out
  BY <1>2 DEF Requests
<1> HIDE DEF a
<1>5. /\ b \in Requests /\ b.stage = a.stage /\ b.setCookie = a.setCookie /\ b.kind = a.kind
      /\ b.e = a.e /\ b.presented = a.presented /\ b.cookie = a.cookie /\ b.out = a.out
      /\ b.born = born
  BY <1>4 DEF Requests
<1> HIDE DEF b
<1>6. /\ c \in Requests /\ c.stage = b.stage /\ c.setCookie = b.setCookie /\ c.kind = b.kind
      /\ c.e = b.e /\ c.presented = b.presented /\ c.cookie = b.cookie /\ c.out = b.out
      /\ c.born = b.born /\ c.at = now
  BY <1>5 DEF Requests
<1> HIDE DEF c
<1> QED BY <1>2, <1>3, <1>4, <1>5, <1>6

(* A request whose stage or outcome moves on.                              *)
LEMMA StageFields ==
  ASSUME NEW r \in Requests, NEW stage \in Stages
  PROVE  LET a == [r EXCEPT !.stage = stage]
         IN  /\ a \in Requests
             /\ a.stage = stage /\ a.setCookie = r.setCookie /\ a.kind = r.kind
             /\ a.e = r.e /\ a.presented = r.presented /\ a.cookie = r.cookie
             /\ a.out = r.out /\ a.born = r.born /\ a.at = r.at
BY DEF Requests

LEMMA OutFields ==
  ASSUME NEW r \in Requests, NEW out \in Outs
  PROVE  LET a == [r EXCEPT !.out = out]
         IN  /\ a \in Requests
             /\ a.stage = r.stage /\ a.setCookie = r.setCookie /\ a.kind = r.kind
             /\ a.e = r.e /\ a.presented = r.presented /\ a.cookie = r.cookie
             /\ a.out = out /\ a.born = r.born /\ a.at = r.at
BY DEF Requests

-----------------------------------------------------------------------------
(* Steps that leave the clock alone: what was good stays good.             *)
LEMMA GoodLater ==
  ASSUME NEW r, NEW k \in Nat, NEW K \in Nat, k <= K, NEW n, NEW u, NEW U, u \subseteq U,
         NEW d, Good(r, k, n, u, d)
  PROVE  Good(r, K, n, U, d)
<1>1. Owned(r, K)
  <2>1. r.cookie \in Nat /\ r.setCookie \subseteq Nat  BY DEF Good, Requests
  <2> QED BY <2>1 DEF Good, Owned
<1>2. Timely(r, n, U)  BY DEF Good, Timely, Fresh, Promised
<1> QED BY <1>1, <1>2 DEF Good

LEMMA RequestsStayGood ==
  ASSUME Clock, RequestsInv, token' \in Nat, token' >= token, now' = now,
         scenario' = scenario, upAt \subseteq upAt',
         \A s \in net' : s \in net \/ Good(s, token', now, upAt', Door)
  PROVE  RequestsInv'
<1>1. token \in Nat  BY DEF Clock
<1>2. \A s \in net : Good(s, token', now, upAt', Door)  BY <1>1, GoodLater DEF RequestsInv
<1>3. \A s \in net' : Good(s, token', now', upAt', Door)  BY <1>2
<1>4. Door' = Door  BY DEF Door
<1> QED BY <1>3, <1>4 DEF RequestsInv

(* The door: what it answers sets the token that was presented, or clears  *)
(* what a sign-out or a replayed cookie asks to clear.                     *)
LEMMA ReplyIsGood ==
  ASSUME Clock, RequestsInv, NEW r \in net, r.stage = "sent"
  PROVE  Good(Reply(r), token, now, upAt, Door)
<1>1. /\ r \in Requests /\ r.cookie <= token /\ r.setCookie \subseteq Nat
      /\ r.out = "none" /\ (Door => Plain(r)) /\ token \in Nat \ {0} /\ r.cookie \in Nat
  BY DEF RequestsInv, Good, Owned, Timely, Requests, Clock
<1>2. SetCookie(r) \subseteq Nat
      /\ \A c \in SetCookie(r) :
           \/ c = NoToken /\ (r.kind = "signout" \/ (r.cookie # NoToken /\ r.cookie < token))
           \/ c = Candidate(r) /\ c # NoToken /\ c <= token
  BY <1>1 DEF SetCookie, Authed, StaleCookie, Candidate, NoToken
<1>3. ASSUME NEW status \in Nat, NEW C \in SUBSET Nat,
             \A c \in C :
               \/ c = NoToken /\ (r.kind = "signout" \/ (r.cookie # NoToken /\ r.cookie < token))
               \/ c = Candidate(r) /\ c # NoToken /\ c <= token
      PROVE  Good(Answer(r, status, C), token, now, upAt, Door)
  <2> DEFINE a == Answer(r, status, C)
  <2>1. /\ a \in Requests
        /\ a.stage = "answered" /\ a.setCookie = C /\ a.kind = r.kind /\ a.e = r.e
        /\ a.presented = r.presented /\ a.cookie = r.cookie
        /\ a.out = r.out
    BY <1>1, AnswerFields
  <2> HIDE DEF a
  <2>2. Owned(a, token)  BY <2>1, <1>1, <1>3 DEF Owned, Candidate
  <2>3. Timely(a, now, upAt) /\ (Door => Plain(a))
    BY <2>1, <1>1 DEF Timely, Fresh, Promised, Running, Plain
  <2> QED BY <2>1, <2>2, <2>3 DEF Good, a
<1>4. Good([r EXCEPT !.stage = "api", !.setCookie = SetCookie(r)], token, now, upAt, Door)
  <2> DEFINE a == [r EXCEPT !.stage = "api"]
             b == [a EXCEPT !.setCookie = SetCookie(r)]
  <2>1. /\ a \in Requests /\ a.stage = "api" /\ a.kind = r.kind /\ a.e = r.e
        /\ a.presented = r.presented /\ a.cookie = r.cookie /\ a.out = r.out
    BY <1>1, StageFields DEF Stages
  <2>2. b = [r EXCEPT !.stage = "api", !.setCookie = SetCookie(r)]  BY <1>1 DEF Requests
  <2> HIDE DEF a
  <2>3. /\ b \in Requests /\ b.stage = "api" /\ b.kind = r.kind /\ b.e = r.e
        /\ b.presented = r.presented /\ b.cookie = r.cookie /\ b.out = r.out
        /\ b.setCookie = SetCookie(r)
    BY <2>1, <1>2 DEF Requests
  <2> HIDE DEF b
  <2>4. Owned(b, token)  BY <2>3, <1>1, <1>2 DEF Owned, Candidate
  <2>5. Timely(b, now, upAt) /\ (Door => Plain(b))
    BY <2>3, <1>1 DEF Timely, Running, Plain
  <2>6. Good(b, token, now, upAt, Door)  BY <2>3, <2>4, <2>5 DEF Good
  <2> QED BY <2>2, <2>6
<1>5. \/ \E status \in Nat, C \in SUBSET Nat :
           /\ Reply(r) = Answer(r, status, C)
           /\ C \in {{}, SetCookie(r)} \/ (C = {NoToken} /\ r.kind = "signout")
      \/ Reply(r) = [r EXCEPT !.stage = "api", !.setCookie = SetCookie(r)]
  <2>1. {200, 401, 429} \subseteq Nat /\ {{}, SetCookie(r), {NoToken}} \subseteq SUBSET Nat
    BY <1>2 DEF NoToken
  <2> QED BY <2>1 DEF Reply
<1> QED BY <1>2, <1>3, <1>4, <1>5

LEMMA ReplacedByGood ==
  ASSUME Clock, RequestsInv, UNCHANGED <<scenario, now, token>>, upAt \subseteq upAt',
         NEW r, NEW s, Replace(r, s), Good(s, token, now, upAt', Door)
  PROVE  RequestsInv'
<1>1. \A q \in net' : q \in net \/ Good(q, token, now, upAt', Door)
  BY DEF Replace, Read
<1>2. token \in Nat /\ token' = token  BY DEF Clock
<1> QED BY <1>1, <1>2, RequestsStayGood

(* What is known of a request under way.                                   *)
LEMMA OfARequest ==
  ASSUME Clock, RequestsInv, NEW r \in net
  PROVE  /\ r \in Requests /\ Owned(r, token) /\ Timely(r, now, upAt)
         /\ Door => Plain(r)
         /\ r.setCookie \in SUBSET Nat /\ r.born \in Nat /\ r.out \in Outs /\ r.cookie \in Nat
         /\ token \in Nat \ {0}
BY DEF RequestsInv, Good, Requests, Clock

LEMMA NowIsNatural ==
  ASSUME BackofficeConstants, Clock
  PROVE  /\ now \in Nat /\ Ttl \in Nat /\ PageTimeout \in Nat /\ StatusTtl \in Nat
         /\ ProbeTimeout \in Nat /\ MaxPages \in Nat \ {0} /\ ReadTime \in Nat
         /\ Door \in BOOLEAN
<1>1. MaxClock[scenario] \in Nat  BY DEF BackofficeConstants, Clock
<1>2. ReadTime \in Nat  BY DEF ReadTime, BackofficeConstants
<1> QED BY <1>1, <1>2 DEF Clock, Times, BackofficeConstants, Door

(* An answer that carries what the request would have set, or nothing.     *)
LEMMA AnswerIsGood ==
  ASSUME Clock, RequestsInv, NEW r \in net, r.out = "none", NEW status \in Nat,
         NEW C \in {r.setCookie, {}}
  PROVE  Good(Answer(r, status, C), token, now, upAt, Door)
<1> DEFINE a == Answer(r, status, C)
<1>1. /\ r \in Requests /\ Owned(r, token) /\ Timely(r, now, upAt) /\ (Door => Plain(r))
      /\ C \in SUBSET Nat
  BY OfARequest
<1>2. /\ a \in Requests
      /\ a.stage = "answered" /\ a.setCookie = C /\ a.kind = r.kind /\ a.e = r.e
      /\ a.presented = r.presented /\ a.cookie = r.cookie /\ a.out = r.out
  BY <1>1, AnswerFields
<1> HIDE DEF a
<1>3. Owned(a, token)  BY <1>1, <1>2 DEF Owned, Candidate
<1>4. Timely(a, now, upAt) /\ (Door => Plain(a))
  BY <1>1, <1>2 DEF Timely, Fresh, Promised, Running, Plain
<1> QED BY <1>2, <1>3, <1>4 DEF Good, a

(* An answer of a cache, when it is as fresh as it says.                   *)
LEMMA DataIsGood ==
  ASSUME BackofficeConstants, Clock, RequestsInv, NEW r \in net, ~Door,
         NEW status \in Nat, NEW out \in Outs, NEW born \in Nat,
         Promised(out, born, now, upAt)
  PROVE  Good(Data(r, status, out, born), token, now, upAt, Door)
<1> DEFINE a == Data(r, status, out, born)
<1>1. r \in Requests /\ Owned(r, token) /\ now \in Nat  BY OfARequest, NowIsNatural
<1>2. /\ a \in Requests
      /\ a.stage = "answered" /\ a.setCookie = r.setCookie /\ a.kind = r.kind
      /\ a.presented = r.presented /\ a.cookie = r.cookie
      /\ a.out = out /\ a.born = born /\ a.at = now
  <2>1. r \in Requests /\ now \in Nat  BY <1>1
  <2> QED BY ONLY <2>1, DataFields, status \in Nat, out \in Outs, born \in Nat
<1> HIDE DEF a
<1>3. Owned(a, token)  BY <1>1, <1>2 DEF Owned, Candidate
<1>4. Timely(a, now, upAt)  BY <1>2 DEF Timely, Fresh, Running
<1> QED BY <1>2, <1>3, <1>4 DEF Good, a

LEMMA DegradedIsGood ==
  ASSUME BackofficeConstants, Clock, RequestsInv, NEW r \in net, ~Door
  PROVE  Good(Degraded(r), token, now, upAt, Door)
<1>1. now \in Nat /\ "degraded" \in Outs /\ 503 \in Nat /\ 200 \in Nat
  BY NowIsNatural DEF Outs
<1> QED BY <1>1, DataIsGood DEF Degraded, Promised

-----------------------------------------------------------------------------
(* The server's steps keep the requests good.                              *)
LEMMA HandleKeepsRequests ==
  ASSUME Clock, RequestsInv, NEW r \in net, Handle(r)
  PROVE  RequestsInv'
<1>1. r.stage = "sent" /\ Replace(r, Reply(r)) /\ UNCHANGED <<scenario, now, token>>
      /\ upAt' = upAt
  BY DEF Handle, probe
<1> QED BY <1>1, ReplyIsGood, ReplacedByGood

LEMMA TableKeepsRequests ==
  ASSUME Clock, RequestsInv, NEW r \in net, SelectTable(r)
  PROVE  RequestsInv'
<1>1. /\ r.stage = "api" /\ UNCHANGED <<scenario, now, token>> /\ upAt' = upAt
      /\ Replace(r, Answer(r, 200, r.setCookie)) \/ Replace(r, Answer(r, 500, {}))
  BY DEF SelectTable, probe, door
<1>2. r.out = "none"  BY <1>1, OfARequest DEF Timely
<1>3. /\ Good(Answer(r, 200, r.setCookie), token, now, upAt, Door)
      /\ Good(Answer(r, 500, {}), token, now, upAt, Door)
  BY <1>2, AnswerIsGood
<1> QED BY <1>1, <1>3, ReplacedByGood

LEMMA WaitingIsGood ==
  ASSUME Clock, RequestsInv, NEW r \in net, r.stage = "api", r.e \in {"costs", "logs"}, ~Door
  PROVE  Good([r EXCEPT !.stage = "waits"], token, now, upAt, Door)
<1> DEFINE a == [r EXCEPT !.stage = "waits"]
<1>1. r \in Requests /\ Owned(r, token)  BY OfARequest
<1>2. /\ a \in Requests /\ a.stage = "waits" /\ a.setCookie = r.setCookie /\ a.kind = r.kind
      /\ a.e = r.e /\ a.presented = r.presented /\ a.cookie = r.cookie
  BY <1>1, StageFields DEF Stages
<1> HIDE DEF a
<1>3. Owned(a, token)  BY <1>1, <1>2 DEF Owned, Candidate
<1>4. Timely(a, now, upAt)  BY <1>2 DEF Timely, Running
<1> QED BY <1>2, <1>3, <1>4 DEF Good, a

LEMMA ObserveKeepsRequests ==
  ASSUME BackofficeConstants, Clock, RequestsInv, CachesInv, NEW r \in net, Observe(r)
  PROVE  RequestsInv'
<1>1. /\ r.stage = "api" /\ r.e \in {"costs", "logs"}
      /\ UNCHANGED <<scenario, now, token>> /\ upAt' = upAt
  BY DEF Observe, probe, door
<1>2. ~Door
  BY <1>1, OfARequest DEF Plain
<1>3. CASE \E v \in ok : now < v.at + Ttl /\ Replace(r, Data(r, 200, "ok", v.born))
  <2>1. PICK v \in ok : now < v.at + Ttl /\ Replace(r, Data(r, 200, "ok", v.born))  BY <1>3
  <2>2. v.at \in Nat /\ v.born \in Nat /\ v.at <= v.born + ReadTime
    BY DEF CachesInv, ReadInv
  <2>3. now <= v.born + Ttl + ReadTime
    BY <2>1, <2>2, NowIsNatural
  <2>4. Promised("ok", v.born, now, upAt)  BY <2>3 DEF Promised
  <2>5. Good(Data(r, 200, "ok", v.born), token, now, upAt, Door)
    BY <1>2, <2>2, <2>4, DataIsGood DEF Outs
  <2> QED BY <1>1, <2>1, <2>5, ReplacedByGood
<1>4. CASE Replace(r, Degraded(r))
  BY <1>1, <1>2, <1>4, DegradedIsGood, ReplacedByGood
<1>5. CASE Replace(r, [r EXCEPT !.stage = "waits"])
  BY <1>1, <1>2, <1>5, WaitingIsGood, ReplacedByGood
<1> QED BY <1>3, <1>4, <1>5 DEF Observe

LEMMA AskStatusKeepsRequests ==
  ASSUME BackofficeConstants, Clock, RequestsInv, CachesInv, NEW r \in net, AskStatus(r)
  PROVE  RequestsInv'
<1>1. /\ r.stage = "api" /\ r.e = "status"
      /\ UNCHANGED <<scenario, now, token>> /\ upAt' = upAt
  BY DEF AskStatus, probe, door
<1>2. ~Door /\ now \in Nat /\ StatusTtl \in Nat /\ ProbeTimeout \in Nat
  BY <1>1, OfARequest, NowIsNatural DEF Plain
<1>3. CASE \E v \in ServedStatus : Replace(r, Data(r, 200, v.out, v.born))
  <2>1. PICK v \in ServedStatus : Replace(r, Data(r, 200, v.out, v.born))  BY <1>3
  <2>2. v \in statusCache /\ now < v.at + StatusTtl  BY <2>1 DEF ServedStatus
  <2>3. /\ v.at \in Nat /\ v.born \in Nat /\ v.out \in Outs /\ v.at <= now
        /\ v.out \in {"operational", "down"}
        /\ v.out = "operational" => \E x \in upAt : x <= v.at /\ v.at <= x + ProbeTimeout
    BY <2>2 DEF CachesInv, StatusInv
  <2>4. ASSUME v.out = "operational"
        PROVE  \E x \in upAt : x <= now /\ now <= x + StatusTtl + ProbeTimeout
    <3>1. PICK x \in upAt : x <= v.at /\ v.at <= x + ProbeTimeout  BY <2>3, <2>4
    <3>2. x \in Nat  BY DEF CachesInv, UpInv
    <3>3. x <= now /\ now <= x + StatusTtl + ProbeTimeout  BY <1>2, <2>2, <2>3, <3>1, <3>2
    <3> QED BY <3>3
  <2>5. Promised(v.out, v.born, now, upAt)  BY <2>3, <2>4 DEF Promised
  <2>6. Good(Data(r, 200, v.out, v.born), token, now, upAt, Door)
    BY <1>2, <2>3, <2>5, DataIsGood
  <2> QED BY <1>1, <2>1, <2>6, ReplacedByGood
<1>4. CASE Replace(r, [r EXCEPT !.stage = "waits", !.born = now])
  <2> DEFINE a == [r EXCEPT !.stage = "waits"]
             b == [a EXCEPT !.born = now]
  <2>1. r \in Requests /\ Owned(r, token) /\ r.out = "none"
    BY <1>1, OfARequest DEF Timely
  <2>2. /\ a \in Requests /\ a.stage = "waits" /\ a.setCookie = r.setCookie /\ a.kind = r.kind
        /\ a.e = r.e /\ a.presented = r.presented /\ a.cookie = r.cookie /\ a.out = "none"
    BY <2>1, StageFields DEF Stages
  <2>3. b = [r EXCEPT !.stage = "waits", !.born = now]  BY <2>1 DEF Requests
  <2> HIDE DEF a
  <2>4. /\ b \in Requests /\ b.stage = "waits" /\ b.setCookie = r.setCookie /\ b.kind = r.kind
        /\ b.e = r.e /\ b.presented = r.presented /\ b.cookie = r.cookie /\ b.out = "none"
        /\ b.born = now
    BY <2>2, <1>2 DEF Requests
  <2> HIDE DEF b
  <2>5. Owned(b, token)  BY <2>1, <2>4 DEF Owned, Candidate
  <2>6. Timely(b, now, upAt)
    <3>1. now <= now /\ now <= now + ProbeTimeout  BY <1>2
    <3> QED BY <2>4, <3>1 DEF Timely
  <2>7. Good(b, token, now, upAt, Door)  BY <1>2, <2>4, <2>5, <2>6 DEF Good
  <2> QED BY <1>1, <1>4, <2>3, <2>7, ReplacedByGood
<1> QED BY <1>3, <1>4 DEF AskStatus

LEMMA PingKeepsRequests ==
  ASSUME BackofficeConstants, Clock, RequestsInv, CachesInv, NEW r \in net, Ping(r)
  PROVE  RequestsInv'
<1> DEFINE o == IF up THEN "operational" ELSE "down"
           a == [r EXCEPT !.out = o]
<1>1. /\ Running(r) /\ Replace(r, a) /\ UNCHANGED <<scenario, now, token>> /\ upAt' = upAt
  BY DEF Ping, probe, door
<1>2. r \in Requests /\ Owned(r, token) /\ Timely(r, now, upAt) /\ (Door => Plain(r))
      /\ r.stage = "waits" /\ r.e = "status" /\ r.born \in Nat
  BY <1>1, OfARequest DEF Running
<1>3. o \in Outs /\ o \in {"operational", "down"} /\ now \in Nat  BY NowIsNatural DEF Outs
<1>4. /\ a \in Requests /\ a.stage = r.stage /\ a.setCookie = r.setCookie /\ a.kind = r.kind
      /\ a.e = r.e /\ a.presented = r.presented /\ a.cookie = r.cookie /\ a.out = o
      /\ a.born = r.born
  BY <1>2, <1>3, OutFields
<1>5. o = "operational" => \E x \in upAt : r.born <= x /\ x <= now
  <2>1. r.born <= now  BY <1>1, <1>2 DEF Timely
  <2> QED BY <2>1, <1>3 DEF CachesInv, UpInv
<1> HIDE DEF a, o
<1>6. Owned(a, token)  BY <1>2, <1>4 DEF Owned, Candidate
<1>7. Timely(a, now, upAt)  BY <1>1, <1>2, <1>3, <1>4, <1>5 DEF Timely, Running
<1>8. ~Door  BY <1>2 DEF Plain
<1>9. Good(a, token, now, upAt, Door)  BY <1>4, <1>6, <1>7, <1>8 DEF Good
<1> QED BY <1>1, <1>9, ReplacedByGood

LEMMA RunEndsKeepsRequests ==
  ASSUME BackofficeConstants, Clock, RequestsInv, CachesInv, NEW r \in net, RunEnds(r)
  PROVE  RequestsInv'
<1>1. /\ Running(r) /\ Replace(r, Data(r, 200, r.out, r.born))
      /\ UNCHANGED <<scenario, now, token>> /\ upAt' = upAt /\ r.out # "none"
  BY DEF RunEnds, door
<1>2. ~Door  BY <1>1, OfARequest DEF Plain
<1>3. Timely(r, now, upAt) /\ r.born \in Nat /\ r.out \in Outs  BY OfARequest
<1>4. now \in Nat /\ StatusTtl \in Nat /\ ProbeTimeout \in Nat /\ Ttl \in Nat /\ ReadTime \in Nat
  BY NowIsNatural
<1>5. r.out # "ok"  BY <1>1, <1>3 DEF Timely
<1>6. ASSUME r.out = "operational"
      PROVE  \E x \in upAt : x <= now /\ now <= x + StatusTtl + ProbeTimeout
  <2>1. PICK x \in upAt : r.born <= x /\ x <= now  BY <1>1, <1>3, <1>6 DEF Timely
  <2>2. now <= r.born + ProbeTimeout  BY <1>1, <1>3 DEF Timely
  <2>3. x \in Nat  BY DEF CachesInv, UpInv
  <2>4. now <= x + StatusTtl + ProbeTimeout  BY <1>3, <1>4, <2>1, <2>2, <2>3
  <2> QED BY <2>1, <2>4
<1>7. Promised(r.out, r.born, now, upAt)  BY <1>5, <1>6 DEF Promised
<1>8. Good(Data(r, 200, r.out, r.born), token, now, upAt, Door)
  BY <1>2, <1>3, <1>7, DataIsGood
<1> QED BY <1>1, <1>8, ReplacedByGood

(* A page that comes in belongs to a read that began at most all its pages *)
(* ago.                                                                    *)
LEMMA PagesInTime ==
  ASSUME BackofficeConstants, Clock, FlightInv, NEW f \in flight
  PROVE  /\ f.born \in Nat /\ f.since \in Nat /\ f.page \in 1 .. MaxPages
         /\ now <= f.born + f.page * PageTimeout
         /\ now <= f.born + ReadTime
<1>1. /\ f.born \in Nat /\ f.since \in Nat /\ f.page \in 1 .. MaxPages
      /\ now <= f.since + PageTimeout
      /\ f.since <= f.born + (f.page - 1) * PageTimeout
  BY DEF FlightInv
<1>2. now \in Nat /\ PageTimeout \in Nat /\ MaxPages \in Nat  BY NowIsNatural
<1>3. \A p \in Nat \ {0}, t \in Nat : (p - 1) * t + t = p * t  OBVIOUS
<1>4. \A p, m, t \in Nat : p <= m => p * t <= m * t  OBVIOUS
<1>5. \A p, t \in Nat : p * t \in Nat  OBVIOUS
<1> DEFINE a == (f.page - 1) * PageTimeout
           b == f.page * PageTimeout
           c == MaxPages * PageTimeout
<1>6. a + PageTimeout = b /\ b <= c  BY <1>1, <1>2, <1>3, <1>4
<1>7. a \in Nat /\ b \in Nat /\ c \in Nat
  <2>1. f.page - 1 \in Nat /\ f.page \in Nat  BY <1>1, <1>2
  <2> QED BY <2>1, <1>2, <1>5
<1>8. f.since <= f.born + a  BY <1>1
<1>9. now <= f.born + b /\ now <= f.born + c
  <2> HIDE DEF a, b, c
  <2> QED BY <1>1, <1>2, <1>6, <1>7, <1>8
<1> QED BY <1>1, <1>9 DEF ReadTime

LEMMA UpstreamKeepsRequests ==
  ASSUME BackofficeConstants, Clock, RequestsInv, CachesInv, Upstream
  PROVE  RequestsInv'
<1>1. UNCHANGED <<scenario, now, token>> /\ upAt' = upAt  BY DEF Upstream, probe, door
<1>2. \A r \in Joined : r \in net /\ r.stage = "waits" /\ r.e \in {"costs", "logs"} /\ ~Door
  BY OfARequest DEF Joined, Plain
<1>3. ASSUME NEW s \in net', s \notin net
      PROVE  Good(s, token, now, upAt, Door)
  <2>1. CASE \E f \in flight, r \in Joined : s = Data(r, 200, "ok", f.born)
    <3>1. PICK f \in flight, r \in Joined : s = Data(r, 200, "ok", f.born)  BY <2>1
    <3>2. f.born \in Nat /\ now <= f.born + ReadTime  BY PagesInTime DEF CachesInv
    <3>3. Promised("ok", f.born, now, upAt)  BY <3>2, NowIsNatural DEF Promised
    <3> QED BY <1>2, <3>1, <3>2, <3>3, DataIsGood DEF Outs
  <2>2. CASE \E r \in Joined : s = Degraded(r)
    BY <2>2, <1>2, DegradedIsGood
  <2>3. ASSUME NEW F, net' = Read((net \ Joined) \cup F) PROVE s \in F
    BY <1>3, <2>3 DEF Read
  <2>4. CASE ReadFails
    <3>1. s \in {Degraded(r) : r \in Joined}  BY <2>3, <2>4 DEF ReadFails
    <3> QED BY <3>1, <2>2
  <2>5. CASE ReadPage
    <3>1. PICK f \in flight :
            \/ net' = net
            \/ net' = Read((net \ Joined) \cup {Data(r, 200, "ok", f.born) : r \in Joined})
      BY <2>5 DEF ReadPage
    <3>2. s \in {Data(r, 200, "ok", f.born) : r \in Joined}  BY <1>3, <2>3, <3>1
    <3> QED BY <3>2, <2>1
  <2> QED BY <2>4, <2>5 DEF Upstream
<1>4. token \in Nat /\ token' = token  BY <1>1 DEF Clock
<1> QED BY <1>1, <1>3, <1>4, RequestsStayGood

-----------------------------------------------------------------------------
(* The front end's steps: they send new requests with the jar's cookie and *)
(* leave the others, some of them without a tab.                           *)
LEMMA SentIsGood ==
  ASSUME BackofficeConstants, Clock, NEW t \in Who, NEW kind \in Kinds, NEW e \in AllCards,
         NEW presented \in Nat, NEW cookie \in 0 .. token, Door => e \in {"table", "none"}
  PROVE  Good(Request(t, kind, e, presented, cookie), token, now, upAt, Door)
<1>1. token \in Nat /\ cookie \in Nat /\ cookie <= token  BY DEF Clock
<1>2. Door \in BOOLEAN  BY DEF Door
<1> QED BY <1>1, <1>2, NewRequest

LEMMA MountedIsGood ==
  ASSUME BackofficeConstants, Clock, NEW t \in Who, NEW cookie \in 0 .. token,
         NEW s \in Mounted(t, cookie)
  PROVE  Good(s, token, now, upAt, Door) /\ s.stage = "sent"
<1>1. PICK e \in Endpoints : s = Request(t, "data", e, NoToken, cookie)  BY DEF Mounted
<1>2. e \in AllCards /\ (Door => e = "table")
  BY DEF Endpoints, AllCards, Door
<1>3. s.stage = "sent"  BY <1>1 DEF Request
<1> QED BY <1>1, <1>2, <1>3, SentIsGood DEF Kinds, NoToken

LEMMA UnmountedIsGood ==
  ASSUME RequestsInv, NEW t, NEW s \in Unmounted(t)
  PROVE  Good(s, token, now, upAt, Door)
<1>1. CASE s \in net  BY <1>1 DEF RequestsInv
<1>2. CASE \E r \in net : s = [r EXCEPT !.tab = NoTab]
  <2>1. PICK r \in net : s = [r EXCEPT !.tab = NoTab]  BY <1>2
  <2>2. Good(r, token, now, upAt, Door) /\ Door \in BOOLEAN  BY DEF RequestsInv, Door
  <2> QED BY <2>1, <2>2, OrphanIsGood
<1> QED BY <1>1, <1>2 DEF Unmounted

(* What a tab does with an answer, or without one.                         *)
LEMMA ReactKeepsRequests ==
  ASSUME BackofficeConstants, Clock, RequestsInv, NEW r \in net, r.tab \in Who, NEW status,
         NEW cookie \in 0 .. token, React(r, status, cookie),
         UNCHANGED <<scenario, now, token, upAt>>
  PROVE  RequestsInv' /\ (r.stage = "answered" => r \notin net')
<1>1. \/ net' = (net \ {r}) \cup Mounted(r.tab, cookie)
      \/ net' = Unmounted(r.tab) \ {r}
      \/ net' = net \ {r}
  BY DEF React
<1>2. \A s \in net' : s \in net \/ Good(s, token, now, upAt', Door)
  BY <1>1, MountedIsGood, UnmountedIsGood
<1>3. token \in Nat /\ token' = token  BY DEF Clock
<1>4. RequestsInv'  BY <1>2, <1>3, RequestsStayGood
<1>5. r.stage = "answered" => r \notin net'  BY <1>1, MountedIsGood
<1> QED BY <1>4, <1>5

LEMMA LoadKeepsRequests ==
  ASSUME BackofficeConstants, Clock, RequestsInv, NEW t \in AllTabs, NEW query \in Nat,
         Load(t, query)
  PROVE  RequestsInv'
<1>1. /\ net' = Unmounted(t) \cup {Request(t, "shell", "none", query, jar)}
      /\ UNCHANGED <<scenario, now, token, upAt>>
  BY DEF Load, probe
<1>2. Good(Request(t, "shell", "none", query, jar), token, now, upAt, Door)
  BY SentIsGood DEF Clock, Who, Kinds, AllCards
<1>3. \A s \in net' : s \in net \/ Good(s, token, now, upAt', Door)
  BY <1>1, <1>2, UnmountedIsGood
<1>4. token \in Nat /\ token' = token  BY <1>1 DEF Clock
<1> QED BY <1>1, <1>3, <1>4, RequestsStayGood

(* A form, a sign-out and the script send one request more.                *)
LEMMA OneMoreIsGood ==
  ASSUME BackofficeConstants, Clock, RequestsInv, NEW t \in Who, NEW kind \in Kinds,
         NEW presented \in Nat, NEW cookie \in 0 .. token,
         net' = net \cup {Request(t, kind, "none", presented, cookie)},
         UNCHANGED <<scenario, now, token, upAt>>
  PROVE  RequestsInv'
<1>1. Good(Request(t, kind, "none", presented, cookie), token, now, upAt, Door)
  BY SentIsGood DEF AllCards
<1>2. token \in Nat /\ token' = token  BY DEF Clock
<1> QED BY <1>1, <1>2, RequestsStayGood

LEMMA RotateKeepsRequests ==
  ASSUME BackofficeConstants, Clock, RequestsInv, Rotate, Door
  PROVE  RequestsInv'
<1>1. /\ net' = Read({IF r.stage = "answered" THEN r ELSE Answer(r, 0, {}) : r \in net})
      /\ token' = token + 1 /\ UNCHANGED <<scenario, now, upAt>>
  BY DEF Rotate, probe
<1>2. token \in Nat  BY DEF Clock
<1>3. ASSUME NEW s \in net'
      PROVE  s \in net \/ Good(s, token', now, upAt', Door)
  <2>1. PICK r \in net : s = IF r.stage = "answered" THEN r ELSE Answer(r, 0, {})
    BY <1>1 DEF Read
  <2>2. r.out = "none"  BY OfARequest DEF Plain
  <2>3. Good(Answer(r, 0, {}), token, now, upAt, Door)  BY <2>2, AnswerIsGood
  <2>4. Good(Answer(r, 0, {}), token', now, upAt', Door)
    <3>1. token' \in Nat /\ token <= token' /\ upAt \subseteq upAt'  BY <1>1, <1>2
    <3> QED BY <2>3, <3>1, <1>2, GoodLater
  <2> QED BY <2>1, <2>4
<1>4. token' \in Nat /\ token' >= token /\ now' = now /\ scenario' = scenario /\ upAt \subseteq upAt'
  BY <1>1, <1>2
<1>5. \A s \in net' : s \in net \/ Good(s, token', now, upAt', Door)  BY <1>1, <1>3
<1> QED BY <1>4, <1>5, RequestsStayGood

LEMMA TickKeepsRequests ==
  ASSUME BackofficeConstants, Clock, RequestsInv, CachesInv, Tick
  PROVE  RequestsInv'
<1>1. /\ now' = now + 1 /\ net' = net /\ token' = token /\ scenario' = scenario
      /\ upAt \subseteq upAt' /\ \A r \in net : Running(r) => now < r.born + ProbeTimeout
  BY DEF Tick, door, probe
<1>2. now \in Nat /\ ProbeTimeout \in Nat  BY NowIsNatural
<1>3. ASSUME NEW r \in net
      PROVE  Good(r, token', now', upAt', Door)
  <2>1. r \in Requests /\ Owned(r, token) /\ Timely(r, now, upAt) /\ (Door => Plain(r))
        /\ r.born \in Nat
    BY OfARequest
  <2>2. r.stage = "answered" => Fresh(r, upAt')  BY <2>1, <1>1 DEF Timely, Fresh, Promised
  <2>3. ASSUME Running(r)
        PROVE  /\ r.born <= now' /\ now' <= r.born + ProbeTimeout
               /\ r.out \in {"none", "operational", "down"}
               /\ r.out = "operational" => \E x \in upAt' : r.born <= x /\ x <= now'
    <3>1. /\ r.born <= now /\ r.out \in {"none", "operational", "down"}
          /\ r.out = "operational" => \E x \in upAt : r.born <= x /\ x <= now
      BY <2>1, <2>3 DEF Timely
    <3>2. now < r.born + ProbeTimeout  BY <1>1, <2>3
    <3>3. ASSUME r.out = "operational"
          PROVE  \E x \in upAt' : r.born <= x /\ x <= now'
      <4>1. PICK x \in upAt : r.born <= x /\ x <= now  BY <3>1, <3>3
      <4>2. x \in Nat /\ x \in upAt'  BY <1>1 DEF CachesInv, UpInv
      <4> QED BY <4>1, <4>2, <1>1, <1>2
    <3> QED BY <3>1, <3>2, <3>3, <1>1, <1>2, <2>1
  <2>4. Timely(r, now', upAt')  BY <2>1, <2>2, <2>3 DEF Timely
  <2> QED BY <2>1, <2>4, <1>1 DEF Good
<1>4. Door' = Door  BY <1>1 DEF Door
<1> QED BY <1>1, <1>3, <1>4 DEF RequestsInv

-----------------------------------------------------------------------------
(* An answer that reaches the browser leaves in the jar a cookie it may    *)
(* set.                                                                    *)
LEMMA JarAfterAnswer ==
  ASSUME Clock, RequestsInv, NEW r \in net, Deliver(r)
  PROVE  jar' \in 0 .. token /\ (jar' = jar \/ jar' \in r.setCookie)
<1>1. jar' = jar \/ jar' \in r.setCookie  BY DEF Deliver
<1>2. \A c \in r.setCookie : c \in 0 .. token
  BY OfARequest DEF Owned, NoToken
<1> QED BY <1>1, <1>2 DEF Clock

(* A session ends for a reason: the cookie that ends it is a sign-out's, a *)
(* replayed one's that is cleared, or another token that was presented.    *)
LEMMA DeliverHasAReason ==
  ASSUME Clock, RequestsInv, NEW r \in net, Deliver(r), jar = token, jar' # jar
  PROVE  \/ r.kind = "signout" \/ r.cookie \notin {NoToken, token}
         \/ r.presented \notin {NoToken, token}
<1>1. jar' \in r.setCookie  BY JarAfterAnswer
<1>2. r.cookie \in Nat /\ r.cookie <= token /\ token \in Nat \ {0} /\ Owned(r, token)
  BY OfARequest DEF Owned
<1>3. CASE jar' = NoToken /\ r.kind # "signout"
  BY <1>1, <1>2, <1>3 DEF Owned, Candidate
<1>4. CASE jar' = Candidate(r) /\ jar' # NoToken
  BY <1>4 DEF Candidate
<1> QED BY <1>1, <1>2, <1>3, <1>4 DEF Owned

LEMMA TabsAreTabs ==
  ASSUME BackofficeConstants
  PROVE  Tabs \subseteq AllTabs /\ AllTabs \subseteq Who /\ NoTab \in Who
BY DEF BackofficeConstants, Tabs, Who

LEMMA ServeKeepsRequests ==
  ASSUME BackofficeConstants, Clock, RequestsInv, CachesInv, NEW r \in net, Serve(r)
  PROVE  RequestsInv'
<1>1. CASE Deliver(r)
  <2>1. jar' \in 0 .. token  BY <1>1, JarAfterAnswer
  <2>2. r.tab \in Who  BY OfARequest DEF Requests
  <2>3. React(r, r.status, jar') /\ UNCHANGED <<scenario, now, token, upAt>>
    BY <1>1 DEF Deliver, probe
  <2> QED BY <2>1, <2>2, <2>3, ReactKeepsRequests
<1> QED BY <1>1, HandleKeepsRequests, TableKeepsRequests, ObserveKeepsRequests,
           AskStatusKeepsRequests, PingKeepsRequests, RunEndsKeepsRequests DEF Serve

LEMMA SessionsKeepRequests ==
  ASSUME BackofficeConstants, Clock, RequestsInv, Sessions
  PROVE  RequestsInv'
<1>1. Tabs \subseteq Who /\ Tabs \subseteq AllTabs /\ NoTab \in Who  BY TabsAreTabs
<1>2. token \in Nat /\ 1 \in Nat /\ NoToken \in Nat /\ jar \in 0 .. token /\ NoToken \in 0 .. token
  BY DEF Clock, NoToken
<1>3. ASSUME NEW t \in Tabs, SignOut(t) PROVE RequestsInv'
  <2>1. /\ net' = net \cup {Request(t, "signout", "none", NoToken, jar)}
        /\ UNCHANGED <<scenario, now, token, upAt>>
    BY <1>3 DEF SignOut, probe
  <2> QED BY <1>1, <1>2, <2>1, OneMoreIsGood DEF Kinds
<1>4. ASSUME NEW t \in Tabs, NEW v \in {1, token}, SignIn(t, v) PROVE RequestsInv'
  <2>1. /\ net' = net \cup {Request(t, "session", "none", v, jar)}
        /\ UNCHANGED <<scenario, now, token, upAt>>
    BY <1>4 DEF SignIn, probe
  <2> QED BY <1>1, <1>2, <2>1, OneMoreIsGood DEF Kinds
<1>5. ASSUME NEW v \in {1, token}, Script(v) PROVE RequestsInv'
  <2>1. /\ net' = net \cup {Request(NoTab, "script", "none", v, NoToken)}
        /\ UNCHANGED <<scenario, now, token, upAt>>
    BY <1>5 DEF Script, probe, door
  <2> QED BY <1>1, <1>2, <2>1, OneMoreIsGood DEF Kinds
<1>6. ASSUME NEW t \in Tabs, Reload(t) PROVE RequestsInv'
  BY <1>1, <1>2, <1>6, LoadKeepsRequests DEF Reload
<1>7. ASSUME NEW t \in Tabs, NEW q \in {NoToken, 1}, Open(t, q) PROVE RequestsInv'
  BY <1>1, <1>2, <1>7, LoadKeepsRequests DEF Open
<1>8. ASSUME Rotate, scenario = "door" PROVE RequestsInv'
  BY <1>8, RotateKeepsRequests DEF Door
<1>9. ASSUME NEW r \in net, LostInTransit(r) PROVE RequestsInv'
  <2>1. r.tab \in Who  BY OfARequest DEF Requests
  <2>2. React(r, 0, jar) /\ UNCHANGED <<scenario, now, token, upAt>>
    BY <1>9 DEF LostInTransit, probe
  <2> QED BY <1>2, <2>1, <2>2, ReactKeepsRequests
<1> QED BY <1>3, <1>4, <1>5, <1>6, <1>7, <1>8, <1>9 DEF Sessions

LEMMA NextKeepsRequests ==
  ASSUME BackofficeConstants, Clock, RequestsInv, CachesInv, [Next]_vars
  PROVE  RequestsInv'
<1>1. CASE \E r \in net : Serve(r)  BY <1>1, ServeKeepsRequests
<1>2. CASE Sessions  BY <1>2, SessionsKeepRequests
<1>3. CASE Caches
  <2>1. ASSUME NEW t \in Tabs, Open(t, NoToken) PROVE RequestsInv'
    BY <2>1, TabsAreTabs, LoadKeepsRequests DEF Open, NoToken
  <2>2. ASSUME ServiceTurns PROVE RequestsInv'
    <3>1. /\ UNCHANGED <<scenario, now, token, net>> /\ upAt \subseteq upAt'
      BY <2>2 DEF ServiceTurns, door
    <3>2. token \in Nat  BY DEF Clock
    <3> QED BY <3>1, <3>2, RequestsStayGood
  <2> QED BY <1>3, <2>1, <2>2, UpstreamKeepsRequests DEF Caches
<1>4. CASE Tick  BY <1>4, TickKeepsRequests
<1>5. CASE UNCHANGED vars
  <2>1. UNCHANGED <<scenario, now, token, net, upAt>>  BY <1>5 DEF vars, door, probe
  <2>2. token \in Nat  BY DEF Clock
  <2> QED BY <2>1, <2>2, RequestsStayGood
<1> QED BY <1>1, <1>2, <1>3, <1>4, <1>5 DEF Next

-----------------------------------------------------------------------------
(* Which step changes what.                                                *)
LEMMA WhoChangesTheDoor ==
  ASSUME [Next]_vars
  PROVE  /\ scenario' = scenario
         /\ now' = now \/ Tick
         /\ token' = token \/ Rotate
         /\ jar' = jar \/ \E r \in net : Deliver(r)
         /\ UNCHANGED <<failures, lockedUntil, guesses>> \/ Rotate \/ \E r \in net : Handle(r)
<1>1. ASSUME NEW r \in net, Serve(r), ~Deliver(r), ~Handle(r)
      PROVE  UNCHANGED <<scenario, now, token, jar, failures, lockedUntil, guesses>>
  BY <1>1 DEF Serve, SelectTable, Observe, AskStatus, Ping, RunEnds, door
<1>2. ASSUME NEW r \in net, Deliver(r)
      PROVE  UNCHANGED <<scenario, now, token, failures, lockedUntil, guesses>>
  BY <1>2 DEF Deliver
<1>3. ASSUME NEW r \in net, Handle(r)
      PROVE  UNCHANGED <<scenario, now, token, jar>>
  BY <1>3 DEF Handle
<1>4. ASSUME Sessions, ~Rotate
      PROVE  UNCHANGED <<scenario, now, token, jar, failures, lockedUntil, guesses>>
  BY <1>4 DEF Sessions, SignOut, Reload, SignIn, Open, Load, Script, LostInTransit, door
<1>5. ASSUME Rotate PROVE UNCHANGED <<scenario, now, jar>>
  BY <1>5 DEF Rotate
<1>6. ASSUME Caches
      PROVE  UNCHANGED <<scenario, now, token, jar, failures, lockedUntil, guesses>>
  BY <1>6 DEF Caches, Open, Load, Upstream, ServiceTurns, door
<1>7. ASSUME Tick
      PROVE  UNCHANGED <<scenario, token, jar, failures, lockedUntil, guesses>>
  BY <1>7 DEF Tick, door
<1>8. ASSUME UNCHANGED vars
      PROVE  UNCHANGED <<scenario, now, token, jar, failures, lockedUntil, guesses>>
  BY <1>8 DEF vars, door
<1> QED BY <1>1, <1>2, <1>3, <1>4, <1>5, <1>6, <1>7, <1>8 DEF Next

LEMMA NextKeepsClock ==
  ASSUME BackofficeConstants, Clock, RequestsInv, [Next]_vars
  PROVE  Clock'
<1>1. MaxClock[scenario] \in Nat /\ now \in Nat
  BY NowIsNatural DEF BackofficeConstants, Clock
<1>2. scenario' = scenario /\ Times' = Times  BY WhoChangesTheDoor DEF Times
<1>3. now' \in Times
  <2>1. CASE Tick  BY <2>1, <1>1 DEF Tick, Times
  <2> QED BY <2>1, WhoChangesTheDoor DEF Clock
<1>4. token' \in Nat \ {0} /\ token <= token'
  <2>1. CASE Rotate  BY <2>1 DEF Rotate, Clock
  <2> QED BY <2>1, WhoChangesTheDoor DEF Clock
<1>5. jar' \in 0 .. token
  <2>1. CASE \E r \in net : Deliver(r)  BY <2>1, JarAfterAnswer
  <2> QED BY <2>1, WhoChangesTheDoor DEF Clock
<1>6. jar' \in 0 .. token'  BY <1>4, <1>5 DEF Clock
<1> QED BY <1>2, <1>3, <1>4, <1>6 DEF Clock

LEMMA NextKeepsThrottle ==
  ASSUME BackofficeConstants, Clock, ThrottleInv, [Next]_vars
  PROVE  ThrottleInv'
<1>1. scenario' = scenario  BY WhoChangesTheDoor
<1>2. now' \in Nat /\ now' >= now
  <2>1. now \in Nat  BY NowIsNatural
  <2> QED BY <2>1, WhoChangesTheDoor DEF Tick
<1>3. CASE UNCHANGED <<failures, lockedUntil, guesses>>
  BY <1>1, <1>2, <1>3, OthersLeaveTheThrottle
<1>4. CASE Rotate
  <2>1. failures' = {} /\ lockedUntil' = 0 /\ guesses' = {}  BY <1>4 DEF Rotate, Reset
  <2>2. 0 < MaxFailures  BY DEF BackofficeConstants
  <2> QED BY <2>1, <2>2, NothingIsNumbered DEF ThrottleInv
<1>5. CASE \E r \in net : Handle(r)
  <2>1. PICK r \in net : Handle(r)  BY <1>5
  <2>2. Throttle(r) /\ History(r) /\ now' = now /\ scenario' = scenario  BY <2>1 DEF Handle
  <2> QED BY <2>2, HandlingIsThrottled
<1> QED BY <1>3, <1>4, <1>5, WhoChangesTheDoor

LEMMA WhoChangesTheCaches ==
  ASSUME [Next]_vars
  PROVE  /\ flight' = flight \/ Upstream \/ \E r \in net : Observe(r)
         /\ ok' = ok \/ ReadPage
         /\ statusCache' = statusCache \/ \E r \in net : RunEnds(r)
         /\ UNCHANGED <<now, up, upAt>> \/ Tick \/ ServiceTurns
<1>1. ASSUME NEW r \in net, Serve(r)
      PROVE  /\ flight' = flight \/ Observe(r)
             /\ ok' = ok
             /\ statusCache' = statusCache \/ RunEnds(r)
             /\ UNCHANGED <<now, up, upAt>>
  BY <1>1 DEF Serve, Handle, SelectTable, Observe, AskStatus, Ping, RunEnds, Deliver, reads, probe
<1>2. ASSUME Sessions PROVE UNCHANGED <<flight, ok, statusCache, now, up, upAt>>
  BY <1>2 DEF Sessions, SignOut, Reload, SignIn, Open, Load, Script, LostInTransit, Rotate,
              reads, probe
<1>3. ASSUME Caches, ~ServiceTurns, ~Upstream
      PROVE  UNCHANGED <<flight, ok, statusCache, now, up, upAt>>
  BY <1>3 DEF Caches, Open, Load, reads, probe
<1>4. ASSUME Upstream PROVE (ok' = ok \/ ReadPage) /\ UNCHANGED <<statusCache, now, up, upAt>>
  BY <1>4 DEF Upstream, ReadFails, probe
<1>5. ASSUME Tick \/ ServiceTurns PROVE UNCHANGED <<flight, ok, statusCache>>
  BY <1>5 DEF Tick, ServiceTurns, reads
<1>6. ASSUME UNCHANGED vars PROVE UNCHANGED <<flight, ok, statusCache, now, up, upAt>>
  BY <1>6 DEF vars, reads, probe
<1> QED BY <1>1, <1>2, <1>3, <1>4, <1>5, <1>6 DEF Next

LEMMA NextKeepsCaches ==
  ASSUME BackofficeConstants, Clock, RequestsInv, CachesInv, [Next]_vars
  PROVE  CachesInv'
<1>1. now \in Nat /\ PageTimeout \in Nat /\ ProbeTimeout \in Nat /\ MaxPages \in Nat \ {0}
      /\ ReadTime \in Nat
  BY NowIsNatural
<1>2. UNCHANGED <<now, up, upAt>> \/ Tick \/ ServiceTurns  BY WhoChangesTheCaches
<1>3. now' \in Nat /\ now <= now' /\ upAt \subseteq upAt' /\ UpInv'
  <2>1. upAt \subseteq Nat /\ (up => now \in upAt)  BY DEF CachesInv, UpInv
  <2>2. CASE UNCHANGED <<now, up, upAt>>  BY <2>1, <2>2, <1>1 DEF UpInv
  <2>3. CASE Tick
    <3>1. now' = now + 1 /\ up' = up /\ upAt' = IF up THEN upAt \cup {now + 1} ELSE upAt
      BY <2>3 DEF Tick
    <3> QED BY <2>1, <3>1, <1>1 DEF UpInv
  <2>4. CASE ServiceTurns
    <3>1. now' = now /\ upAt' = IF up' THEN upAt \cup {now} ELSE upAt
      BY <2>4 DEF ServiceTurns
    <3> QED BY <2>1, <3>1, <1>1 DEF UpInv
  <2> QED BY <1>2, <2>2, <2>3, <2>4
<1>4. FlightInv'
  <2>1. CASE Tick
    BY <2>1, <1>1 DEF Tick, reads, CachesInv, FlightInv
  <2>2. CASE now' = now /\ flight' = flight
    BY <2>2 DEF CachesInv, FlightInv
  <2>3. CASE now' = now /\ flight' = {}
    BY <2>3 DEF FlightInv
  <2>4. CASE now' = now /\ flight' = {[page |-> 1, since |-> now, born |-> now]}
    <3>1. (1 - 1) * PageTimeout = 0  BY <1>1
    <3> QED BY <2>4, <3>1, <1>1 DEF FlightInv
  <2>5. ASSUME now' = now, NEW f \in flight, f.page < MaxPages,
               flight' = {[f EXCEPT !.page = @ + 1, !.since = now]}
        PROVE  FlightInv'
    <3> DEFINE g == [f EXCEPT !.page = @ + 1, !.since = now]
    <3>1. f \in [page : 1 .. MaxPages, since : Nat, born : Nat]  BY DEF CachesInv, FlightInv
    <3>2. g \in [page : 1 .. MaxPages, since : Nat, born : Nat]
          /\ g.page = f.page + 1 /\ g.since = now /\ g.born = f.born
      <4>1. f.page + 1 \in 1 .. MaxPages  BY <3>1, <2>5, <1>1
      <4> DEFINE h == [f EXCEPT !.page = f.page + 1]
      <4>2. h \in [page : 1 .. MaxPages, since : Nat, born : Nat]
            /\ h.page = f.page + 1 /\ h.born = f.born
        BY <4>1, <3>1
      <4>3. g = [h EXCEPT !.since = now]  BY <3>1
      <4> HIDE DEF g, h
      <4> QED BY <4>2, <4>3, <1>1
    <3>3. now <= f.born + f.page * PageTimeout  BY PagesInTime DEF CachesInv
    <3>4. g.page - 1 = f.page  BY <3>1, <3>2
    <3>5. \A h \in flight' : h = g  BY <2>5
    <3> HIDE DEF g
    <3>6. g.since <= now /\ now <= g.since + PageTimeout
          /\ g.since <= g.born + (g.page - 1) * PageTimeout
      BY <3>2, <3>3, <3>4, <1>1
    <3> QED BY <3>2, <3>5, <3>6, <2>5 DEF FlightInv
  <2>6. ASSUME Upstream PROVE FlightInv'
    <3>1. now' = now  BY <2>6 DEF Upstream
    <3>2. ReadPage \/ ReadFails  BY <2>6 DEF Upstream
    <3> QED BY <3>1, <3>2, <2>3, <2>5 DEF ReadPage, ReadFails
  <2>7. ASSUME NEW r \in net, Observe(r) PROVE FlightInv'
    <3>1. now' = now  BY <2>7 DEF Observe
    <3> QED BY <3>1, <2>2, <2>4, <2>7 DEF Observe
  <2>8. CASE ServiceTurns  BY <2>2, <2>8 DEF ServiceTurns, reads
  <2> QED BY <2>1, <2>2, <2>6, <2>7, <2>8, WhoChangesTheCaches
<1>5. ReadInv'
  <2>1. CASE ok' = ok  BY <2>1 DEF CachesInv, ReadInv
  <2>2. CASE ok' # ok
    <3>1. PICK f \in flight : ok' = {[at |-> now, born |-> f.born]}
      BY <2>2, WhoChangesTheCaches DEF ReadPage
    <3>2. f.born \in Nat /\ now <= f.born + ReadTime  BY PagesInTime DEF CachesInv
    <3> QED BY <3>1, <3>2, <1>1 DEF ReadInv
  <2> QED BY <2>1, <2>2
<1>6. StatusInv'
  <2>1. ASSUME NEW v \in statusCache
        PROVE  /\ v \in [at : Nat, born : Nat, out : Outs] /\ v.at <= now'
               /\ v.out \in {"operational", "down"}
               /\ v.out = "operational" =>
                    \E x \in upAt' : x <= v.at /\ v.at <= x + ProbeTimeout
    BY <1>1, <1>3 DEF CachesInv, StatusInv
  <2>2. CASE statusCache' = statusCache  BY <2>1, <2>2 DEF StatusInv
  <2>3. CASE \E r \in net : RunEnds(r)
    <3>1. PICK r \in net : RunEnds(r)  BY <2>3
    <3>2. /\ Running(r) /\ r.out # "none" /\ now' = now /\ upAt' = upAt
          /\ statusCache' = {[at |-> now, born |-> r.born, out |-> r.out]}
      BY <3>1 DEF RunEnds
    <3>3. /\ r.born \in Nat /\ r.out \in Outs /\ Timely(r, now, upAt)  BY OfARequest
    <3>4. /\ r.born <= now /\ now <= r.born + ProbeTimeout
          /\ r.out \in {"operational", "down"}
          /\ r.out = "operational" => \E x \in upAt : r.born <= x /\ x <= now
      BY <3>2, <3>3 DEF Timely
    <3>5. r.out = "operational" => \E x \in upAt : x <= now /\ now <= x + ProbeTimeout
      BY <3>3, <3>4, <1>1 DEF CachesInv, UpInv
    <3>6. \A v \in statusCache' : v = [at |-> now, born |-> r.born, out |-> r.out]  BY <3>2
    <3> QED BY <3>2, <3>3, <3>4, <3>5, <3>6, <1>1 DEF StatusInv
  <2> QED BY <2>2, <2>3, WhoChangesTheCaches
<1> QED BY <1>3, <1>4, <1>5, <1>6 DEF CachesInv

-----------------------------------------------------------------------------
LEMMA InitIsSound == BackofficeConstants /\ Init => BackofficeInv
<1> SUFFICES ASSUME BackofficeConstants, Init PROVE BackofficeInv  OBVIOUS
<1>1. MaxClock[scenario] \in Nat  BY DEF BackofficeConstants, Init
<1>2. Clock  BY <1>1 DEF Init, Clock, Times
<1>3. ThrottleInv  BY <1>1, NothingIsNumbered DEF Init, ThrottleInv, BackofficeConstants
<1>4. RequestsInv
  <2>1. ASSUME NEW r \in net PROVE Good(r, token, now, upAt, Door)
    <3>1. PICK t \in Tabs : r \in Mounted(t, jar)  BY DEF Init
    <3>2. t \in Who /\ jar \in 0 .. token  BY <1>2, TabsAreTabs DEF Clock
    <3> QED BY <1>2, <3>1, <3>2, MountedIsGood
  <2> QED BY <2>1 DEF RequestsInv
<1>5. UpInv /\ ReadInv /\ StatusInv  BY DEF Init, UpInv, ReadInv, StatusInv
<1>6. FlightInv
  <2>1. \A f \in flight : f = [page |-> 1, since |-> 0, born |-> 0] /\ now = 0  BY DEF Init
  <2>2. PageTimeout \in Nat /\ MaxPages \in Nat \ {0} /\ (1 - 1) * PageTimeout = 0
    BY DEF BackofficeConstants
  <2> QED BY <2>1, <2>2 DEF FlightInv
<1> QED BY <1>2, <1>3, <1>4, <1>5, <1>6 DEF BackofficeInv, CachesInv

LEMMA NextIsSound == BackofficeConstants /\ BackofficeInv /\ [Next]_vars => BackofficeInv'
BY NextKeepsClock, NextKeepsThrottle, NextKeepsRequests, NextKeepsCaches DEF BackofficeInv

THEOREM BackofficeSound == Spec => []BackofficeInv
<1>1. Init => BackofficeInv  BY BackofficeConstants, InitIsSound
<1>2. BackofficeInv /\ [Next]_vars => BackofficeInv'  BY BackofficeConstants, NextIsSound
<1> QED BY <1>1, <1>2, PTL DEF Spec

(* An address is locked only by as many wrong tokens, presented since a    *)
(* right one and within the window, as the limit says (makeRateLimiter).   *)
THEOREM OnlyGuessesLock == Spec => []LockedByGuesses
<1>1. BackofficeInv => LockedByGuesses
  <2> SUFFICES ASSUME BackofficeInv, Locked
               PROVE  \E x \in Times : lockedUntil = x + Lockout /\ WrongUpTo(x) >= MaxFailures
    BY DEF LockedByGuesses
  <2>1. now \in Nat  BY BackofficeConstants, NowIsNatural DEF BackofficeInv
  <2>2. lockedUntil # 0  BY <2>1 DEF Locked
  <2> QED BY <2>2 DEF BackofficeInv, ThrottleInv
<1> QED BY <1>1, BackofficeSound, PTL

(* No screen is answered with data older than the caches promise           *)
(* (observations.ts, the status cache of the composer).                    *)
THEOREM FreshAnswers == Spec => []AnswersAreFresh
<1>1. BackofficeInv => AnswersAreFresh
  <2> SUFFICES ASSUME BackofficeInv, NEW r \in net, r.stage = "answered"
               PROVE  /\ r.out = "ok" => r.at <= r.born + Ttl + MaxPages * PageTimeout
                      /\ r.out = "operational" =>
                           \E x \in upAt : x <= r.at /\ r.at <= x + StatusTtl + ProbeTimeout
    BY DEF AnswersAreFresh
  <2>1. Timely(r, now, upAt)  BY OfARequest DEF BackofficeInv
  <2> QED BY <2>1 DEF Timely, Fresh, Promised, ReadTime
<1> QED BY <1>1, BackofficeSound, PTL

(* A browser that holds the current token loses it only to a sign-out, or  *)
(* to the answer of a request that carried another token (server.ts: the   *)
(* clearing and the renewing cookie).                                      *)
THEOREM SessionsEndForAReason == Spec => SessionEndsForAReason
<1>1. BackofficeInv /\ [Next]_vars =>
        (jar = token /\ jar' # jar =>
           \E r \in net \ net' : r.kind = "signout" \/ r.cookie \notin {NoToken, token}
                                   \/ r.presented \notin {NoToken, token})
  <2> SUFFICES ASSUME BackofficeInv, [Next]_vars, jar = token, jar' # jar
               PROVE  \E r \in net \ net' : r.kind = "signout" \/ r.cookie \notin {NoToken, token}
                                              \/ r.presented \notin {NoToken, token}
    OBVIOUS
  <2>1. PICK r \in net : Deliver(r)  BY WhoChangesTheDoor
  <2>2. Clock /\ RequestsInv  BY DEF BackofficeInv
  <2>3. \/ r.kind = "signout" \/ r.cookie \notin {NoToken, token}
        \/ r.presented \notin {NoToken, token}
    BY <2>1, <2>2, DeliverHasAReason
  <2>4. r \notin net'
    <3>1. jar' \in 0 .. token /\ r.tab \in Who  BY <2>1, <2>2, JarAfterAnswer, OfARequest DEF Requests
    <3>2. React(r, r.status, jar') /\ UNCHANGED <<scenario, now, token, upAt>>
          /\ r.stage = "answered"
      BY <2>1 DEF Deliver, probe
    <3> QED BY <2>2, <3>1, <3>2, BackofficeConstants, ReactKeepsRequests
  <2> QED BY <2>3, <2>4
<1>2. BackofficeInv /\ [Next]_vars =>
        [jar = token /\ jar' # jar =>
           \E r \in net \ net' : r.kind = "signout" \/ r.cookie \notin {NoToken, token}
                                   \/ r.presented \notin {NoToken, token}]_vars
  BY <1>1
<1> QED BY <1>2, BackofficeSound, PTL DEF Spec, SessionEndsForAReason
=============================================================================

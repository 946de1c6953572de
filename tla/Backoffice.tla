----------------------------- MODULE Backoffice -----------------------------
(***************************************************************************)
(* The read-only console: its HTTP server (src/backoffice/server.ts,       *)
(* auth.ts, api.ts, cli.ts), the cached reads behind the screens           *)
(* (observations.ts, cost.ts, journal.ts, probes.ts) and the single-page   *)
(* front end (backoffice/src: client.ts, app.tsx, sign-in.tsx,             *)
(* use-async.ts, overview.tsx).                                            *)
(*                                                                         *)
(* One address is modelled: the operator's browser, whose tabs share one   *)
(* cookie jar, and a script that presents a token of its own.  A request   *)
(* is a record in `net' that passes the stages sent, api, waits, answered; *)
(* requests are handled, and answers arrive, in any order.  Scenarios keep *)
(* the instances small: "door" (the sessions of several tabs, rotation,    *)
(* losses), "throttle" (one tab, a script and the clock), both with one    *)
(* plain endpoint; "reads" and "status" (one tab, the caches, the clock)   *)
(* behind an open door.                                                    *)
(***************************************************************************)
EXTENDS Naturals, FiniteSets

CONSTANTS
  Scenarios,    \* subset of {"door", "throttle", "reads", "status"}
  AllTabs,      \* tabs of the operator's browser
  FirstTab,     \* the one that is open outside the "door" scenario
  NoTab,        \* the script, or a request whose page is gone
  MaxClock,     \* per scenario: bound on time
  MaxToken,     \* bound on the token's rotations: tokens are 1..MaxToken
  MaxLosses,    \* bound on requests the network loses
  MaxFailures,  \* wrong tokens that lock an address
  Window,       \* ... when they fall within this time
  Lockout,      \* how long a lock lasts
  Ttl,          \* observations: how long a read is served
  FailureTtl,   \* observations: how long a failure is served
  MaxPages,     \* observations: pages of one read
  PageTimeout,  \* observations: how long a page may take
  StatusTtl,    \* how long a status is served
  ProbeTimeout, \* how long a probe may take
  MaxActs       \* per scenario: bound on pages opened, sign-outs, wrong tokens typed

ASSUME BackofficeConstants ==
  /\ Scenarios \subseteq {"door", "throttle", "reads", "status"} /\ Scenarios # {}
  /\ IsFiniteSet(AllTabs) /\ FirstTab \in AllTabs /\ NoTab \notin AllTabs
  /\ {MaxClock, MaxActs} \subseteq [Scenarios -> Nat]
  /\ {MaxLosses, Lockout, Ttl, FailureTtl, PageTimeout, StatusTtl, ProbeTimeout}
        \subseteq Nat
  /\ {MaxFailures, Window, MaxPages} \subseteq Nat \ {0} /\ MaxToken \in Nat \ {0, 1}

VARIABLES
  scenario,   \* which of them is explored (never changes)
  now,        \* the clock, one unit per tick
  token,      \* the token of the running server
  failures,   \* rate limiter: the counted failures, each <<time, which one at that time>>
  lockedUntil,\* rate limiter: end of the lock, 0 when there is none
  jar,        \* the browser's session cookie, 0 when there is none
  screen,     \* per tab: no page, the console, or the sign-in form
  section,    \* per tab and endpoint: what the card shows
  net,        \* requests and answers under way
  losses,     \* requests the network has lost
  acts,       \* pages opened, sign-outs and wrong tokens typed
  ok,         \* observations: when the served read ended and began, or none
  failed,     \* observations: when the last read failed, or none
  flight,     \* observations: the page being read, since when, or none
  statusCache,\* when the served status was stored, and what it says, or none
  up,         \* the probed service answers
  guesses,    \* history: wrong tokens presented since a right one, as in failures
  upAt        \* history: the times at which the service answered

door  == <<token, failures, lockedUntil, jar, guesses, losses, acts>>
pages == <<screen, section>>
reads == <<ok, failed, flight>>
probe == <<statusCache, up, upAt>>
vars  == <<scenario, now, door, pages, net, reads, probe>>

Tabs      == IF scenario = "door" THEN AllTabs ELSE {FirstTab}
Endpoints == CASE scenario = "reads"  -> {"costs", "logs"}
               [] scenario = "status" -> {"status"}
               [] OTHER               -> {"table"}
Times     == 0..MaxClock[scenario]
Door      == scenario \in {"door", "throttle"}

-----------------------------------------------------------------------------
(* Requests and answers.                                                   *)

NoToken == 0

\* A request as the browser or the script sends it.
Request(t, kind, e, presented, cookie) ==
  [tab |-> t, kind |-> kind, e |-> e, presented |-> presented, cookie |-> cookie,
   stage |-> "sent", status |-> 0, setCookie |-> {}, out |-> "none", born |-> 0, at |-> 0]

\* extractToken: what is presented on this request beats what is stored.
Candidate(r) == IF r.presented # NoToken THEN r.presented ELSE r.cookie

Answer(r, status, setCookie) ==
  [r EXCEPT !.stage = "answered", !.status = status, !.setCookie = setCookie]

\* An answer of the data layer: it carries the renewal the door has decided.
Data(r, status, out, born) ==
  [Answer(r, status, r.setCookie) EXCEPT !.out = out, !.born = born, !.at = now]

\* An answer nobody reads any more is dropped on the floor.
Read(requests) == {r \in requests : r.tab # NoTab \/ r.stage # "answered"}

Replace(r, s) == net' = Read((net \ {r}) \cup {s})

-----------------------------------------------------------------------------
(* The request handler and its throttle (createRequestHandler,             *)
(* makeRateLimiter).                                                       *)

Authed(r)      == Candidate(r) = token
StaleCookie(r) == ~Authed(r) /\ r.presented = NoToken /\ r.cookie # NoToken
Guess(r)       == ~Authed(r) /\ r.presented # NoToken
Locked         == lockedUntil > now

\* Failures that have not aged out, and one more of this moment.
Recent(S)  == {f \in S : f[1] + Window > now}
At(S, x)   == {f \in S : f[1] = x}
Another(S) == S \cup {<<now, Cardinality(At(S, now)) + 1>>}

\* recordFailure, then isLocked, which drops a lock that is over together
\* with what was counted since.
RecordFailure ==
  LET counted == Another(Recent(failures))
      locks   == Cardinality(counted) >= MaxFailures
      over    == ~locks /\ lockedUntil # 0 /\ ~Locked
  IN /\ failures' = IF locks \/ over THEN {} ELSE counted
     /\ lockedUntil' = IF locks THEN now + Lockout ELSE IF over THEN 0 ELSE lockedUntil

Reset == failures' = {} /\ lockedUntil' = 0

\* A right token forgives, a presented wrong one counts, a cookie the browser
\* replays does not.  Mutant: it does.
ThrottleMutant(r) ==
  CASE Authed(r)                    -> Reset
    [] Guess(r) \/ StaleCookie(r)   -> RecordFailure
    [] OTHER                        -> UNCHANGED <<failures, lockedUntil>>

Throttle(r) ==
  CASE Authed(r) -> Reset
    [] Guess(r)  -> RecordFailure
    [] OTHER     -> UNCHANGED <<failures, lockedUntil>>

History(r) ==
  guesses' = IF Authed(r) THEN {}
             ELSE IF Guess(r) /\ Cardinality(At(guesses, now)) < MaxFailures THEN Another(guesses)
             ELSE guesses

\* Every authenticated answer renews the cookie; a stale one is cleared.
\* Mutant: whatever is not signed in is told to drop its cookie.
SetCookieMutant(r) == IF Authed(r) THEN {token} ELSE {NoToken}

SetCookie(r) == IF Authed(r) THEN {token} ELSE IF StaleCookie(r) THEN {NoToken} ELSE {}

\* The shell is public; the rest asks for the token, and the credential is
\* weighed before the lock.  Mutant: the lock is consulted first.
ReplyMutant(r) ==
  CASE r.kind = "shell" -> Answer(r, 200, SetCookie(r))
    [] Locked           -> Answer(r, 429, {})
    [] ~Authed(r)       -> Answer(r, 401, SetCookie(r))
    [] r.kind = "data"  -> [r EXCEPT !.stage = "api", !.setCookie = SetCookie(r)]
    [] OTHER            -> Answer(r, 200, SetCookie(r))

Reply(r) ==
  CASE r.kind = "shell"   -> Answer(r, 200, SetCookie(r))
    [] Guess(r)           -> Answer(r, IF lockedUntil' > now THEN 429 ELSE 401, {})
    [] ~Authed(r)         -> Answer(r, 401, SetCookie(r))
    [] r.kind = "signout" -> Answer(r, 200, {NoToken})
    [] r.kind = "data"    -> [r EXCEPT !.stage = "api", !.setCookie = SetCookie(r)]
    [] OTHER              -> Answer(r, 200, SetCookie(r))

Handle(r) ==
  /\ r.stage = "sent"
  /\ Throttle(r)
  /\ History(r)
  /\ Replace(r, Reply(r))
  /\ UNCHANGED <<scenario, now, token, jar, losses, acts, pages, reads, probe>>

-----------------------------------------------------------------------------
(* The data layer behind the door (createApiRouter).                       *)

\* A plain SELECT answers, or throws and the handler answers 500 without a
\* cookie.
SelectTable(r) ==
  /\ r.stage = "api" /\ r.e = "table"
  /\ \/ Replace(r, Answer(r, 200, r.setCookie))
     \/ Replace(r, Answer(r, 500, {}))
  /\ UNCHANGED <<scenario, now, door, pages, reads, probe>>

\* Costs have no other source and turn 503; logs still list the journal.
Degraded(r) == Data(r, IF r.e = "costs" THEN 503 ELSE 200, "degraded", now)

\* recent(): the last read, the last failure, the read under way, or a new
\* one, in that order.
Observe(r) ==
  /\ r.stage = "api" /\ r.e \in {"costs", "logs"}
  /\ \/ \E v \in ok :
          /\ now < v.at + Ttl
          /\ Replace(r, Data(r, 200, "ok", v.born))
          /\ UNCHANGED flight
     \/ /\ \A v \in ok : now >= v.at + Ttl
        /\ \E x \in failed : now < x + FailureTtl
        /\ Replace(r, Degraded(r))
        /\ UNCHANGED flight
     \/ /\ \A v \in ok : now >= v.at + Ttl
        /\ \A x \in failed : now >= x + FailureTtl
        /\ flight' = IF flight # {} THEN flight ELSE {[page |-> 1, since |-> now, born |-> now]}
        /\ Replace(r, [r EXCEPT !.stage = "waits"])
  /\ UNCHANGED <<scenario, now, door, pages, ok, failed, probe>>

Joined == {r \in net : r.stage = "waits" /\ r.e \in {"costs", "logs"}}

\* loadAll: pages until there is no cursor or the bound is met; everyone who
\* has joined is answered by the one read.
ReadPage ==
  \E f \in flight :
    \/ /\ f.page < MaxPages
       /\ flight' = {[f EXCEPT !.page = @ + 1, !.since = now]}
       /\ UNCHANGED <<net, ok, failed>>
    \/ /\ ok' = {[at |-> now, born |-> f.born]}
       /\ failed' = {}
       /\ flight' = {}
       /\ net' = Read((net \ Joined) \cup {Data(r, 200, "ok", f.born) : r \in Joined})

ReadFails ==
  /\ flight # {}
  /\ flight' = {}
  /\ failed' = {now}
  /\ net' = Read((net \ Joined) \cup {Degraded(r) : r \in Joined})
  /\ UNCHANGED ok

Upstream ==
  /\ ReadPage \/ ReadFails
  /\ UNCHANGED <<scenario, now, door, pages, probe>>

\* The composer's status cache.  Mutant: it never runs out.
ServedStatusMutant == statusCache

ServedStatus == {v \in statusCache : now < v.at + StatusTtl}

\* A run is not shared: every request that misses starts its own.
AskStatus(r) ==
  /\ r.stage = "api" /\ r.e = "status"
  /\ \/ \E v \in ServedStatus : Replace(r, Data(r, 200, v.out, v.born))
     \/ ServedStatus = {} /\ Replace(r, [r EXCEPT !.stage = "waits", !.born = now])
  /\ UNCHANGED <<scenario, now, door, pages, reads, probe>>

Running(r) == r.stage = "waits" /\ r.e = "status"

\* timed: the ping answers, or fails, or the ceiling of the probe is met.
Ping(r) ==
  /\ Running(r) /\ r.out = "none"
  /\ Replace(r, [r EXCEPT !.out = IF up THEN "operational" ELSE "down"])
  /\ UNCHANGED <<scenario, now, door, pages, reads, probe>>

\* The slowest probe of the run is in: cache and answer.
RunEnds(r) ==
  /\ Running(r) /\ r.out # "none"
  /\ statusCache' = {[at |-> now, born |-> r.born, out |-> r.out]}
  /\ Replace(r, Data(r, 200, r.out, r.born))
  /\ UNCHANGED <<scenario, now, door, pages, reads, up, upAt>>

-----------------------------------------------------------------------------
(* The front end.                                                          *)

\* Unmounting a tab's screen aborts its requests: the server may still handle
\* them, nobody reads the answers.
Unmounted(t) ==
  {r \in net : r.tab # t} \cup
  {[r EXCEPT !.tab = NoTab] : r \in {q \in net : q.tab = t /\ q.stage # "answered"}}

\* Mounting a screen fires one request per card (useAsync, OverviewScreen).
Mounted(t, cookie) == {Request(t, "data", e, NoToken, cookie) : e \in Endpoints}

Cards(t, state) == section' = [section EXCEPT ![t] = [e \in Endpoints |-> state]]

Show(t, what) == screen' = [screen EXCEPT ![t] = what]

Acts ==
  /\ acts < MaxActs[scenario]
  /\ acts' = acts + 1

\* A tab loads the shell, from a bookmark that may carry a ?token=, ...
Load(t, query) ==
  /\ Show(t, "blank")
  /\ Cards(t, "none")
  /\ net' = Unmounted(t) \cup {Request(t, "shell", "none", query, jar)}
  /\ UNCHANGED <<scenario, now, token, failures, lockedUntil, jar, guesses, losses, reads, probe>>

Open(t, query) == Acts /\ Load(t, query)

\* ... and is loaded again when the page did not come.
Reload(t) ==
  /\ screen[t] = "blank"
  /\ ~\E r \in net : r.tab = t
  /\ Load(t, NoToken)
  /\ UNCHANGED acts

\* The form is submitted; while it is busy it takes no other token.
SignIn(t, typed) ==
  /\ screen[t] = "form"
  /\ ~\E r \in net : r.tab = t /\ r.kind = "session"
  /\ net' = net \cup {Request(t, "session", "none", typed, jar)}
  /\ IF typed = token THEN UNCHANGED acts ELSE Acts
  /\ UNCHANGED <<scenario, now, token, failures, lockedUntil, jar, guesses, losses,
                 pages, reads, probe>>

SignOut(t) ==
  /\ screen[t] = "console"
  /\ Acts
  /\ ~\E r \in net : r.tab = t /\ r.kind = "signout"
  /\ net' = net \cup {Request(t, "signout", "none", NoToken, jar)}
  /\ UNCHANGED <<scenario, now, token, failures, lockedUntil, jar, guesses, losses,
                 pages, reads, probe>>

\* A script of the same address presents a token and keeps no cookies.
Script(value) ==
  /\ ~\E r \in net : r.kind = "script"
  /\ net' = net \cup {Request(NoTab, "script", "none", value, NoToken)}
  /\ UNCHANGED <<scenario, now, door, pages, reads, probe>>

\* What a tab does with an answer.  A 401 or 429 of any card, and any end of
\* a sign-out, puts up the form; an accepted sign-in mounts the console anew.
React(r, status, cookie) ==
  LET t == r.tab
      left == net \ {r}
  IN CASE r.kind \in {"shell", "session"} /\ status = 200 ->
            /\ Show(t, "console")
            /\ Cards(t, "loading")
            /\ net' = left \cup Mounted(t, cookie)
       [] r.kind = "signout" \/ (r.kind = "data" /\ status \in {401, 429}) ->
            /\ Show(t, "form")
            /\ Cards(t, "none")
            /\ net' = Unmounted(t) \ {r}
       [] r.kind = "data" ->
            /\ section' = [section EXCEPT ![t][r.e] = IF status = 200 THEN "ok" ELSE "error"]
            /\ net' = left
            /\ UNCHANGED screen
       [] OTHER -> net' = left /\ UNCHANGED pages

\* The answer reaches the browser, which keeps or drops the cookie first.
Deliver(r) ==
  /\ r.stage = "answered"
  /\ jar' = IF r.setCookie = {} THEN jar
            ELSE CHOOSE c \in r.setCookie : TRUE
  /\ React(r, r.status, jar')
  /\ UNCHANGED <<scenario, now, token, failures, lockedUntil, guesses, losses, acts, reads, probe>>

\* The fetch fails: a card shows it, the form says so, a sign-out ends anyway.
LostInTransit(r) ==
  /\ r.tab # NoTab /\ r.stage \in {"sent", "answered"}
  /\ losses < MaxLosses
  /\ losses' = losses + 1
  /\ React(r, 0, jar)
  /\ UNCHANGED <<scenario, now, token, failures, lockedUntil, guesses, jar, acts, reads, probe>>

-----------------------------------------------------------------------------
(* The process and the world.                                              *)

\* The token is rotated: the server starts again with an empty throttle, and
\* what it had not answered fails.
Rotate ==
  /\ token < MaxToken
  /\ token' = token + 1
  /\ Reset
  /\ guesses' = {}
  /\ net' = Read({IF r.stage = "answered" THEN r ELSE Answer(r, 0, {}) : r \in net})
  /\ UNCHANGED <<scenario, now, jar, losses, acts, pages, reads, probe>>

\* Time does not pass the ceilings of a page and of a probe.
Tick ==
  /\ now < MaxClock[scenario]
  /\ \A f \in flight : now < f.since + PageTimeout
  /\ \A r \in net : Running(r) => now < r.born + ProbeTimeout
  /\ now' = now + 1
  /\ upAt' = IF up THEN upAt \cup {now + 1} ELSE upAt
  /\ UNCHANGED <<scenario, door, pages, net, reads, statusCache, up>>

ServiceTurns ==
  /\ up' = ~up
  /\ upAt' = IF up' THEN upAt \cup {now} ELSE upAt
  /\ UNCHANGED <<scenario, now, door, pages, net, reads, statusCache>>

-----------------------------------------------------------------------------
\* Every tab shows the console and its cards are being asked for, with the
\* current token in the jar or one that has been rotated away; in "reads" the
\* composer's warm-up read is under way.
Init ==
  /\ scenario \in Scenarios
  /\ now = 0
  /\ token = 2
  /\ failures = {} /\ lockedUntil = 0
  /\ jar \in IF scenario = "throttle" THEN {1} ELSE {2}
  /\ screen = [t \in Tabs |-> "console"]
  /\ section = [t \in Tabs |-> [e \in Endpoints |-> "loading"]]
  /\ net = UNION {Mounted(t, jar) : t \in Tabs}
  /\ losses = 0 /\ acts = 0
  /\ ok = {} /\ failed = {}
  /\ flight = IF scenario = "reads" THEN {[page |-> 1, since |-> 0, born |-> 0]} ELSE {}
  /\ statusCache = {}
  /\ up = TRUE
  /\ guesses = {}
  /\ upAt = {0}

Serve(r) ==
  \/ Handle(r) \/ SelectTable(r) \/ Observe(r) \/ AskStatus(r) \/ Ping(r) \/ RunEnds(r)
  \/ Deliver(r)

Sessions ==
  \/ /\ Door
     /\ \E t \in Tabs :
          \/ SignOut(t) \/ Reload(t)
          \/ \E v \in {1, token} : SignIn(t, v)
          \/ \E q \in {NoToken, 1} : Open(t, q)
  \/ scenario = "throttle" /\ \E v \in {1, token} : Script(v)
  \/ scenario = "door" /\ (Rotate \/ \E r \in net : LostInTransit(r))

Caches ==
  \/ ~Door /\ \E t \in Tabs : Open(t, NoToken)
  \/ Upstream
  \/ scenario = "status" /\ ServiceTurns

Next ==
  \/ \E r \in net : Serve(r)
  \/ Sessions
  \/ Caches
  \/ Tick

\* The server answers, the network delivers what it does not lose, an upstream
\* read ends by its ceiling, and the operator loads a page that did not come
\* again and keeps typing the right token.
Fairness ==
  /\ WF_vars(Upstream)
  /\ \A t \in AllTabs :
       /\ WF_vars(\E r \in net : r.tab = t /\ Serve(r))
       /\ WF_vars(Door /\ t \in Tabs /\ (Reload(t) \/ SignIn(t, token)))

Spec == Init /\ [][Next]_vars /\ Fairness

-----------------------------------------------------------------------------
(* Properties.                                                             *)

WrongUpTo(x) == Cardinality({g \in guesses : g[1] <= x /\ x < g[1] + Window})

\* An address is locked only by as many wrong tokens, typed or sent since a
\* right one and within the window, as the limit says: neither stale cookies
\* nor requests without a credential nor old failures add up to a lock
\* (makeRateLimiter; cli.ts, the two qualifiers of the lockout).
LockedByGuesses ==
  Locked => \E x \in Times : lockedUntil = x + Lockout /\ WrongUpTo(x) >= MaxFailures

\* A browser that holds the current token keeps it, whatever late answers
\* come in, unless it signs out or an answer belongs to a request that still
\* carried another token (server.ts: the clearing and the renewing cookie).
SessionEndsForAReason ==
  [][jar = token /\ jar' # jar =>
       \E r \in net \ net' : r.kind = "signout" \/ r.cookie \notin {NoToken, token}
                               \/ r.presented \notin {NoToken, token}]_vars

\* No screen is answered with data older than the caches promise, although
\* reads overlap with failures and status runs with each other: a cached read
\* began no longer ago than its life and its pages may take, and a service
\* shown as operational has answered within the status's life and its probe.
AnswersAreFresh ==
  \A r \in net : r.stage = "answered" =>
    /\ r.out = "ok" => r.at <= r.born + Ttl + MaxPages * PageTimeout
    /\ r.out = "operational" =>
         \E x \in upAt : x <= r.at /\ r.at <= x + StatusTtl + ProbeTimeout

\* From the sign-in form the operator gets to data, whatever is locked,
\* rotated, stale or guessed meanwhile; and no card loads for ever.
ConsoleComes ==
  \A t \in AllTabs :
    /\ (t \in Tabs /\ screen[t] = "form")
         ~> (t \in Tabs /\ \E e \in Endpoints : section[t][e] \in {"ok", "error"})
    /\ \A e \in {"table", "costs", "logs", "status"} :
         LET Loading == t \in Tabs /\ e \in Endpoints /\ section[t][e] = "loading"
         IN Loading ~> ~Loading
=============================================================================

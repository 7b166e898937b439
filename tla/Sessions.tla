------------------------------ MODULE Sessions ------------------------------
(***************************************************************************)
(* Staying signed in: the sessions the API keeps (httpapi/auth.go), the    *)
(* cookies a browser holds and the web server between them                 *)
(* (hooks.server.ts), which refreshes for all of a browser's requests.     *)
(*                                                                         *)
(* A session's tokens are numbered: its n-th refresh token is n, and the   *)
(* access token that came with it too.  One session is one browser's; apps *)
(* that were given one of its tokens call the API themselves.              *)
(***************************************************************************)
EXTENDS Integers

CONSTANTS
    Sessions,
    Requests,   \* requests of browsers to the web server that may be under way
    Calls,      \* refresh calls to the API that may be under way: a bound
    MaxGen,     \* how often a session is refreshed: a bound
    Copies,     \* whether apps hold copies of a session's tokens
    Losses,     \* whether answers get lost and calls fail
    None

ASSUME SessionsAssumption ==
    /\ MaxGen \in Nat \ {0}
    /\ Copies \in BOOLEAN /\ Losses \in BOOLEAN
    /\ None \notin Sessions \cup Calls

Tokens == 1..MaxGen

VARIABLES
    gen,       \* sessions.refresh_hash: the number of the current token, 0 for no session
    ended,     \* why revoked_at is set: "no", "reused" or "signedout"
    fresh,     \* access_expires_at has not passed
    off,       \* sessions whose person is switched off
    swaps,     \* how often each refresh token was swapped
    refresh,   \* the browser's refresh cookie, 0 for none
    access,    \* its access cookie
    pc,        \* pc[r]: where request r is
    kind,      \* kind[r]: "page", or "signout" for the one that signs out
    whose,     \* whose[r]: the session whose browser sent it
    brought,   \* brought[r]: the refresh cookie it came with
    token,     \* token[r]: the access token it has for the API, 0 for none
    call,      \* call[r]: the refresh call it waits for
    gives,     \* gives[r]: what its answer does to the cookies
    shared,    \* the web server's map `refreshing`: the calls it holds, by their tokens
    step,      \* step[k]: where refresh call k is
    on,        \* on[k]: its session
    with,      \* with[k]: the refresh token it presents
    answer,    \* answer[k]: how it ended
    seen,      \* seen[k]: the token it presented had been swapped before
    excused    \* sessions that were signed out of, switched off, copied or disturbed

rows     == <<gen, ended, fresh, off, swaps>>
cookies  == <<refresh, access>>
requests == <<pc, kind, whose, brought, token, call, gives>>
calls    == <<step, on, with, answer, seen>>
vars     == <<rows, cookies, requests, shared, calls, excused>>

TypeOK ==
    /\ gen \in [Sessions -> Nat]
    /\ ended \in [Sessions -> {"no", "reused", "signedout"}]
    /\ fresh \in [Sessions -> BOOLEAN]
    /\ off \subseteq Sessions
    /\ swaps \in [Sessions -> [Tokens -> Nat]]
    /\ refresh \in [Sessions -> Nat] /\ access \in [Sessions -> Nat]
    /\ pc \in [Requests -> {"idle", "sent", "waiting", "using", "answered"}]
    /\ kind \in [Requests -> {"page", "signout"}]
    /\ whose \in [Requests -> Sessions \cup {None}]
    /\ brought \in [Requests -> Nat] /\ token \in [Requests -> Nat]
    /\ call \in [Requests -> Calls \cup {None}]
    /\ gives \in [Requests -> {"nothing", "session", "clear"}]
    /\ shared \subseteq Calls
    /\ step \in [Calls -> {"free", "rotating", "revoking", "done"}]
    /\ on \in [Calls -> Sessions \cup {None}]
    /\ with \in [Calls -> Nat]
    /\ answer \in [Calls -> {"swapped", "refused", "failed"}]
    /\ seen \in [Calls -> BOOLEAN]
    /\ excused \subseteq Sessions

Init ==
    /\ gen = [s \in Sessions |-> 0]
    /\ ended = [s \in Sessions |-> "no"]
    /\ fresh = [s \in Sessions |-> FALSE]
    /\ off = {}
    /\ swaps = [s \in Sessions |-> [g \in Tokens |-> 0]]
    /\ refresh = [s \in Sessions |-> 0] /\ access = [s \in Sessions |-> 0]
    /\ pc = [r \in Requests |-> "idle"]
    /\ kind = [r \in Requests |-> "page"]
    /\ whose = [r \in Requests |-> None]
    /\ brought = [r \in Requests |-> 0] /\ token = [r \in Requests |-> 0]
    /\ call = [r \in Requests |-> None]
    /\ gives = [r \in Requests |-> "nothing"]
    /\ shared = {}
    /\ step = [k \in Calls |-> "free"]
    /\ on = [k \in Calls |-> None]
    /\ with = [k \in Calls |-> 0]
    /\ answer = [k \in Calls |-> "failed"]
    /\ seen = [k \in Calls |-> FALSE]
    /\ excused = {}

Excuse(s) == excused' = excused \cup {s}

-----------------------------------------------------------------------------
(* Sessions at the API. *)

\* Login or Register, and its cookies: a session of its own each time.
SignIn(s) ==
    /\ gen[s] = 0
    /\ gen' = [gen EXCEPT ![s] = 1]
    /\ fresh' = [fresh EXCEPT ![s] = TRUE]
    /\ refresh' = [refresh EXCEPT ![s] = 1]
    /\ access' = [access EXCEPT ![s] = 1]
    /\ UNCHANGED <<ended, off, swaps, requests, shared, calls, excused>>

\* SessionByAccess: whether the API knows an access token.
Known(s, g) == g = gen[s] /\ fresh[s] /\ ended[s] = "no" /\ s \notin off

\* Mutant: the token before the current one is good for another swap.
CurrentOrBefore(k) ==
    with[k] \in {gen[on[k]], gen[on[k]] - 1} /\ ended[on[k]] = "no" /\ on[k] \notin off

\* RotateSession's WHERE.
Current(k) == with[k] = gen[on[k]] /\ ended[on[k]] = "no" /\ on[k] \notin off

\* RotateSession: swaps the tokens of the session whose refresh token this is, if any.
Rotate(k) ==
    LET s == on[k] IN
    /\ step[k] = "rotating"
    /\ seen' = [seen EXCEPT ![k] = with[k] \in Tokens /\ swaps[s][with[k]] > 0]
    /\ IF Current(k)
       THEN /\ gen' = [gen EXCEPT ![s] = gen[s] + 1]
            /\ fresh' = [fresh EXCEPT ![s] = TRUE]
            /\ swaps' = [swaps EXCEPT ![s][with[k]] = swaps[s][with[k]] + 1]
            /\ step' = [step EXCEPT ![k] = "done"]
            /\ \/ answer' = [answer EXCEPT ![k] = "swapped"] /\ UNCHANGED excused
               \/ Losses /\ answer' = [answer EXCEPT ![k] = "failed"] /\ Excuse(s)
       ELSE /\ step' = [step EXCEPT ![k] = "revoking"]
            /\ UNCHANGED <<gen, fresh, swaps, answer, excused>>
    /\ UNCHANGED <<ended, off, cookies, requests, shared, on, with>>

\* RevokeReusedSession: only the token swapped last is recognised as one that was swapped.
Revoke(k) ==
    LET s == on[k] IN
    /\ step[k] = "revoking"
    /\ ended' = IF with[k] = gen[s] - 1 /\ ended[s] = "no"
                THEN [ended EXCEPT ![s] = "reused"] ELSE ended
    /\ step' = [step EXCEPT ![k] = "done"]
    /\ answer' = [answer EXCEPT ![k] = "refused"]
    /\ UNCHANGED <<gen, fresh, off, swaps, cookies, requests, shared, on, with, seen, excused>>

\* The call does not reach the API, or an error comes back: the limiter's, or a failure.
CallFails(k) ==
    /\ Losses
    /\ step[k] \in {"rotating", "revoking"}
    /\ step' = [step EXCEPT ![k] = "done"]
    /\ \E a \in {"failed", "refused"} : answer' = [answer EXCEPT ![k] = a]
    /\ Excuse(on[k])
    /\ UNCHANGED <<rows, cookies, requests, shared, on, with, seen>>

\* A call that nothing refers to any more.
Unused(k) ==
    /\ step[k] \in {"free", "done"}
    /\ k \notin shared
    /\ \A r \in Requests : call[r] # k

Start(k, s, g) ==
    /\ Unused(k)
    /\ step' = [step EXCEPT ![k] = "rotating"]
    /\ on' = [on EXCEPT ![k] = s]
    /\ with' = [with EXCEPT ![k] = g]
    /\ answer' = [answer EXCEPT ![k] = "failed"]
    /\ seen' = [seen EXCEPT ![k] = FALSE]

\* An app refreshes with a token it has, however old.
AppRefresh(k, s, g) ==
    /\ Copies
    /\ g <= gen[s] /\ gen[s] < MaxGen
    /\ Start(k, s, g)
    /\ Excuse(s)
    /\ UNCHANGED <<rows, cookies, requests, shared>>

\* UpdateStaff switches someone off, or on again.
SwitchOff(s) ==
    /\ gen[s] > 0
    /\ off' = IF s \in off THEN off \ {s} ELSE off \cup {s}
    /\ Excuse(s)
    /\ UNCHANGED <<gen, ended, fresh, swaps, cookies, requests, shared, calls>>

\* The access cookie goes half a minute before its token does.  A request under way since
\* before the browser's last refresh has then been under way for a quarter of an hour.
CookieGoes(s) ==
    /\ access[s] > 0
    /\ gen[s] < MaxGen
    /\ access' = [access EXCEPT ![s] = 0]
    /\ IF \E r \in Requests : pc[r] # "idle" /\ whose[r] = s /\ brought[r] < refresh[s]
       THEN Excuse(s) ELSE UNCHANGED excused
    /\ UNCHANGED <<rows, refresh, requests, shared, calls>>

\* A request that has the token then, or had the one it replaced, is late as well.
TokenGoes(s) ==
    /\ fresh[s]
    /\ access[s] # gen[s]
    /\ fresh' = [fresh EXCEPT ![s] = FALSE]
    /\ IF \E r \in Requests : 
            pc[r] # "idle" /\ whose[r] = s /\ gen[s] \in {token[r], brought[r] + 1}
       THEN Excuse(s) ELSE UNCHANGED excused
    /\ UNCHANGED <<gen, ended, off, swaps, cookies, requests, shared, calls>>

-----------------------------------------------------------------------------
(* The web server. *)

\* A browser sends a request with the cookies it has.
Send(r, s, what) ==
    /\ pc[r] = "idle"
    /\ refresh[s] > 0
    /\ pc' = [pc EXCEPT ![r] = "sent"]
    /\ kind' = [kind EXCEPT ![r] = what]
    /\ whose' = [whose EXCEPT ![r] = s]
    /\ brought' = [brought EXCEPT ![r] = refresh[s]]
    /\ token' = [token EXCEPT ![r] = access[s]]
    /\ UNCHANGED <<call, gives, rows, cookies, shared, calls, excused>>

\* Mutant: every request refreshes for itself.
RefreshesNone(s, g) == {k \in shared : on[k] # on[k] /\ on[k] = s /\ with[k] = g}

\* What refreshOnce finds: a refresh with this token under way, or answered a moment ago.
Refreshes(s, g) == {k \in shared : on[k] = s /\ with[k] = g}

\* handle: a request without an access cookie has its refresh token swapped first.
Handle(r) ==
    LET s == whose[r] IN
    /\ pc[r] = "sent"
    /\ \/ /\ token[r] > 0
          /\ pc' = [pc EXCEPT ![r] = "using"]
          /\ UNCHANGED <<call, shared, calls>>
       \/ /\ token[r] = 0
          /\ pc' = [pc EXCEPT ![r] = "waiting"]
          /\ \E k \in Calls :
              /\ call' = [call EXCEPT ![r] = k]
              /\ \/ k \in Refreshes(s, brought[r]) /\ UNCHANGED <<shared, calls>>
                 \/ /\ Refreshes(s, brought[r]) = {}
                    /\ Start(k, s, brought[r])
                    /\ shared' = shared \cup {k}
    /\ UNCHANGED <<rows, cookies, kind, whose, brought, token, gives, excused>>

\* Mutant: what became of the refresh is passed on as it is.
CookieWordRaw(a) == a

\* What a refresh does to the browser's cookies: an error leaves them.
CookieWord(a) ==
    CASE a = "swapped" -> "session" [] a = "refused" -> "clear" [] a = "failed" -> "nothing"

\* Mutant: a refusal is waited out as if it were still to come.
ResumeSwapped(r) ==
    /\ pc[r] = "waiting"
    /\ step[call[r]] = "done" /\ answer[call[r]] = "swapped"
    /\ call' = [call EXCEPT ![r] = None]
    /\ token' = [token EXCEPT ![r] = brought[r] + 1]
    /\ gives' = [gives EXCEPT ![r] = "session"]
    /\ pc' = [pc EXCEPT ![r] = "using"]
    /\ UNCHANGED <<rows, cookies, kind, whose, brought, shared, calls, excused>>

\* The refresh is answered: a session to keep, none, or an error, which is the answer.
Resume(r) ==
    LET a == answer[call[r]] IN
    /\ pc[r] = "waiting"
    /\ step[call[r]] = "done"
    /\ call' = [call EXCEPT ![r] = None]
    /\ token' = [token EXCEPT ![r] = IF a = "swapped" THEN brought[r] + 1 ELSE 0]
    /\ gives' = [gives EXCEPT ![r] = CookieWord(a)]
    /\ pc' = [pc EXCEPT ![r] = IF a = "failed" THEN "answered" ELSE "using"]
    /\ UNCHANGED <<rows, cookies, kind, whose, brought, shared, calls, excused>>

\* The page asks the API who is calling, or signs out: "Signed out here whatever the API says".
Use(r) ==
    LET s == whose[r] IN
    /\ pc[r] = "using"
    /\ pc' = [pc EXCEPT ![r] = "answered"]
    /\ IF kind[r] = "signout"
       THEN /\ ended' = IF Known(s, token[r]) THEN [ended EXCEPT ![s] = "signedout"] ELSE ended
            /\ gives' = [gives EXCEPT ![r] = "clear"]
            /\ Excuse(s)
       ELSE UNCHANGED <<ended, gives, excused>>
    /\ UNCHANGED <<gen, fresh, off, swaps, cookies, kind, whose, brought, token, call, shared, calls>>

Forgotten(r) ==
    /\ pc' = [pc EXCEPT ![r] = "idle"]
    /\ kind' = [kind EXCEPT ![r] = "page"]
    /\ whose' = [whose EXCEPT ![r] = None]
    /\ brought' = [brought EXCEPT ![r] = 0]
    /\ token' = [token EXCEPT ![r] = 0]
    /\ gives' = [gives EXCEPT ![r] = "nothing"]

\* saveSession's refresh cookie.
Swapped(r) == brought[r] + 1

\* The answer reaches the browser and changes its cookies.
Receive(r) ==
    LET s == whose[r] IN
    /\ pc[r] = "answered"
    /\ refresh' = CASE gives[r] = "session" -> [refresh EXCEPT ![s] = Swapped(r)]
                    [] gives[r] = "clear"   -> [refresh EXCEPT ![s] = 0]
                    [] gives[r] = "nothing" -> refresh
    /\ access' = CASE gives[r] = "session" -> [access EXCEPT ![s] = brought[r] + 1]
                   [] gives[r] = "clear"   -> [access EXCEPT ![s] = 0]
                   [] gives[r] = "nothing" -> access
    /\ Forgotten(r)
    /\ UNCHANGED <<rows, call, shared, calls, excused>>

\* The browser has gone on to another page, or lost its connection.
Lose(r) ==
    /\ Losses
    /\ pc[r] = "answered"
    /\ Excuse(whose[r])
    /\ Forgotten(r)
    /\ UNCHANGED <<rows, cookies, call, shared, calls>>

\* A browser still has this token, or a request is on its way with it.
Held(s, g) ==
    \/ refresh[s] = g
    \/ \E r \in Requests : pc[r] = "sent" /\ whose[r] = s /\ brought[r] = g /\ token[r] = 0

\* Thirty seconds after it began, a refresh is forgotten.  Whoever still has the token has
\* then been waiting that long.
Forget(k) ==
    /\ k \in shared
    /\ shared' = shared \ {k}
    /\ IF Held(on[k], with[k]) THEN Excuse(on[k]) ELSE UNCHANGED excused
    /\ UNCHANGED <<rows, cookies, requests, calls>>

-----------------------------------------------------------------------------
Next ==
    \/ \E s \in Sessions : SignIn(s) \/ SwitchOff(s) \/ CookieGoes(s) \/ TokenGoes(s)
    \/ \E k \in Calls : Rotate(k) \/ Revoke(k) \/ CallFails(k) \/ Forget(k)
    \/ \E k \in Calls, s \in Sessions, g \in Tokens : AppRefresh(k, s, g)
    \/ \E r \in Requests, s \in Sessions, what \in {"page", "signout"} : Send(r, s, what)
    \/ \E r \in Requests : Handle(r) \/ Resume(r) \/ Use(r) \/ Receive(r) \/ Lose(r)

Spec == Init /\ [][Next]_vars

\* The two servers go on with what they have begun, and the timer fires.
Fairness ==
    /\ \A k \in Calls : WF_vars(Rotate(k)) /\ WF_vars(Revoke(k)) /\ WF_vars(Forget(k))
    /\ \A r \in Requests :
        WF_vars(Handle(r)) /\ WF_vars(Resume(r)) /\ WF_vars(Use(r)) /\ WF_vars(Receive(r))

-----------------------------------------------------------------------------
(* Properties. *)

\* Each refresh token works once, whoever presents it and however often at once.
WorksOnce == \A s \in Sessions, g \in Tokens : swaps[s][g] <= 1

Quiet(s) == \A r \in Requests : whose[r] # s

\* A browser's own requests never sign it out: while nothing was lost or late, nobody else
\* used its tokens and nobody signed out, its session is open, and between requests the
\* browser holds the token that works, however many requests refreshed at once.
StaysSignedIn ==
    \A s \in Sessions : gen[s] > 0 /\ s \notin excused =>
        /\ ended[s] = "no"
        /\ Quiet(s) => refresh[s] = gen[s]

\* Every request is answered, those that share another's refresh too.
Answered == \A r \in Requests : pc[r] = "sent" ~> pc[r] = "idle"

\* "Using one twice signs that session out everywhere."
ReuseEnds ==
    \A k \in Calls :
        step[k] = "done" /\ answer[k] = "refused" /\ seen[k] => ended[on[k]] # "no"
=============================================================================

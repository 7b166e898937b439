-------------------------- MODULE Sessions_proofs --------------------------
(* Machine-checked proofs about Sessions, for every size of its constants. *)
EXTENDS Sessions, TLAPS

USE SessionsAssumption

\* A refresh under way is of a session, and a request under way is of a browser's.
AtWork ==
    /\ \A k \in Calls : step[k] # "free" => on[k] \in Sessions
    /\ \A k \in shared : step[k] # "free"
    /\ \A r \in Requests : pc[r] # "idle" => whose[r] \in Sessions
    /\ \A r \in Requests : pc[r] = "waiting" => call[r] \in Calls

\* A token that was swapped is older than the current one, and was swapped once.
SwapInv ==
    \A s \in Sessions, g \in Tokens :
        /\ g < gen[s] => swaps[s][g] = 1
        /\ ~(g < gen[s]) => swaps[s][g] = 0

\* A call that starts is of the session it was started for.
LEMMA StartType ==
    ASSUME TypeOK, AtWork, NEW k \in Calls, NEW s \in Sessions, NEW g \in Nat, Start(k, s, g)
    PROVE  /\ step' \in [Calls -> {"free", "rotating", "revoking", "done"}]
           /\ on' \in [Calls -> Sessions \cup {None}]
           /\ with' \in [Calls -> Nat]
           /\ answer' \in [Calls -> {"swapped", "refused", "failed"}]
           /\ seen' \in [Calls -> BOOLEAN]
           /\ \A j \in Calls : step'[j] # "free" => on'[j] \in Sessions
<1>1. /\ step' = [step EXCEPT ![k] = "rotating"] /\ on' = [on EXCEPT ![k] = s]
      /\ with' = [with EXCEPT ![k] = g] /\ answer' = [answer EXCEPT ![k] = "failed"]
      /\ seen' = [seen EXCEPT ![k] = FALSE]
  BY DEF Start
<1>2. /\ step' \in [Calls -> {"free", "rotating", "revoking", "done"}]
      /\ on' \in [Calls -> Sessions \cup {None}] /\ with' \in [Calls -> Nat]
      /\ answer' \in [Calls -> {"swapped", "refused", "failed"}]
  BY <1>1 DEF TypeOK
<1>3. seen' \in [Calls -> BOOLEAN]
  BY <1>1 DEF TypeOK
<1>4. \A j \in Calls : step'[j] # "free" => on'[j] \in Sessions
  BY <1>1 DEF TypeOK, AtWork
<1>. QED
  BY <1>2, <1>3, <1>4

LEMMA TypeStep == TypeOK /\ AtWork /\ [Next]_vars => TypeOK' /\ AtWork'
<1> SUFFICES ASSUME TypeOK, AtWork, [Next]_vars PROVE TypeOK' /\ AtWork'
  OBVIOUS
<1>. USE DEF TypeOK, AtWork, rows, cookies, requests, calls, Excuse
<1>1. ASSUME NEW s \in Sessions, SignIn(s) PROVE TypeOK' /\ AtWork'
  BY <1>1 DEF SignIn
<1>2. ASSUME NEW s \in Sessions, SwitchOff(s) PROVE TypeOK' /\ AtWork'
  BY <1>2 DEF SwitchOff
<1>3. ASSUME NEW s \in Sessions, CookieGoes(s) PROVE TypeOK' /\ AtWork'
  BY <1>3 DEF CookieGoes
<1>4. ASSUME NEW s \in Sessions, TokenGoes(s) PROVE TypeOK' /\ AtWork'
  BY <1>4 DEF TokenGoes
<1>5. ASSUME NEW k \in Calls, Rotate(k) PROVE TypeOK' /\ AtWork'
  <2>1. on[k] \in Sessions
    BY <1>5 DEF Rotate
  <2>2. gen' \in [Sessions -> Nat] /\ fresh' \in [Sessions -> BOOLEAN]
    <3>1. CASE Current(k)
      <4>1. gen' = [gen EXCEPT ![on[k]] = gen[on[k]] + 1]
        BY <1>5, <3>1 DEF Rotate
      <4>2. fresh' = [fresh EXCEPT ![on[k]] = TRUE]
        BY <1>5, <3>1 DEF Rotate
      <4>. QED BY <2>1, <4>1, <4>2
    <3>2. CASE ~Current(k)
      <4>1. gen' = gen /\ fresh' = fresh
        BY <1>5, <3>2 DEF Rotate
      <4>. QED BY <4>1
    <3>. QED BY <3>1, <3>2
  <2>3. swaps' \in [Sessions -> [Tokens -> Nat]]
    <3>1. CASE swaps' = swaps
      BY <3>1
    <3>2. CASE swaps' = [swaps EXCEPT ![on[k]][with[k]] = swaps[on[k]][with[k]] + 1]
      <4>1. swaps[on[k]] \in [Tokens -> Nat]
        BY <2>1
      <4>2. CASE with[k] \in Tokens
        BY <2>1, <3>2, <4>1, <4>2
      <4>3. CASE with[k] \notin Tokens
        BY <2>1, <3>2, <4>1, <4>3
      <4>. QED BY <4>2, <4>3
    <3>. QED BY <1>5, <3>1, <3>2, ZenonT(30) DEF Rotate
  <2>4. seen' \in [Calls -> BOOLEAN]
    <3>1. (with[k] \in Tokens /\ swaps[on[k]][with[k]] > 0) \in BOOLEAN
      OBVIOUS
    <3>. QED BY <1>5, <3>1 DEF Rotate
  <2>5. /\ step' \in [Calls -> {"free", "rotating", "revoking", "done"}]
        /\ answer' \in [Calls -> {"swapped", "refused", "failed"}]
        /\ excused' \subseteq Sessions
    <3>1. CASE Current(k)
      <4>1. step' = [step EXCEPT ![k] = "done"]
        BY <1>5, <3>1 DEF Rotate
      <4>2. \/ answer' = [answer EXCEPT ![k] = "swapped"] /\ excused' = excused
            \/ answer' = [answer EXCEPT ![k] = "failed"] /\ excused' = excused \cup {on[k]}
        BY <1>5, <3>1 DEF Rotate
      <4>. QED BY <2>1, <4>1, <4>2
    <3>2. CASE ~Current(k)
      BY <1>5, <2>1, <3>2 DEF Rotate
    <3>. QED BY <3>1, <3>2
  <2>6. AtWork'
    BY <1>5, <2>1 DEF Rotate
  <2>. QED BY <1>5, <2>2, <2>3, <2>4, <2>5, <2>6 DEF Rotate
<1>6. ASSUME NEW k \in Calls, Revoke(k) PROVE TypeOK' /\ AtWork'
  BY <1>6 DEF Revoke
<1>7. ASSUME NEW k \in Calls, CallFails(k) PROVE TypeOK' /\ AtWork'
  BY <1>7 DEF CallFails
<1>8. ASSUME NEW k \in Calls, NEW s \in Sessions, NEW g \in Tokens, AppRefresh(k, s, g)
      PROVE  TypeOK' /\ AtWork'
  <2>1. /\ step' \in [Calls -> {"free", "rotating", "revoking", "done"}]
        /\ on' \in [Calls -> Sessions \cup {None}] /\ with' \in [Calls -> Nat]
        /\ answer' \in [Calls -> {"swapped", "refused", "failed"}]
        /\ seen' \in [Calls -> BOOLEAN]
        /\ \A j \in Calls : step'[j] # "free" => on'[j] \in Sessions
    <3>1. g \in Nat /\ Start(k, s, g)
      BY <1>8 DEF AppRefresh, Tokens
    <3>. HIDE DEF TypeOK, AtWork
    <3>. QED BY <3>1, StartType
  <2>2. \A j \in shared : step'[j] # "free"
    BY <1>8 DEF AppRefresh, Start
  <2>. QED BY <1>8, <2>1, <2>2 DEF AppRefresh
<1>9. ASSUME NEW r \in Requests, NEW s \in Sessions, NEW what \in {"page", "signout"},
             Send(r, s, what)
      PROVE  TypeOK' /\ AtWork'
  BY <1>9 DEF Send
<1>10. ASSUME NEW r \in Requests, Handle(r) PROVE TypeOK' /\ AtWork'
  <2>1. whose[r] \in Sessions /\ brought[r] \in Nat
    BY <1>10 DEF Handle
  <2>2. /\ pc' \in [Requests -> {"idle", "sent", "waiting", "using", "answered"}]
        /\ \A x \in Requests : pc'[x] # "idle" => whose'[x] \in Sessions
    BY <1>10, <2>1 DEF Handle
  <2>3. CASE UNCHANGED <<call, shared, calls>>
    BY <1>10, <2>2, <2>3 DEF Handle
  <2>4. ASSUME NEW k \in Calls, call' = [call EXCEPT ![r] = k], UNCHANGED <<shared, calls>>
        PROVE  TypeOK' /\ AtWork'
    BY <1>10, <2>2, <2>4 DEF Handle
  <2>5. ASSUME NEW k \in Calls, Start(k, whose[r], brought[r]),
               call' = [call EXCEPT ![r] = k], shared' = shared \cup {k}
        PROVE  TypeOK' /\ AtWork'
    <3>1. /\ step' \in [Calls -> {"free", "rotating", "revoking", "done"}]
          /\ on' \in [Calls -> Sessions \cup {None}] /\ with' \in [Calls -> Nat]
          /\ answer' \in [Calls -> {"swapped", "refused", "failed"}]
          /\ seen' \in [Calls -> BOOLEAN]
          /\ \A j \in Calls : step'[j] # "free" => on'[j] \in Sessions
      BY <2>1, <2>5, StartType
    <3>3. \A j \in shared' : step'[j] # "free"
      BY <2>5 DEF Start
    <3>2. call' \in [Requests -> Calls \cup {None}] /\ shared' \subseteq Calls
      BY <2>5
    <3>4. UNCHANGED <<rows, cookies, kind, whose, brought, token, gives, excused>>
      BY <1>10 DEF Handle
    <3>5. AtWork'
      BY <1>10, <2>2, <2>5, <3>1, <3>3, <3>4 DEF Handle
    <3>. QED BY <2>2, <3>1, <3>2, <3>4, <3>5
  <2>. QED BY <1>10, <2>3, <2>4, <2>5 DEF Handle
<1>11. ASSUME NEW r \in Requests, Resume(r) PROVE TypeOK' /\ AtWork'
  <2>1. /\ pc' \in [Requests -> {"idle", "sent", "waiting", "using", "answered"}]
        /\ \A x \in Requests : pc'[x] # "idle" => whose'[x] \in Sessions
    BY <1>11 DEF Resume
  <2>2. token' \in [Requests -> Nat] /\ call' \in [Requests -> Calls \cup {None}]
    BY <1>11 DEF Resume
  <2>3. answer[call[r]] \in {"swapped", "refused", "failed"}
    BY <1>11 DEF Resume
  <2>4. gives' \in [Requests -> {"nothing", "session", "clear"}]
    BY <1>11, <2>3 DEF Resume, CookieWord
  <2>. QED BY <1>11, <2>1, <2>2, <2>4, SMTT(30) DEF Resume
<1>12. ASSUME NEW r \in Requests, Use(r) PROVE TypeOK' /\ AtWork'
  <2>1. /\ pc' \in [Requests -> {"idle", "sent", "waiting", "using", "answered"}]
        /\ \A x \in Requests : pc'[x] # "idle" => whose'[x] \in Sessions
    BY <1>12 DEF Use
  <2>2. /\ ended' \in [Sessions -> {"no", "reused", "signedout"}]
        /\ gives' \in [Requests -> {"nothing", "session", "clear"}]
        /\ excused' \subseteq Sessions
    <3>1. whose[r] \in Sessions
      BY <1>12 DEF Use
    <3>2. CASE kind[r] = "signout"
      BY <1>12, <3>1, <3>2 DEF Use
    <3>3. CASE kind[r] # "signout"
      BY <1>12, <3>3 DEF Use
    <3>. QED BY <3>2, <3>3
  <2>. QED BY <1>12, <2>1, <2>2 DEF Use
<1>13. ASSUME NEW r \in Requests, Receive(r) PROVE TypeOK' /\ AtWork'
  BY <1>13 DEF Receive, Forgotten, Swapped
<1>14. ASSUME NEW r \in Requests, Lose(r) PROVE TypeOK' /\ AtWork'
  BY <1>14 DEF Lose, Forgotten
<1>15. ASSUME NEW k \in Calls, Forget(k) PROVE TypeOK' /\ AtWork'
  <2>1. on[k] \in Sessions
    BY <1>15 DEF Forget
  <2>. QED BY <1>15, <2>1 DEF Forget
<1>16. CASE UNCHANGED vars
  BY <1>16 DEF vars
<1>. HIDE DEF TypeOK, AtWork
<1>. QED
  BY <1>1, <1>2, <1>3, <1>4, <1>5, <1>6, <1>7, <1>8, <1>9, <1>10, <1>11, <1>12, <1>13, <1>14,
     <1>15, <1>16 DEF Next

\* Every variable keeps its type, and a refresh under way has a session.
THEOREM TypeCorrect == Spec => [](TypeOK /\ AtWork)
<1>1. Init => TypeOK /\ AtWork
  BY DEF Init, TypeOK, AtWork
<1>. QED
  BY <1>1, TypeStep, PTL DEF Spec

LEMMA SwapStep == TypeOK /\ AtWork /\ SwapInv /\ [Next]_vars => SwapInv'
<1> SUFFICES ASSUME TypeOK, AtWork, SwapInv, [Next]_vars PROVE SwapInv'
  OBVIOUS
<1>1. ASSUME NEW k \in Calls, Rotate(k), Current(k) PROVE SwapInv'
  <2>1. PICK s \in Sessions : s = on[k]
    BY <1>1 DEF AtWork, Rotate
  <2>2. /\ gen' = [gen EXCEPT ![s] = gen[s] + 1]
        /\ swaps' = [swaps EXCEPT ![s][gen[s]] = swaps[s][gen[s]] + 1]
    BY <1>1, <2>1 DEF Rotate, Current
  <2>3. ASSUME NEW x \in Sessions, NEW g \in Tokens
        PROVE  /\ g < gen'[x] => swaps'[x][g] = 1
               /\ ~(g < gen'[x]) => swaps'[x][g] = 0
    <3>1. CASE x # s
      BY <2>2, <3>1 DEF TypeOK, SwapInv
    <3>2. CASE x = s /\ g # gen[s]
      BY <2>2, <3>2 DEF TypeOK, SwapInv, Tokens
    <3>3. CASE x = s /\ g = gen[s]
      <4>1. swaps[s][g] = 0 /\ swaps[s] \in [Tokens -> Nat] /\ gen[s] \in Nat /\ g \in Nat
        BY <3>3 DEF TypeOK, SwapInv, Tokens
      <4>2. gen'[x] = g + 1 /\ swaps'[x][g] = 1
        BY <2>2, <3>3, <4>1 DEF TypeOK
      <4>. QED BY <4>1, <4>2
    <3>. QED BY <3>1, <3>2, <3>3
  <2>. QED BY <2>3 DEF SwapInv
<1>2. ASSUME NEW s \in Sessions, SignIn(s) PROVE SwapInv'
  <2>1. gen[s] = 0 /\ gen' = [gen EXCEPT ![s] = 1] /\ swaps' = swaps
    BY <1>2 DEF SignIn, rows
  <2>. QED BY <2>1 DEF SwapInv, TypeOK, Tokens
<1>3. \/ UNCHANGED <<gen, swaps>>
      \/ \E k \in Calls : Rotate(k) /\ Current(k)
      \/ \E s \in Sessions : SignIn(s)
  BY DEF Next, Rotate, Revoke, CallFails, AppRefresh, Send, Handle, Resume, Use, Receive, Lose,
         Forget, SwitchOff, CookieGoes, TokenGoes, rows, vars
<1>4. CASE UNCHANGED <<gen, swaps>>
  BY <1>4 DEF SwapInv
<1>. QED
  BY <1>1, <1>2, <1>3, <1>4

\* A refresh token is swapped at most once, however many browsers, apps and calls present it.
THEOREM TokensWorkOnce == Spec => []WorksOnce
<1>1. Init => SwapInv
  BY DEF Init, SwapInv, Tokens
<1>2. TypeOK /\ SwapInv => WorksOnce
  <2> SUFFICES ASSUME TypeOK, SwapInv, NEW s \in Sessions, NEW g \in Tokens
               PROVE  swaps[s][g] <= 1
    BY DEF WorksOnce
  <2>. QED BY DEF SwapInv
<1>. QED
  BY <1>1, <1>2, SwapStep, TypeCorrect, PTL DEF Spec

-----------------------------------------------------------------------------
(* A browser stays signed in. *)

\* The rows and cookies of a session that keeps its browser signed in: at most one refresh
\* ahead of the browser, and then the browser has no access cookie.
KeptRow(s) ==
    /\ ended[s] = "no" /\ s \notin off
    /\ gen[s] = 0 => refresh[s] = 0 /\ (\A r \in Requests : whose[r] # s) /\ (\A k \in Calls : on[k] # s)
    /\ gen[s] > 0 => /\ refresh[s] > 0 /\ gen[s] \in {refresh[s], refresh[s] + 1} /\ access[s] \in {0, refresh[s]}
                     /\ gen[s] = refresh[s] + 1 => access[s] = 0

\* A request of its browser has the cookies the browser has, or had before its last refresh.
KeptRequest(s, r) ==
    whose[r] = s =>
        /\ pc[r] # "idle" /\ brought[r] \in {refresh[s], refresh[s] - 1}
        /\ access[s] = 0 => brought[r] = refresh[s]
        /\ pc[r] \in {"sent", "waiting"} =>
              gives[r] = "nothing" /\ (token[r] = 0 /\ brought[r] = refresh[s] => access[s] = 0)
        /\ pc[r] = "waiting" => token[r] = 0 /\ on[call[r]] = s /\ with[call[r]] = brought[r]
        /\ gives[r] \in {"nothing", "session"} /\ (gives[r] = "session" => brought[r] < gen[s])

\* A call for it has swapped a token, or will swap the current one, which a request waits for.
KeptCall(s, k) ==
    on[k] = s =>
        \/ /\ step[k] = "rotating" /\ k \in shared /\ with[k] = gen[s] /\ with[k] = refresh[s]
           /\ \E r \in Requests : whose[r] = s /\ pc[r] = "waiting" /\ call[r] = k
        \/ step[k] = "done" /\ answer[k] = "swapped" /\ with[k] < gen[s]

\* The web server holds one call for a token, and one for each token that was swapped and that
\* the browser or a request on its way still has.
KeptShared(s) ==
    /\ \A j, k \in shared : on[j] = s /\ on[k] = s /\ with[j] = with[k] => j = k
    /\ \A b \in Nat : Held(s, b) /\ b < gen[s] => \E k \in shared : on[k] = s /\ with[k] = b

\* A token the browser has not got yet is on its way to it.
KeptOnItsWay(s) ==
    gen[s] = refresh[s] + 1 =>
        \E r \in Requests : /\ whose[r] = s /\ brought[r] = refresh[s]
                            /\ pc[r] = "waiting" \/ (pc[r] \in {"using", "answered"} /\ gives[r] = "session")

Kept(s) ==
    /\ KeptRow(s) /\ KeptShared(s) /\ KeptOnItsWay(s)
    /\ \A r \in Requests : KeptRequest(s, r)
    /\ \A k \in Calls : KeptCall(s, k)

KeepInv == \A s \in Sessions \ excused : Kept(s)

\* A request at rest is of no browser, and has nothing to give to one.
AtRest == \A r \in Requests : pc[r] = "idle" => whose[r] = None /\ gives[r] = "nothing"

\* What a step leaves of a session's rows, cookies, requests and calls keeps it.
LEMMA Elsewhere ==
    ASSUME TypeOK, AtWork, NEW s \in Sessions, Kept(s),
           gen'[s] = gen[s], ended'[s] = ended[s], s \notin off', refresh'[s] = refresh[s], access'[s] = access[s],
           \A r \in Requests : whose'[r] = s <=> whose[r] = s,
           \A r \in Requests : whose[r] = s =>
               /\ pc'[r] = pc[r] /\ brought'[r] = brought[r] /\ token'[r] = token[r]
               /\ gives'[r] = gives[r] /\ call'[r] = call[r],
           \A k \in Calls : on'[k] = s =>
               /\ on[k] = s /\ step'[k] = step[k] /\ with'[k] = with[k] /\ answer'[k] = answer[k]
               /\ k \in shared' <=> k \in shared,
           \A k \in Calls : on[k] = s /\ (k \in shared \/ \E r \in Requests : whose[r] = s /\ pc[r] = "waiting" /\ call[r] = k)
               => on'[k] = s,
           shared' \subseteq Calls
    PROVE  Kept(s)'
<1>1. KeptRow(s)'
  BY DEF Kept, KeptRow
<1>2. \A r \in Requests : KeptRequest(s, r)'
  <2> SUFFICES ASSUME NEW r \in Requests PROVE KeptRequest(s, r)'
    OBVIOUS
  <2>1. KeptRequest(s, r)
    BY DEF Kept
  <2>2. pc[r] = "waiting" => call[r] \in Calls
    BY DEF AtWork
  <2> QED BY <2>1, <2>2 DEF KeptRequest
<1>3. \A k \in Calls : KeptCall(s, k)'
  <2> SUFFICES ASSUME NEW k \in Calls PROVE KeptCall(s, k)'
    OBVIOUS
  <2>1. KeptCall(s, k)
    BY DEF Kept
  <2> QED BY <2>1 DEF KeptCall
<1>4. KeptShared(s)'
  <2>0. shared \subseteq Calls /\ KeptShared(s)
    BY DEF TypeOK, Kept
  <2>1. \A b : Held(s, b)' => Held(s, b)
    BY DEF Held
  <2>2. \A j, k \in shared' : on'[j] = s /\ on'[k] = s /\ with'[j] = with'[k] => j = k
    BY <2>0 DEF KeptShared
  <2>3. \A b \in Nat : Held(s, b)' /\ b < gen'[s] => \E k \in shared' : on'[k] = s /\ with'[k] = b
    <3> SUFFICES ASSUME NEW b \in Nat, Held(s, b)', b < gen'[s] PROVE \E k \in shared' : on'[k] = s /\ with'[k] = b
      OBVIOUS
    <3>1. PICK k \in shared : on[k] = s /\ with[k] = b
      BY <2>0, <2>1 DEF KeptShared
    <3> QED BY <2>0, <3>1
  <2> QED BY <2>2, <2>3 DEF KeptShared
<1>5. KeptOnItsWay(s)'
  BY DEF Kept, KeptOnItsWay
<1> QED
  BY <1>1, <1>2, <1>3, <1>4, <1>5 DEF Kept

\* A call that starts had ended, and no session is concerned with it but the one it is for.
LEMMA StartElsewhere ==
    ASSUME TypeOK, AtWork, NEW k \in Calls, NEW s \in Sessions, NEW g \in Nat, Start(k, s, g),
           NEW t \in Sessions, t # s
    PROVE  /\ \A j \in Calls : on'[j] = t =>
                 on[j] = t /\ step'[j] = step[j] /\ with'[j] = with[j] /\ answer'[j] = answer[j] /\ j # k
           /\ \A j \in Calls : on[j] = t /\ (j \in shared \/ \E r \in Requests : call[r] = j) => on'[j] = t
<1>1. /\ step' = [step EXCEPT ![k] = "rotating"] /\ on' = [on EXCEPT ![k] = s]
      /\ with' = [with EXCEPT ![k] = g] /\ answer' = [answer EXCEPT ![k] = "failed"]
      /\ k \notin shared /\ \A r \in Requests : call[r] # k
  BY DEF Start, Unused
<1> QED
  BY <1>1 DEF TypeOK

LEMMA KeptSignIn ==
    ASSUME TypeOK, AtWork, NEW s \in Sessions, Kept(s), NEW t \in Sessions, SignIn(t)
    PROVE  Kept(s)'
<1>1. CASE t # s
  <2>1. /\ gen'[s] = gen[s] /\ refresh'[s] = refresh[s] /\ access'[s] = access[s] /\ shared \subseteq Calls
        /\ UNCHANGED <<ended, off, pc, whose, brought, token, gives, call, shared, on, with, step, answer>>
    BY <1>1 DEF SignIn, TypeOK, requests, calls
  <2> QED BY <2>1, Elsewhere DEF Kept, KeptRow
<1>2. CASE t = s
  <2>1. /\ gen[s] = 0 /\ gen'[s] = 1 /\ refresh'[s] = 1 /\ access'[s] = 1
        /\ UNCHANGED <<ended, off, pc, whose, call, shared, on>>
        /\ (\A r \in Requests : whose[r] # s) /\ (\A k \in Calls : on[k] # s)
    BY <1>2 DEF SignIn, TypeOK, Kept, KeptRow, requests, calls
  <2>2. KeptRow(s)' /\ KeptOnItsWay(s)' /\ \A r \in Requests : KeptRequest(s, r)'
    BY <2>1 DEF Kept, KeptRow, KeptOnItsWay, KeptRequest
  <2>3. \A k \in Calls : KeptCall(s, k)'
    BY <2>1 DEF KeptCall
  <2>4. KeptShared(s)'
    <3>1. \A b \in Nat : Held(s, b)' => b = 1
      BY <2>1 DEF Held
    <3>2. \A j \in shared' : on'[j] # s
      BY <2>1 DEF TypeOK
    <3> QED BY <2>1, <3>1, <3>2 DEF KeptShared
  <2> QED BY <2>2, <2>3, <2>4 DEF Kept
<1> QED BY <1>1, <1>2

LEMMA KeptRotate ==
    ASSUME TypeOK, AtWork, NEW s \in Sessions, Kept(s), NEW k \in Calls, Rotate(k), s \notin excused'
    PROVE  Kept(s)'
<1>0. /\ step[k] = "rotating" /\ on[k] \in Sessions
      /\ UNCHANGED <<ended, off, refresh, access, pc, whose, brought, token, gives, call, shared, on, with>>
      /\ shared \subseteq Calls
  BY DEF Rotate, AtWork, cookies, requests, TypeOK
<1>1. CASE on[k] # s
  <2>1. gen'[s] = gen[s]
    BY <1>0, <1>1 DEF Rotate, TypeOK
  <2>2. \A j \in Calls : on[j] = s => step'[j] = step[j] /\ answer'[j] = answer[j]
    BY <1>0, <1>1 DEF Rotate, TypeOK
  <2> QED BY <1>0, <2>1, <2>2, Elsewhere DEF Kept, KeptRow
<1>2. CASE on[k] = s
  <2>0. /\ k \in shared /\ with[k] = gen[s] /\ with[k] = refresh[s] /\ gen[s] \in Nat
        /\ KeptRow(s) /\ KeptShared(s)
    BY <1>0, <1>2 DEF Kept, KeptCall, TypeOK
  <2>a. PICK r \in Requests : whose[r] = s /\ pc[r] = "waiting" /\ call[r] = k
    BY <1>0, <1>2 DEF Kept, KeptCall
  <2>1. gen[s] > 0
    BY <2>0, <2>a DEF KeptRow
  <2>2. Current(k)
    BY <1>2, <2>0 DEF Current, KeptRow
  <2>3. /\ gen'[s] = gen[s] + 1 /\ step' = [step EXCEPT ![k] = "done"]
        /\ answer' = [answer EXCEPT ![k] = "swapped"]
    BY <1>2, <2>2 DEF Rotate, Excuse, TypeOK
  <2>4. brought[r] = refresh[s] /\ token[r] = 0 /\ access[s] = 0
    BY <1>2, <2>0, <2>a DEF Kept, KeptRequest
  <2>b. gen[s] = refresh[s] /\ refresh'[s] = refresh[s] /\ gen'[s] = refresh[s] + 1 /\ refresh[s] \in Nat /\ gen'[s] > 0
    <3>1. refresh' = refresh /\ gen'[s] = gen[s] + 1
      BY <1>0, <2>3
    <3>2. gen[s] = refresh[s] /\ gen[s] \in Nat
      BY <2>0
    <3> QED BY ONLY <3>1, <3>2
  <2>5. KeptRow(s)'
    <3>1. access'[s] = 0 /\ ended'[s] = "no" /\ s \notin off' /\ refresh[s] > 0
      BY <1>0, <2>0, <2>1, <2>4, <2>b DEF KeptRow
    <3> QED BY <2>b, <3>1 DEF KeptRow
  <2>6. \A x \in Requests : KeptRequest(s, x)'
    <3> SUFFICES ASSUME NEW x \in Requests PROVE KeptRequest(s, x)'
      OBVIOUS
    <3>1. KeptRequest(s, x) /\ brought[x] \in Nat
      BY DEF Kept, TypeOK
    <3>2. UNCHANGED <<refresh, access, pc, whose, brought, token, gives, call, on, with>>
      BY <1>0
    <3>3. gives[x] = "session" /\ whose[x] = s => brought[x] < gen'[s]
      <4>1. gives[x] = "session" /\ whose[x] = s => brought[x] < gen[s]
        BY <3>1 DEF KeptRequest
      <4>2. gen[s] \in Nat /\ gen'[s] = gen[s] + 1 /\ brought[x] \in Nat
        BY <2>0, <2>3, <3>1
      <4> QED BY ONLY <4>1, <4>2
    <3> QED BY <3>1, <3>2, <3>3 DEF KeptRequest
  <2>7. \A j \in Calls : KeptCall(s, j)'
    <3> SUFFICES ASSUME NEW j \in Calls, on[j] = s PROVE KeptCall(s, j)'
      BY <1>0 DEF KeptCall
    <3>1. CASE j = k
      <4>1. step'[k] = "done" /\ answer'[k] = "swapped" /\ with'[k] < gen'[s]
        <5>1. step'[k] = "done" /\ answer'[k] = "swapped"
          BY <2>3 DEF TypeOK
        <5>2. with'[k] = gen[s] /\ gen[s] \in Nat /\ gen'[s] = gen[s] + 1
          BY <1>0, <2>0, <2>3
        <5> QED BY <5>1, <5>2
      <4> QED BY <3>1, <4>1 DEF KeptCall
    <3>2. CASE j # k
      <4>1. KeptCall(s, j) /\ with[j] \in Nat
        BY DEF Kept, TypeOK
      <4>2. step[j] # "rotating"
        BY <1>2, <2>0, <3>2, <4>1 DEF KeptCall, KeptShared
      <4>3. step[j] = "done" /\ answer[j] = "swapped" /\ with[j] < gen[s]
        BY <4>1, <4>2 DEF KeptCall
      <4>4. step'[j] = "done" /\ answer'[j] = "swapped" /\ with'[j] < gen'[s]
        <5>1. step'[j] = step[j] /\ answer'[j] = answer[j] /\ with'[j] = with[j]
          BY <1>0, <2>3, <3>2 DEF TypeOK
        <5>2. with[j] \in Nat /\ with[j] < gen[s] /\ gen[s] \in Nat /\ gen'[s] = gen[s] + 1
          BY <2>0, <2>3, <4>1, <4>3
        <5> QED BY <4>3, <5>1, <5>2
      <4> QED BY <4>4 DEF KeptCall
    <3> QED BY <3>1, <3>2
  <2>8. KeptShared(s)'
    <3>1. \A b : Held(s, b)' => Held(s, b) /\ b <= gen[s]
      <4> SUFFICES ASSUME NEW b, Held(s, b)' PROVE Held(s, b) /\ b <= gen[s]
        OBVIOUS
      <4>1. Held(s, b)
        BY <1>0 DEF Held
      <4>2. refresh[s] <= gen[s]
        BY <2>0
      <4>3. \A x \in Requests : whose[x] = s => brought[x] <= refresh[s]
        <5> SUFFICES ASSUME NEW x \in Requests, whose[x] = s PROVE brought[x] <= refresh[s]
          OBVIOUS
        <5>1. KeptRequest(s, x) /\ brought[x] \in Nat /\ refresh[s] \in Nat
          BY DEF Kept, TypeOK
        <5> QED BY <5>1 DEF KeptRequest
      <4> QED BY <2>0, <4>1, <4>2, <4>3 DEF Held
    <3>2. \A b \in Nat : Held(s, b)' /\ b < gen'[s] => \E j \in shared' : on'[j] = s /\ with'[j] = b
      <4> SUFFICES ASSUME NEW b \in Nat, Held(s, b)', b < gen'[s] PROVE \E j \in shared' : on'[j] = s /\ with'[j] = b
        OBVIOUS
      <4>1. CASE b = gen[s]
        BY <1>0, <1>2, <2>0, <4>1
      <4>2. CASE b < gen[s]
        BY <1>0, <2>0, <3>1, <4>2 DEF KeptShared
      <4> QED BY <2>0, <3>1, <4>1, <4>2
    <3> QED BY <1>0, <2>0, <3>2 DEF KeptShared
  <2>9. KeptOnItsWay(s)'
    BY <1>0, <2>a, <2>4 DEF KeptOnItsWay
  <2> QED BY <2>5, <2>6, <2>7, <2>8, <2>9 DEF Kept
<1> QED BY <1>1, <1>2

LEMMA KeptRevoke ==
    ASSUME TypeOK, AtWork, NEW s \in Sessions, Kept(s), NEW k \in Calls, Revoke(k)
    PROVE  Kept(s)'
<1>0. /\ step[k] = "revoking" /\ on[k] \in Sessions
      /\ UNCHANGED <<gen, off, refresh, access, pc, whose, brought, token, gives, call, shared, on, with>>
      /\ shared \subseteq Calls
  BY DEF Revoke, AtWork, cookies, requests, TypeOK
<1>1. on[k] # s
  BY <1>0 DEF Kept, KeptCall
<1>2. ended'[s] = ended[s] /\ \A j \in Calls : on[j] = s => step'[j] = step[j] /\ answer'[j] = answer[j]
  BY <1>0, <1>1 DEF Revoke, TypeOK
<1> QED BY <1>0, <1>2, Elsewhere DEF Kept, KeptRow

LEMMA KeptCallFails ==
    ASSUME TypeOK, AtWork, NEW s \in Sessions, Kept(s), NEW k \in Calls, CallFails(k), s \notin excused'
    PROVE  Kept(s)'
<1>0. /\ on[k] # s /\ shared \subseteq Calls
      /\ UNCHANGED <<gen, ended, off, refresh, access, pc, whose, brought, token, gives, call, shared, on, with>>
  BY DEF CallFails, Excuse, rows, cookies, requests, TypeOK
<1>1. \A j \in Calls : on[j] = s => step'[j] = step[j] /\ answer'[j] = answer[j]
  BY <1>0 DEF CallFails, TypeOK
<1> QED BY <1>0, <1>1, Elsewhere DEF Kept, KeptRow

LEMMA KeptAppRefresh ==
    ASSUME TypeOK, AtWork, NEW s \in Sessions, Kept(s), NEW k \in Calls, NEW t \in Sessions, NEW g \in Tokens,
           AppRefresh(k, t, g), s \notin excused'
    PROVE  Kept(s)'
<1>0. /\ t # s /\ shared \subseteq Calls /\ g \in Nat /\ Start(k, t, g)
      /\ UNCHANGED <<gen, ended, off, refresh, access, pc, whose, brought, token, gives, call, shared>>
  BY DEF AppRefresh, Excuse, rows, cookies, requests, TypeOK, Tokens
<1>1. /\ \A j \in Calls : on'[j] = s =>
            on[j] = s /\ step'[j] = step[j] /\ with'[j] = with[j] /\ answer'[j] = answer[j] /\ j # k
      /\ \A j \in Calls : on[j] = s /\ (j \in shared \/ \E r \in Requests : call[r] = j) => on'[j] = s
  BY <1>0, StartElsewhere
<1> QED BY <1>0, <1>1, Elsewhere DEF Kept, KeptRow

LEMMA KeptSwitchOff ==
    ASSUME TypeOK, AtWork, NEW s \in Sessions, Kept(s), NEW t \in Sessions, SwitchOff(t), s \notin excused'
    PROVE  Kept(s)'
<1>0. /\ t # s /\ shared \subseteq Calls
      /\ UNCHANGED <<gen, ended, refresh, access, pc, whose, brought, token, gives, call, shared, on, with, step, answer>>
  BY DEF SwitchOff, Excuse, cookies, requests, calls, TypeOK
<1>1. s \notin off'
  BY <1>0 DEF SwitchOff, Kept, KeptRow
<1> QED BY <1>0, <1>1, Elsewhere

LEMMA KeptCookieGoes ==
    ASSUME TypeOK, AtWork, NEW s \in Sessions, Kept(s), NEW t \in Sessions, CookieGoes(t), s \notin excused'
    PROVE  Kept(s)'
<1>0. /\ shared \subseteq Calls
      /\ UNCHANGED <<gen, ended, off, refresh, pc, whose, brought, token, gives, call, shared, on, with, step, answer>>
      /\ access' = [access EXCEPT ![t] = 0]
  BY DEF CookieGoes, rows, requests, calls, TypeOK
<1>1. CASE t # s
  <2>1. access'[s] = access[s]
    BY <1>0, <1>1 DEF TypeOK
  <2> QED BY <1>0, <2>1, Elsewhere DEF Kept, KeptRow
<1>2. CASE t = s
  <2>1. access'[s] = 0 /\ access[s] > 0 /\ \A r \in Requests : pc[r] # "idle" /\ whose[r] = s => ~(brought[r] < refresh[s])
    BY <1>0, <1>2 DEF CookieGoes, Excuse, TypeOK
  <2>2. KeptRow(s)' /\ KeptOnItsWay(s)'
    BY <1>0, <2>1 DEF Kept, KeptRow, KeptOnItsWay
  <2>3. \A r \in Requests : KeptRequest(s, r)'
    <3> SUFFICES ASSUME NEW r \in Requests, whose[r] = s PROVE KeptRequest(s, r)'
      BY <1>0 DEF KeptRequest
    <3>1. KeptRequest(s, r) /\ refresh[s] \in Nat
      BY DEF Kept, TypeOK
    <3>2. brought[r] = refresh[s]
      BY <2>1, <3>1 DEF KeptRequest
    <3> QED BY <1>0, <2>1, <3>1, <3>2 DEF KeptRequest
  <2>4. \A k \in Calls : KeptCall(s, k)'
    BY <1>0 DEF Kept, KeptCall
  <2>5. KeptShared(s)'
    BY <1>0 DEF Kept, KeptShared, Held
  <2> QED BY <2>2, <2>3, <2>4, <2>5 DEF Kept
<1> QED BY <1>1, <1>2

LEMMA KeptTokenGoes ==
    ASSUME TypeOK, AtWork, NEW s \in Sessions, Kept(s), NEW t \in Sessions, TokenGoes(t)
    PROVE  Kept(s)'
<1>1. /\ shared \subseteq Calls
      /\ UNCHANGED <<gen, ended, off, refresh, access, pc, whose, brought, token, gives, call, shared, on, with, step, answer>>
  BY DEF TokenGoes, cookies, requests, calls, TypeOK
<1> QED BY <1>1, Elsewhere DEF Kept, KeptRow

LEMMA KeptSend ==
    ASSUME TypeOK, AtWork, NEW s \in Sessions, Kept(s), NEW r \in Requests, NEW t \in Sessions,
           NEW what \in {"page", "signout"}, Send(r, t, what), AtRest
    PROVE  Kept(s)'
<1>0. /\ pc[r] = "idle" /\ whose[r] = None /\ gives[r] = "nothing" /\ refresh[t] > 0 /\ shared \subseteq Calls
      /\ UNCHANGED <<gen, ended, off, refresh, access, gives, call, shared, on, with, step, answer>>
      /\ pc'[r] = "sent" /\ whose'[r] = t /\ brought'[r] = refresh[t] /\ token'[r] = access[t]
      /\ \A x \in Requests \ {r} : pc'[x] = pc[x] /\ whose'[x] = whose[x] /\ brought'[x] = brought[x] /\ token'[x] = token[x]
  BY DEF Send, AtRest, rows, cookies, calls, TypeOK
<1>a. whose[r] # s
  BY <1>0, SessionsAssumption
<1>1. CASE t # s
  <2>1. \A x \in Requests : whose'[x] = s <=> whose[x] = s
    BY <1>0, <1>1, <1>a
  <2>2. \A x \in Requests : whose[x] = s => x # r
    BY <1>a
  <2>3. /\ \A x \in Requests : whose[x] = s =>
               /\ pc'[x] = pc[x] /\ brought'[x] = brought[x] /\ token'[x] = token[x]
               /\ gives'[x] = gives[x] /\ call'[x] = call[x]
        /\ s \notin off' /\ gen'[s] = gen[s] /\ ended'[s] = ended[s] /\ refresh'[s] = refresh[s] /\ access'[s] = access[s]
    BY <1>0, <2>2 DEF Kept, KeptRow
  <2> QED BY <1>0, <2>1, <2>3, Elsewhere
<1>2. CASE t = s
  <2>1. \A x \in Requests : KeptRequest(s, x)'
    <3> SUFFICES ASSUME NEW x \in Requests PROVE KeptRequest(s, x)'
      OBVIOUS
    <3>1. KeptRequest(s, x)
      BY DEF Kept
    <3>2. CASE x = r
      BY <1>0, <1>2, <3>2 DEF KeptRequest
    <3>3. CASE x # r
      BY <1>0, <3>1, <3>3 DEF KeptRequest
    <3> QED BY <3>2, <3>3
  <2>2. KeptRow(s)'
    BY <1>0, <1>2 DEF Kept, KeptRow
  <2>3. KeptOnItsWay(s)'
    <3>1. \A x \in Requests : whose[x] = s => x # r
      BY <1>a
    <3> QED BY <1>0, <3>1 DEF Kept, KeptOnItsWay
  <2>4. \A k \in Calls : KeptCall(s, k)'
    <3>1. \A x \in Requests : whose[x] = s => x # r
      BY <1>a
    <3> QED BY <1>0, <3>1 DEF Kept, KeptCall
  <2>5. KeptShared(s)'
    <3>1. \A b \in Nat : Held(s, b)' => Held(s, b)
      BY <1>0, <1>2, <1>a DEF Held
    <3> QED BY <1>0, <3>1 DEF Kept, KeptShared
  <2> QED BY <2>1, <2>2, <2>3, <2>4, <2>5 DEF Kept
<1> QED BY <1>1, <1>2

LEMMA KeptHandle ==
    ASSUME TypeOK, AtWork, NEW s \in Sessions, Kept(s), NEW r \in Requests, Handle(r)
    PROVE  Kept(s)'
<1> DEFINE t == whose[r]
           b == brought[r]
<1>0. /\ pc[r] = "sent" /\ t \in Sessions /\ b \in Nat /\ shared \subseteq Calls
      /\ UNCHANGED <<gen, ended, off, refresh, access, whose, brought, token, gives>>
  BY DEF Handle, AtWork, rows, cookies, TypeOK
<1>1. CASE token[r] > 0
  <2>1. pc' = [pc EXCEPT ![r] = "using"] /\ UNCHANGED <<call, shared, on, with, step, answer>>
    BY <1>0, <1>1 DEF Handle, calls, TypeOK
  <2>2. pc'[r] = "using" /\ \A x \in Requests \ {r} : pc'[x] = pc[x]
    BY <2>1 DEF TypeOK
  <2>3. KeptRow(s)' /\ KeptOnItsWay(s)'
    <3>1. \A x \in Requests : pc[x] # "sent" => pc'[x] = pc[x]
      BY <1>0, <2>2
    <3> QED BY <1>0, <2>1, <3>1 DEF Kept, KeptRow, KeptOnItsWay
  <2>4. \A x \in Requests : KeptRequest(s, x)'
    <3> SUFFICES ASSUME NEW x \in Requests PROVE KeptRequest(s, x)'
      OBVIOUS
    <3>1. KeptRequest(s, x)
      BY DEF Kept
    <3> QED BY <1>0, <2>1, <2>2, <3>1 DEF KeptRequest
  <2>5. \A k \in Calls : KeptCall(s, k)'
    <3>1. \A x \in Requests : pc[x] = "waiting" => pc'[x] = pc[x]
      BY <1>0, <2>2
    <3> QED BY <1>0, <2>1, <3>1 DEF Kept, KeptCall
  <2>6. KeptShared(s)'
    <3>1. \A c \in Nat : Held(s, c)' => Held(s, c)
      BY <1>0, <2>1, <2>2 DEF Held
    <3> QED BY <1>0, <2>1, <3>1 DEF Kept, KeptShared
  <2> QED BY <2>3, <2>4, <2>5, <2>6 DEF Kept
<1>2. CASE ~(token[r] > 0)
  <2>0. token[r] = 0 /\ token[r] \in Nat
    BY <1>2 DEF Handle, TypeOK
  <2>1. PICK k \in Calls : /\ call' = [call EXCEPT ![r] = k]
                           /\ \/ k \in Refreshes(t, b) /\ UNCHANGED <<shared, calls>>
                              \/ Refreshes(t, b) = {} /\ Start(k, t, b) /\ shared' = shared \cup {k}
    BY <1>0, <1>2 DEF Handle
  <2>2. /\ pc'[r] = "waiting" /\ call'[r] = k /\ \A x \in Requests \ {r} : pc'[x] = pc[x] /\ call'[x] = call[x]
    <3>1. pc' = [pc EXCEPT ![r] = "waiting"]
      BY <1>0, <1>2 DEF Handle
    <3> QED BY <2>1, <3>1 DEF TypeOK
  \* Another session's request.
  <2>3. CASE t # s
    <3>0. \A x \in Requests : whose[x] = s => x # r
      BY <2>3
    <3>1. /\ \A j \in Calls : on'[j] = s =>
               /\ on[j] = s /\ step'[j] = step[j] /\ with'[j] = with[j] /\ answer'[j] = answer[j]
               /\ j \in shared' <=> j \in shared
          /\ \A j \in Calls : on[j] = s /\ (j \in shared \/ \E x \in Requests : whose[x] = s /\ pc[x] = "waiting" /\ call[x] = j)
               => on'[j] = s
          /\ shared' \subseteq Calls
      <4>1. CASE UNCHANGED <<shared, calls>>
        BY <1>0, <4>1 DEF calls
      <4>2. CASE Start(k, t, b) /\ shared' = shared \cup {k}
        <5>1. /\ \A j \in Calls : on'[j] = s =>
                    on[j] = s /\ step'[j] = step[j] /\ with'[j] = with[j] /\ answer'[j] = answer[j] /\ j # k
              /\ \A j \in Calls : on[j] = s /\ (j \in shared \/ \E x \in Requests : call[x] = j) => on'[j] = s
          BY <1>0, <2>3, <4>2, StartElsewhere
        <5> QED BY <1>0, <4>2, <5>1
      <4> QED BY <2>1, <4>1, <4>2
    <3>2. \A x \in Requests : whose[x] = s =>
               /\ pc'[x] = pc[x] /\ brought'[x] = brought[x] /\ token'[x] = token[x]
               /\ gives'[x] = gives[x] /\ call'[x] = call[x]
      BY <1>0, <2>2, <3>0
    <3>3. /\ s \notin off' /\ gen'[s] = gen[s] /\ ended'[s] = ended[s] /\ refresh'[s] = refresh[s] /\ access'[s] = access[s]
          /\ \A x \in Requests : whose'[x] = s <=> whose[x] = s
      BY <1>0 DEF Kept, KeptRow
    <3> QED BY <3>1, <3>2, <3>3, Elsewhere
  \* A request of this session joins a refresh, or starts one.
  <2>4. CASE t = s
    <3>0. /\ KeptRequest(s, r) /\ gives[r] = "nothing" /\ b \in {refresh[s], refresh[s] - 1}
          /\ (b = refresh[s] => access[s] = 0) /\ Held(s, b)
      BY <1>0, <2>0, <2>4 DEF Kept, KeptRequest, Held
    <3>a. \A c \in Nat : Held(s, c)' => Held(s, c)
      BY <1>0, <2>2 DEF Held
    <3>b. \A x \in Requests : pc[x] # "sent" => pc'[x] = pc[x] /\ call'[x] = call[x]
      BY <1>0, <2>2
    <3>c. KeptRow(s) /\ KeptOnItsWay(s) /\ KeptShared(s)
      BY DEF Kept
    <3>d. KeptOnItsWay(s)'
      BY <1>0, <3>b, <3>c DEF KeptOnItsWay
    <3>1. CASE k \in Refreshes(t, b) /\ UNCHANGED <<shared, calls>>
      <4>1. UNCHANGED <<shared, on, with, step, answer>> /\ on[k] = s /\ with[k] = b
        BY <2>4, <3>1 DEF calls, Refreshes
      <4>2. KeptRow(s)' /\ KeptShared(s)'
        BY <1>0, <3>a, <3>c, <4>1 DEF KeptRow, KeptShared
      <4>3. \A j \in Calls : KeptCall(s, j)'
        BY <1>0, <3>b, <4>1 DEF Kept, KeptCall
      <4>4. \A x \in Requests : KeptRequest(s, x)'
        <5> SUFFICES ASSUME NEW x \in Requests PROVE KeptRequest(s, x)'
          OBVIOUS
        <5>1. KeptRequest(s, x)
          BY DEF Kept
        <5> QED BY <1>0, <2>0, <2>2, <2>4, <3>0, <4>1, <5>1 DEF KeptRequest
      <4> QED BY <3>d, <4>2, <4>3, <4>4 DEF Kept
    <3>2. CASE Refreshes(t, b) = {} /\ Start(k, t, b) /\ shared' = shared \cup {k}
      <4>1. /\ step'[k] = "rotating" /\ on'[k] = s /\ with'[k] = b
            /\ k \notin shared /\ \A x \in Requests : call[x] # k
            /\ \A j \in Calls \ {k} : step'[j] = step[j] /\ on'[j] = on[j] /\ with'[j] = with[j] /\ answer'[j] = answer[j]
        BY <2>4, <3>2 DEF Start, Unused, TypeOK
      <4>2. ~(b < gen[s])
        BY <1>0, <2>4, <3>0, <3>2, <3>c DEF KeptShared, Refreshes
      <4>3. b = refresh[s] /\ b = gen[s] /\ gen[s] > 0
        <5>1. gen[s] \in Nat /\ refresh[s] \in Nat
          BY DEF TypeOK
        <5>2. gen[s] # 0
          BY <1>0, <2>4, <3>c DEF KeptRow
        <5>3. gen[s] \in {refresh[s], refresh[s] + 1}
          BY <3>c, <5>1, <5>2 DEF KeptRow
        <5> HIDE DEF b
        <5> QED BY <1>0, <3>0, <4>2, <5>1, <5>2, <5>3
      <4>4. KeptRow(s)'
        BY <1>0, <3>c, <4>3 DEF KeptRow
      <4>5. KeptShared(s)'
        <5>1. \A j \in shared : on[j] = s => with[j] # b
          BY <2>4, <3>2 DEF Refreshes
        <5>2. \A j, i \in shared' : on'[j] = s /\ on'[i] = s /\ with'[j] = with'[i] => j = i
          BY <1>0, <3>2, <3>c, <4>1, <5>1 DEF KeptShared
        <5>3. \A c \in Nat : Held(s, c)' /\ c < gen'[s] => \E j \in shared' : on'[j] = s /\ with'[j] = c
          <6> SUFFICES ASSUME NEW c \in Nat, Held(s, c)', c < gen'[s] PROVE \E j \in shared' : on'[j] = s /\ with'[j] = c
            OBVIOUS
          <6>1. PICK j \in shared : on[j] = s /\ with[j] = c
            BY <1>0, <3>a, <3>c DEF KeptShared
          <6> QED BY <1>0, <3>2, <4>1, <6>1
        <5> QED BY <5>2, <5>3 DEF KeptShared
      <4>6. \A j \in Calls : KeptCall(s, j)'
        <5> SUFFICES ASSUME NEW j \in Calls PROVE KeptCall(s, j)'
          OBVIOUS
        <5>1. CASE j = k
          <6>1. k \in shared' /\ with'[k] = gen'[s] /\ with'[k] = refresh'[s] /\ whose'[r] = s
            BY <1>0, <2>4, <3>2, <4>1, <4>3
          <6> HIDE DEF t, b
          <6> QED BY <2>2, <4>1, <5>1, <6>1 DEF KeptCall
        <5>2. CASE j # k
          <6>1. KeptCall(s, j)
            BY DEF Kept
          <6> QED BY <1>0, <3>2, <3>b, <4>1, <5>2, <6>1 DEF KeptCall
        <5> QED BY <5>1, <5>2
      <4>7. \A x \in Requests : KeptRequest(s, x)'
        <5> SUFFICES ASSUME NEW x \in Requests PROVE KeptRequest(s, x)'
          OBVIOUS
        <5>1. KeptRequest(s, x) /\ (pc[x] = "waiting" => call[x] \in Calls)
          BY DEF Kept, AtWork
        <5>2. CASE x = r
          BY <1>0, <2>0, <2>2, <2>4, <3>0, <4>1, <5>1, <5>2 DEF KeptRequest
        <5>3. CASE x # r
          BY <1>0, <2>2, <4>1, <5>1, <5>3 DEF KeptRequest
        <5> QED BY <5>2, <5>3
      <4> QED BY <3>d, <4>4, <4>5, <4>6, <4>7 DEF Kept
    <3> QED BY <2>1, <3>1, <3>2
  <2> QED BY <2>3, <2>4
<1> QED BY <1>1, <1>2

LEMMA KeptResume ==
    ASSUME TypeOK, AtWork, NEW s \in Sessions, Kept(s), NEW r \in Requests, Resume(r)
    PROVE  Kept(s)'
<1>0. /\ pc[r] = "waiting" /\ call[r] \in Calls /\ step[call[r]] = "done" /\ shared \subseteq Calls
      /\ UNCHANGED <<gen, ended, off, refresh, access, whose, brought, shared, on, with, step, answer>>
      /\ \A x \in Requests \ {r} : /\ pc'[x] = pc[x] /\ call'[x] = call[x] /\ token'[x] = token[x]
                                   /\ gives'[x] = gives[x]
  BY DEF Resume, AtWork, rows, cookies, calls, TypeOK
<1>1. CASE whose[r] # s
  <2>1. \A x \in Requests : whose[x] = s => x # r
    BY <1>1
  <2>2. /\ \A x \in Requests : whose[x] = s =>
               /\ pc'[x] = pc[x] /\ brought'[x] = brought[x] /\ token'[x] = token[x]
               /\ gives'[x] = gives[x] /\ call'[x] = call[x]
        /\ s \notin off' /\ gen'[s] = gen[s] /\ ended'[s] = ended[s] /\ refresh'[s] = refresh[s] /\ access'[s] = access[s]
    BY <1>0, <2>1 DEF Kept, KeptRow
  <2> QED BY <1>0, <2>2, Elsewhere
<1>2. CASE whose[r] = s
  <2>1. KeptRequest(s, r) /\ KeptCall(s, call[r]) /\ KeptRow(s) /\ KeptShared(s) /\ KeptOnItsWay(s)
    BY <1>0 DEF Kept
  <2>2. answer[call[r]] = "swapped" /\ brought[r] < gen[s]
    BY <1>0, <1>2, <2>1 DEF KeptRequest, KeptCall
  <2>3. pc'[r] = "using" /\ gives'[r] = "session"
    BY <2>2 DEF Resume, CookieWord, TypeOK
  <2>4. KeptRow(s)'
    BY <1>0, <2>1 DEF KeptRow
  <2>5. KeptShared(s)'
    <3>1. \A c \in Nat : Held(s, c)' => Held(s, c)
      <4> SUFFICES ASSUME NEW c \in Nat, Held(s, c)' PROVE Held(s, c)
        OBVIOUS
      <4>1. \A x \in Requests : pc'[x] = "sent" => x # r
        BY <2>3
      <4> QED BY <1>0, <4>1 DEF Held
    <3> QED BY <1>0, <2>1, <3>1 DEF KeptShared
  <2>6. KeptOnItsWay(s)'
    <3> SUFFICES ASSUME gen[s] = refresh[s] + 1
                 PROVE  \E x \in Requests : /\ whose[x] = s /\ brought[x] = refresh[s]
                                            /\ pc'[x] = "waiting" \/ (pc'[x] \in {"using", "answered"} /\ gives'[x] = "session")
      BY <1>0 DEF KeptOnItsWay
    <3>1. PICK x \in Requests : /\ whose[x] = s /\ brought[x] = refresh[s]
                                /\ pc[x] = "waiting" \/ (pc[x] \in {"using", "answered"} /\ gives[x] = "session")
      BY <2>1 DEF KeptOnItsWay
    <3>2. pc'[x] = "waiting" \/ (pc'[x] \in {"using", "answered"} /\ gives'[x] = "session")
      BY <1>0, <2>3, <3>1
    <3> QED BY <3>1, <3>2
  <2>7. \A x \in Requests : KeptRequest(s, x)'
    <3> SUFFICES ASSUME NEW x \in Requests PROVE KeptRequest(s, x)'
      OBVIOUS
    <3>1. KeptRequest(s, x)
      BY DEF Kept
    <3>2. CASE x = r
      BY <1>0, <2>2, <2>3, <3>1, <3>2 DEF KeptRequest
    <3>3. CASE x # r
      BY <1>0, <3>1, <3>3 DEF KeptRequest
    <3> QED BY <3>2, <3>3
  <2>8. \A k \in Calls : KeptCall(s, k)'
    <3> SUFFICES ASSUME NEW k \in Calls PROVE KeptCall(s, k)'
      OBVIOUS
    <3>1. KeptCall(s, k)
      BY DEF Kept
    <3>2. \A x \in Requests : pc[x] = "waiting" /\ call[x] = k /\ step[k] = "rotating" =>
             pc'[x] = "waiting" /\ call'[x] = k
      BY <1>0
    <3> QED BY <1>0, <3>1, <3>2 DEF KeptCall
  <2> QED BY <2>4, <2>5, <2>6, <2>7, <2>8 DEF Kept
<1> QED BY <1>1, <1>2

LEMMA KeptUse ==
    ASSUME TypeOK, AtWork, NEW s \in Sessions, Kept(s), NEW r \in Requests, Use(r), s \notin excused'
    PROVE  Kept(s)'
<1>0. /\ pc[r] = "using" /\ shared \subseteq Calls /\ pc'[r] = "answered" /\ \A x \in Requests \ {r} : pc'[x] = pc[x]
      /\ UNCHANGED <<gen, off, refresh, access, whose, brought, token, call, shared, on, with, step, answer>>
  BY DEF Use, cookies, calls, TypeOK
<1>1. CASE whose[r] # s
  <2>1. \A x \in Requests : whose[x] = s => x # r
    BY <1>1
  <2>2. /\ \A x \in Requests : whose[x] = s => pc'[x] = pc[x] /\ gives'[x] = gives[x]
        /\ s \notin off' /\ ended'[s] = ended[s]
    BY <1>0, <1>1, <2>1 DEF Use, Kept, KeptRow, TypeOK
  <2> QED BY <1>0, <2>2, Elsewhere
<1>2. CASE whose[r] = s
  <2>1. UNCHANGED <<ended, gives>>
    BY <1>2 DEF Use, Excuse
  <2>2. KeptRow(s)' /\ KeptShared(s)'
    <3>1. \A c \in Nat : Held(s, c)' => Held(s, c)
      <4> SUFFICES ASSUME NEW c \in Nat, Held(s, c)' PROVE Held(s, c)
        OBVIOUS
      <4>1. \A x \in Requests : pc'[x] = "sent" => x # r
        BY <1>0
      <4> QED BY <1>0, <4>1 DEF Held
    <3> QED BY <1>0, <2>1, <3>1 DEF Kept, KeptRow, KeptShared
  <2>3. KeptOnItsWay(s)'
    <3>1. \A x \in Requests : \/ pc[x] = "waiting" => pc'[x] = "waiting"
                              \/ pc[x] \in {"using", "answered"} => pc'[x] \in {"using", "answered"}
      BY <1>0
    <3>2. \A x \in Requests : pc[x] = "waiting" \/ (pc[x] \in {"using", "answered"} /\ gives[x] = "session")
             => pc'[x] = "waiting" \/ (pc'[x] \in {"using", "answered"} /\ gives'[x] = "session")
      BY <1>0, <2>1
    <3> QED BY <1>0, <3>2 DEF Kept, KeptOnItsWay
  <2>4. \A x \in Requests : KeptRequest(s, x)'
    <3> SUFFICES ASSUME NEW x \in Requests PROVE KeptRequest(s, x)'
      OBVIOUS
    <3>1. KeptRequest(s, x)
      BY DEF Kept
    <3> QED BY <1>0, <2>1, <3>1 DEF KeptRequest
  <2>5. \A k \in Calls : KeptCall(s, k)'
    <3>1. \A x \in Requests : pc[x] = "waiting" => pc'[x] = "waiting"
      BY <1>0
    <3> QED BY <1>0, <3>1 DEF Kept, KeptCall
  <2> QED BY <2>2, <2>3, <2>4, <2>5 DEF Kept
<1> QED BY <1>1, <1>2

\* An answer that leaves the cookies, or brings the token that came after the one it was sent with.
LEMMA KeptReceive ==
    ASSUME TypeOK, AtWork, NEW s \in Sessions, Kept(s), NEW r \in Requests, Receive(r)
    PROVE  Kept(s)'
<1>0. /\ pc[r] = "answered" /\ whose[r] \in Sessions /\ shared \subseteq Calls
      /\ UNCHANGED <<gen, ended, off, call, shared, on, with, step, answer>>
      /\ pc'[r] = "idle" /\ whose'[r] = None
      /\ \A x \in Requests \ {r} : /\ pc'[x] = pc[x] /\ whose'[x] = whose[x] /\ brought'[x] = brought[x]
                                   /\ token'[x] = token[x] /\ gives'[x] = gives[x]
  BY DEF Receive, Forgotten, AtWork, rows, calls, TypeOK
<1>a. whose'[r] # s
  BY <1>0, SessionsAssumption
<1>1. CASE whose[r] # s
  <2>1. \A x \in Requests : whose[x] = s => x # r
    BY <1>1
  <2>2. refresh'[s] = refresh[s] /\ access'[s] = access[s]
    BY <1>0, <1>1 DEF Receive, TypeOK
  <2>3. /\ \A x \in Requests : whose[x] = s =>
               /\ pc'[x] = pc[x] /\ brought'[x] = brought[x] /\ token'[x] = token[x]
               /\ gives'[x] = gives[x] /\ call'[x] = call[x]
        /\ \A x \in Requests : whose'[x] = s <=> whose[x] = s
        /\ s \notin off' /\ gen'[s] = gen[s] /\ ended'[s] = ended[s]
    BY <1>0, <1>1, <1>a, <2>1 DEF Kept, KeptRow
  <2> QED BY <1>0, <2>2, <2>3, Elsewhere
<1>2. CASE whose[r] = s
  <2>1. KeptRequest(s, r) /\ KeptRow(s) /\ KeptShared(s) /\ KeptOnItsWay(s)
    BY DEF Kept
  <2>2. /\ brought[r] \in Nat /\ gen[s] \in Nat /\ refresh[s] \in Nat /\ access[s] \in Nat
        /\ brought[r] \in {refresh[s], refresh[s] - 1} /\ (access[s] = 0 => brought[r] = refresh[s])
        /\ gives[r] \in {"nothing", "session"} /\ (gives[r] = "session" => brought[r] < gen[s])
        /\ refresh[s] > 0 /\ gen[s] \in {refresh[s], refresh[s] + 1} /\ access[s] \in {0, refresh[s]}
        /\ (gen[s] = refresh[s] + 1 => access[s] = 0) /\ gen[s] > 0
    <3>1. brought[r] \in Nat /\ gen[s] \in Nat /\ refresh[s] \in Nat /\ access[s] \in Nat
      BY DEF TypeOK
    <3>2. gen[s] > 0
      BY <1>2, <2>1, <3>1 DEF KeptRow
    <3> QED BY <1>2, <2>1, <3>1, <3>2 DEF KeptRow, KeptRequest
  <2>3. \A x \in Requests : whose'[x] = s => x # r /\ whose[x] = s
    BY <1>0, <1>a
  <2>c. \A k \in Calls : step[k] = "rotating" =>
           \A x \in Requests : pc[x] = "waiting" /\ whose[x] = s /\ call[x] = k => pc'[x] = "waiting" /\ whose'[x] = s
    BY <1>0
  \* The cookies stay, or stay the same.
  <2>4. CASE refresh'[s] = refresh[s] /\ access'[s] = access[s] /\ ~(gives[r] = "session" /\ brought[r] = refresh[s])
    <3>1. KeptRow(s)'
      BY <1>0, <2>1, <2>2, <2>4 DEF KeptRow
    <3>2. \A x \in Requests : KeptRequest(s, x)'
      <4> SUFFICES ASSUME NEW x \in Requests, whose'[x] = s PROVE KeptRequest(s, x)'
        BY DEF KeptRequest
      <4>1. KeptRequest(s, x) /\ x # r /\ whose[x] = s
        BY <2>3 DEF Kept
      <4> QED BY <1>0, <2>4, <4>1 DEF KeptRequest
    <3>3. \A k \in Calls : KeptCall(s, k)'
      BY <1>0, <2>4, <2>c DEF Kept, KeptCall
    <3>4. KeptShared(s)'
      <4>1. \A c \in Nat : Held(s, c)' => Held(s, c)
        BY <1>0, <2>3, <2>4 DEF Held
      <4> QED BY <1>0, <2>1, <4>1 DEF KeptShared
    <3>5. KeptOnItsWay(s)'
      <4> SUFFICES ASSUME gen[s] = refresh[s] + 1
                   PROVE  \E x \in Requests : /\ whose'[x] = s /\ brought'[x] = refresh[s]
                                              /\ pc'[x] = "waiting" \/ (pc'[x] \in {"using", "answered"} /\ gives'[x] = "session")
        BY <1>0, <2>4 DEF KeptOnItsWay
      <4>1. PICK x \in Requests : /\ whose[x] = s /\ brought[x] = refresh[s]
                                  /\ pc[x] = "waiting" \/ (pc[x] \in {"using", "answered"} /\ gives[x] = "session")
        BY <2>1 DEF KeptOnItsWay
      <4>2. x # r
        BY <1>0, <2>4, <4>1
      <4> QED BY <1>0, <4>1, <4>2
    <3> QED BY <3>1, <3>2, <3>3, <3>4, <3>5 DEF Kept
  \* The browser gets the token it has been refreshed to.
  <2>5. CASE gives[r] = "session" /\ brought[r] = refresh[s]
    <3>1. refresh'[s] = refresh[s] + 1 /\ access'[s] = refresh[s] + 1 /\ gen[s] = refresh[s] + 1 /\ access[s] = 0
      <4>1. refresh' = [refresh EXCEPT ![s] = brought[r] + 1] /\ access' = [access EXCEPT ![s] = brought[r] + 1]
        BY <1>2, <2>5 DEF Receive, Swapped
      <4>2. gen[s] = refresh[s] + 1
        BY <2>2, <2>5
      <4> QED BY <2>2, <2>5, <4>1, <4>2 DEF TypeOK
    <3>2. KeptRow(s)' /\ KeptOnItsWay(s)'
      <4>1. gen'[s] = refresh'[s] /\ access'[s] = refresh'[s] /\ refresh'[s] \in Nat /\ refresh'[s] > 0
        BY <1>0, <2>2, <3>1
      <4>2. ended'[s] = "no" /\ s \notin off'
        BY <1>0, <2>1 DEF KeptRow
      <4> QED BY <4>1, <4>2 DEF KeptRow, KeptOnItsWay
    <3>3. \A x \in Requests : KeptRequest(s, x)'
      <4> SUFFICES ASSUME NEW x \in Requests, whose'[x] = s PROVE KeptRequest(s, x)'
        BY DEF KeptRequest
      <4>1. KeptRequest(s, x) /\ x # r /\ whose[x] = s /\ (pc[x] = "waiting" => call[x] \in Calls)
        BY <2>3 DEF Kept, AtWork
      <4>2. brought[x] = refresh[s] /\ refresh'[s] - 1 = refresh[s] /\ access'[s] # 0 /\ brought'[x] # refresh'[s]
        BY <1>0, <2>2, <3>1, <4>1 DEF KeptRequest
      <4> QED BY <1>0, <4>1, <4>2 DEF KeptRequest
    <3>4. \A k \in Calls : KeptCall(s, k)'
      <4> SUFFICES ASSUME NEW k \in Calls PROVE KeptCall(s, k)'
        OBVIOUS
      <4>1. KeptCall(s, k)
        BY DEF Kept
      <4>2. on[k] = s => step[k] = "done" /\ answer[k] = "swapped" /\ with[k] < gen[s]
        BY <2>2, <3>1, <4>1 DEF KeptCall
      <4> QED BY <1>0, <4>2 DEF KeptCall
    <3>5. KeptShared(s)'
      <4>1. \A c \in Nat : Held(s, c)' => Held(s, c) \/ c = gen[s]
        BY <1>0, <2>3, <3>1 DEF Held
      <4>2. \A c \in Nat : c < gen[s] => c # gen[s]
        BY <2>2
      <4> QED BY <1>0, <2>1, <4>1, <4>2 DEF KeptShared
    <3> QED BY <3>2, <3>3, <3>4, <3>5 DEF Kept
  <2>6. CASE gives[r] = "nothing"
    <3>1. refresh' = refresh /\ access' = access
      BY <2>6 DEF Receive
    <3> QED BY <2>4, <2>6, <3>1
  <2>7. CASE gives[r] = "session" /\ brought[r] # refresh[s]
    <3>1. refresh' = [refresh EXCEPT ![s] = brought[r] + 1] /\ access' = [access EXCEPT ![s] = brought[r] + 1]
      BY <1>2, <2>7 DEF Receive, Swapped
    <3>2. brought[r] + 1 = refresh[s] /\ access[s] = refresh[s]
      BY <2>2, <2>7
    <3>3. refresh'[s] = refresh[s] /\ access'[s] = access[s]
      BY <3>1, <3>2 DEF TypeOK
    <3> QED BY <2>4, <2>7, <3>3
  <2> QED BY <2>2, <2>5, <2>6, <2>7
<1> QED BY <1>1, <1>2

LEMMA KeptLose ==
    ASSUME TypeOK, AtWork, NEW s \in Sessions, Kept(s), NEW r \in Requests, Lose(r), s \notin excused'
    PROVE  Kept(s)'
<1>0. /\ whose[r] # s /\ shared \subseteq Calls
      /\ UNCHANGED <<gen, ended, off, refresh, access, call, shared, on, with, step, answer>>
      /\ whose'[r] # s
      /\ \A x \in Requests \ {r} : /\ pc'[x] = pc[x] /\ whose'[x] = whose[x] /\ brought'[x] = brought[x]
                                   /\ token'[x] = token[x] /\ gives'[x] = gives[x]
  BY SessionsAssumption DEF Lose, Excuse, Forgotten, rows, cookies, calls, TypeOK
<1>1. \A x \in Requests : whose[x] = s => x # r
  BY <1>0
<1>2. /\ \A x \in Requests : whose[x] = s =>
               /\ pc'[x] = pc[x] /\ brought'[x] = brought[x] /\ token'[x] = token[x]
               /\ gives'[x] = gives[x] /\ call'[x] = call[x]
      /\ \A x \in Requests : whose'[x] = s <=> whose[x] = s
      /\ s \notin off'
  BY <1>0, <1>1 DEF Kept, KeptRow
<1> QED BY <1>0, <1>2, Elsewhere

LEMMA KeptForget ==
    ASSUME TypeOK, AtWork, NEW s \in Sessions, Kept(s), NEW k \in Calls, Forget(k), s \notin excused'
    PROVE  Kept(s)'
<1>0. /\ k \in shared /\ shared' = shared \ {k} /\ shared \subseteq Calls
      /\ UNCHANGED <<gen, ended, off, refresh, access, pc, whose, brought, token, gives, call, on, with, step, answer>>
  BY DEF Forget, rows, cookies, requests, calls, TypeOK
<1>1. CASE on[k] # s
  <2>1. /\ \A j \in Calls : on'[j] = s => (j \in shared' <=> j \in shared)
        /\ s \notin off' /\ shared' \subseteq Calls
    BY <1>0, <1>1 DEF Kept, KeptRow
  <2> QED BY <1>0, <2>1, Elsewhere
<1>2. CASE on[k] = s
  <2>1. ~Held(s, with[k])
    BY <1>2 DEF Forget, Excuse
  <2>2. KeptRow(s)' /\ KeptOnItsWay(s)' /\ \A x \in Requests : KeptRequest(s, x)'
    BY <1>0 DEF Kept, KeptRow, KeptOnItsWay, KeptRequest
  <2>3. step[k] # "rotating"
    BY <1>2, <2>1 DEF Kept, KeptCall, Held
  <2>4. \A j \in Calls : KeptCall(s, j)'
    BY <1>0, <2>3 DEF Kept, KeptCall
  <2>5. KeptShared(s)'
    <3>1. \A c \in Nat : Held(s, c)' => Held(s, c)
      BY <1>0 DEF Held
    <3>2. \A c \in Nat : Held(s, c)' /\ c < gen'[s] => \E j \in shared' : on'[j] = s /\ with'[j] = c
      <4> SUFFICES ASSUME NEW c \in Nat, Held(s, c)', c < gen'[s] PROVE \E j \in shared' : on'[j] = s /\ with'[j] = c
        OBVIOUS
      <4>1. PICK j \in shared : on[j] = s /\ with[j] = c
        BY <1>0, <3>1 DEF Kept, KeptShared
      <4>2. j # k
        BY <2>1, <3>1, <4>1
      <4> QED BY <1>0, <4>1, <4>2
    <3> QED BY <1>0, <3>2 DEF Kept, KeptShared
  <2> QED BY <2>2, <2>4, <2>5 DEF Kept
<1> QED BY <1>1, <1>2

LEMMA RestStep == TypeOK /\ AtRest /\ [Next]_vars => AtRest'
<1> SUFFICES ASSUME TypeOK, AtRest, [Next]_vars PROVE AtRest'
  OBVIOUS
<1>1. \/ UNCHANGED <<pc, whose, gives>>
      \/ \E r \in Requests, s \in Sessions, what \in {"page", "signout"} : Send(r, s, what)
      \/ \E r \in Requests : Handle(r) \/ Resume(r) \/ Use(r) \/ Receive(r) \/ Lose(r)
  BY DEF Next, SignIn, SwitchOff, CookieGoes, TokenGoes, Rotate, Revoke, CallFails, Forget, AppRefresh, vars, requests
<1>2. CASE UNCHANGED <<pc, whose, gives>>
  BY <1>2 DEF AtRest
<1>3. ASSUME NEW r \in Requests, NEW s \in Sessions, NEW what \in {"page", "signout"}, Send(r, s, what) PROVE AtRest'
  BY <1>3 DEF Send, AtRest, TypeOK
<1>4. ASSUME NEW r \in Requests, Handle(r) PROVE AtRest'
  BY <1>4 DEF Handle, AtRest, TypeOK
<1>5. ASSUME NEW r \in Requests, Resume(r) PROVE AtRest'
  BY <1>5 DEF Resume, AtRest, TypeOK
<1>6. ASSUME NEW r \in Requests, Use(r) PROVE AtRest'
  BY <1>6 DEF Use, AtRest, TypeOK
<1>7. ASSUME NEW r \in Requests, Receive(r) \/ Lose(r) PROVE AtRest'
  BY <1>7, SMTT(30) DEF Receive, Lose, Forgotten, AtRest, TypeOK
<1> QED
  BY <1>1, <1>2, <1>3, <1>4, <1>5, <1>6, <1>7

LEMMA KeepStep == TypeOK /\ AtWork /\ AtRest /\ KeepInv /\ [Next]_vars => KeepInv'
<1> SUFFICES ASSUME TypeOK, AtWork, AtRest, KeepInv, [Next]_vars, NEW s \in Sessions, s \notin excused' PROVE Kept(s)'
  BY DEF KeepInv
<1>1. excused \subseteq excused'
  BY DEF Next, SignIn, SwitchOff, CookieGoes, TokenGoes, Rotate, Revoke, CallFails, Forget, AppRefresh, Send, Handle,
         Resume, Use, Receive, Lose, Excuse, vars
<1>2. Kept(s)
  BY <1>1 DEF KeepInv
<1>3. CASE UNCHANGED vars
  <2>1. UNCHANGED <<gen, ended, off, refresh, access, pc, whose, brought, token, gives, call, shared, on, with, step, answer>>
        /\ shared \subseteq Calls
    BY <1>3 DEF vars, rows, cookies, requests, calls, TypeOK
  <2> QED BY <1>2, <2>1, Elsewhere DEF Kept, KeptRow
<1>4. CASE Next
  BY <1>2, <1>4, KeptSignIn, KeptSwitchOff, KeptCookieGoes, KeptTokenGoes, KeptRotate, KeptRevoke, KeptCallFails,
     KeptForget, KeptAppRefresh, KeptSend, KeptHandle, KeptResume, KeptUse, KeptReceive, KeptLose DEF Next
<1> QED
  BY <1>3, <1>4

\* A browser's own requests never sign it out, however many of them refresh at once, while
\* nothing is lost or late and nobody else uses its tokens (refreshOnce, RotateSession).
THEOREM BrowsersStaySignedIn == Spec => []StaysSignedIn
<1>1. Init => KeepInv /\ AtRest
  <2> SUFFICES ASSUME Init PROVE KeepInv /\ AtRest
    OBVIOUS
  <2>1. AtRest
    BY DEF Init, AtRest
  <2>2. ASSUME NEW s \in Sessions PROVE Kept(s)
    <3>1. KeptRow(s) /\ (\A r \in Requests : KeptRequest(s, r)) /\ (\A k \in Calls : KeptCall(s, k))
      BY SessionsAssumption DEF Init, KeptRow, KeptRequest, KeptCall
    <3>2. KeptShared(s) /\ KeptOnItsWay(s)
      BY DEF Init, KeptShared, KeptOnItsWay
    <3> QED BY <3>1, <3>2 DEF Kept
  <2> QED BY <2>1, <2>2 DEF KeepInv
<1>2. TypeOK /\ KeepInv => StaysSignedIn
  <2> SUFFICES ASSUME TypeOK, KeepInv, NEW s \in Sessions, gen[s] > 0, s \notin excused
               PROVE  ended[s] = "no" /\ (Quiet(s) => refresh[s] = gen[s])
    BY DEF StaysSignedIn
  <2>1. KeptRow(s) /\ KeptOnItsWay(s)
    BY DEF KeepInv, Kept
  <2>2. ~(gen[s] = refresh[s] + 1) \/ ~Quiet(s)
    BY <2>1 DEF KeptOnItsWay, Quiet
  <2> QED BY <2>1, <2>2 DEF KeptRow
<1> QED
  BY <1>1, <1>2, KeepStep, RestStep, TypeCorrect, PTL DEF Spec
===============================================================================

---------------------------- MODULE TokenRefresh ----------------------------
(***************************************************************************)
(* The session of one browser tab and the server that keeps it: http.ts    *)
(* (the interceptors that refresh an expired access token once for all the *)
(* calls that failed with 401, and repeat each), the auth store, AuthBoot, *)
(* the login page, Topbar's sign-out, and AuthService.refresh and logout.  *)
(*                                                                         *)
(* An access token and the refresh token issued with it have one number in *)
(* Tokens; session[t] is the stored session of refresh token t.  The tab   *)
(* runs JavaScript: what it does on one event is one step, and so is all   *)
(* that the resolution of the shared refresh promise sets off.  Answers    *)
(* may be lost (the 60 second timeout), the page may be reloaded at any    *)
(* point, and a refresh request the tab has given up goes on at the server.*)
(***************************************************************************)
EXTENDS Naturals

CONSTANTS
  Calls,       \* API calls the pages make, each once
  MaxTokens,   \* bound: token pairs issued
  MaxLogins,   \* bound: logins
  MaxReloads,  \* bound: page reloads
  None

ASSUME SessionAssumption ==
  /\ MaxTokens \in Nat /\ MaxLogins \in Nat /\ MaxReloads \in Nat
  /\ None \notin 1..MaxTokens
  /\ Calls \cap {"me", "signOut"} = {}

Tokens == 1..MaxTokens

\* AuthBoot's GET /auth/me and Topbar's POST /auth/logout are calls like the others.
AllCalls == Calls \cup {"me", "signOut"}

VARIABLES
  store,      \* the auth store [token, status], persisted but for the status
  ready,      \* AuthBoot has resolved: the pages are shown
  call,       \* [AllCalls -> [at, token, retried, body]]; body is the refresh token that
              \* a logout asks to revoke
  job,        \* [{"shared", "stray"} -> [at, token]]: the refresh request behind
              \* refreshPromise, and one the tab has given up
  session,    \* [Tokens -> "none", "active" or "revoked"]
  expired,    \* access tokens past their lifetime
  logins, reloads,
  disturbed   \* history: at the last login something of the session before was still on
              \* its way; or since then the user has signed out, the session was revoked,
              \* or an answer the session depends on was lost

vars == <<store, ready, call, job, session, expired, logins, reloads, disturbed>>

NoCall == [at |-> "unmade", token |-> None, retried |-> FALSE, body |-> None]
NoJob == [at |-> "none", token |-> None]
SignedOut == [token |-> None, status |-> "unauthenticated"]
SignedIn(t) == [token |-> t, status |-> "authenticated"]

Init ==
  /\ store = SignedOut
  /\ ready = TRUE
  /\ call = [c \in AllCalls |-> NoCall]
  /\ job = [j \in {"shared", "stray"} |-> NoJob]
  /\ session = [t \in Tokens |-> "none"]
  /\ expired = {}
  /\ logins = 0 /\ reloads = 0
  /\ disturbed = FALSE

Unissued == {t \in Tokens : session[t] = "none"}
Fresh(t) == t \in Unissued /\ \A u \in Unissued : t <= u

InFlight == {c \in AllCalls : call[c].at \in {"sent", "ok", "refused", "waiting"}}

-----------------------------------------------------------------------------
(* The server *)

\* The guard looks at the access token alone.  A logout revokes the session named in its body.
Answer(c) ==
  /\ call[c].at = "sent"
  /\ call' = [call EXCEPT ![c].at = IF call[c].token \in expired THEN "refused" ELSE "ok"]
  /\ session' = IF call'[c].at = "ok" /\ call[c].body # None
                THEN [session EXCEPT ![call[c].body] = "revoked"]
                ELSE session
  /\ UNCHANGED <<store, ready, job, expired, logins, reloads, disturbed>>

\* Mutant: the look-up hands on the session's state, not its verdict on it.
RefreshFindState(j) ==
  /\ job[j].at = "sent"
  /\ job' = [job EXCEPT ![j].at = session[job[j].token]]
  /\ UNCHANGED <<store, ready, call, session, expired, logins, reloads, disturbed>>

\* AuthService.refresh: find the active session, revoke it, issue a new pair.
RefreshFind(j) ==
  /\ job[j].at = "sent"
  /\ job' = [job EXCEPT ![j].at = IF session[job[j].token] = "active" THEN "found" ELSE "denied"]
  /\ UNCHANGED <<store, ready, call, session, expired, logins, reloads, disturbed>>

RefreshRevoke(j) ==
  /\ job[j].at = "found"
  /\ job' = [job EXCEPT ![j].at = "revoked"]
  /\ session' = [session EXCEPT ![job[j].token] = "revoked"]
  /\ UNCHANGED <<store, ready, call, expired, logins, reloads, disturbed>>

RefreshIssue(j) ==
  /\ job[j].at = "revoked"
  /\ \E t \in Tokens :
       /\ Fresh(t)
       /\ session' = [session EXCEPT ![t] = "active"]
       /\ job' = [job EXCEPT ![j] = [at |-> "issued", token |-> t]]
  /\ UNCHANGED <<store, ready, call, expired, logins, reloads, disturbed>>

\* The handler fails between two of its queries, or finds the account no longer active.
RefreshFail(j) ==
  /\ job[j].at \in {"found", "revoked"}
  /\ job' = [job EXCEPT ![j].at = "denied"]
  /\ disturbed' = TRUE
  /\ UNCHANGED <<store, ready, call, session, expired, logins, reloads>>

\* A password change, a reset, or the end of the refresh token's own lifetime.
RevokeElsewhere(t) ==
  /\ session[t] = "active"
  /\ session' = [session EXCEPT ![t] = "revoked"]
  /\ disturbed' = TRUE
  /\ UNCHANGED <<store, ready, call, job, expired, logins, reloads>>

\* An access token outlives its own delivery and the repeat of the calls it was fetched for
\* (minutes against seconds).
InDelivery(t) ==
  \/ job["shared"] = [at |-> "issued", token |-> t]
  \/ \E c \in AllCalls : call[c].at = "sent" /\ call[c].retried /\ call[c].token = t

Expire(t) ==
  /\ session[t] # "none" /\ t \notin expired
  /\ ~InDelivery(t)
  /\ expired' = expired \cup {t}
  /\ UNCHANGED <<store, ready, call, job, session, logins, reloads, disturbed>>

-----------------------------------------------------------------------------
(* The tab *)

Sent(token, retried, body) ==
  [at |-> "sent", token |-> token, retried |-> retried, body |-> body]

\* The login page: the session is stored before the page leaves it.  What the session before
\* has left on its way reaches the new one: a refresh denied, or a sign-out answered, clears it.
Login ==
  /\ ready /\ store.status = "unauthenticated"
  /\ logins < MaxLogins
  /\ \E t \in Tokens :
       /\ Fresh(t)
       /\ session' = [session EXCEPT ![t] = "active"]
       /\ store' = SignedIn(t)
  /\ logins' = logins + 1
  /\ disturbed' = (InFlight # {} \/ \E j \in DOMAIN job : job[j].at # "none")
  /\ UNCHANGED <<ready, call, job, expired, reloads>>

\* The pages are behind AuthBoot and RequireAuth; the request interceptor adds the token.
MakeCall(c) ==
  /\ ready /\ store.status = "authenticated"
  /\ call[c].at = "unmade"
  /\ call' = [call EXCEPT ![c] = Sent(store.token, FALSE, None)]
  /\ UNCHANGED <<store, ready, job, session, expired, logins, reloads, disturbed>>

SignOut ==
  /\ ready /\ store.status = "authenticated"
  /\ call["signOut"].at = "unmade"
  /\ call' = [call EXCEPT !["signOut"] = Sent(store.token, FALSE, store.token)]
  /\ disturbed' = TRUE
  /\ UNCHANGED <<store, ready, job, session, expired, logins, reloads>>

\* Mutant: the pages are shown only when the boot check succeeds.
SettleOnSuccess(settled, ok, stored) ==
  /\ store' = IF "signOut" \in settled \/ ("me" \in settled /\ ~ok) THEN SignedOut
              ELSE IF "me" \in settled THEN [stored EXCEPT !.status = "authenticated"]
              ELSE stored
  /\ ready' = (ready \/ ("me" \in settled /\ ok))

\* What the tab does when the calls in settled end, well or not: sign-out clears the store
\* either way, AuthBoot takes the user for signed in or clears it, then shows the pages.
Settle(settled, ok, stored) ==
  /\ store' = IF "signOut" \in settled \/ ("me" \in settled /\ ~ok) THEN SignedOut
              ELSE IF "me" \in settled THEN [stored EXCEPT !.status = "authenticated"]
              ELSE stored
  /\ ready' = (ready \/ "me" \in settled)

ReceiveOk(c) ==
  /\ call[c].at = "ok"
  /\ call' = [call EXCEPT ![c].at = "done"]
  /\ Settle({c}, TRUE, store)
  /\ UNCHANGED <<job, session, expired, logins, reloads, disturbed>>

\* Mutant: every 401 starts a refresh of its own.
ReceiveRefusedAnew(c) ==
  /\ call[c].at = "refused" /\ ~call[c].retried
  /\ store.token # None
  /\ call' = [call EXCEPT ![c].at = "waiting", ![c].retried = TRUE]
  /\ job' = [job EXCEPT !["shared"] = [at |-> "sent", token |-> store.token]]
  /\ UNCHANGED <<store, ready, session, expired, logins, reloads, disturbed>>

\* A first 401 joins the refresh under way, or starts it.
ReceiveRefused(c) ==
  /\ call[c].at = "refused" /\ ~call[c].retried
  /\ job["shared"].at # "none" \/ store.token # None
  /\ call' = [call EXCEPT ![c].at = "waiting", ![c].retried = TRUE]
  /\ job' = IF job["shared"].at # "none" THEN job
            ELSE [job EXCEPT !["shared"] = [at |-> "sent", token |-> store.token]]
  /\ UNCHANGED <<store, ready, session, expired, logins, reloads, disturbed>>

\* A second 401 is passed on; a first one without a refresh token clears the store as well.
ReceiveRejected(c) ==
  /\ call[c].at = "refused"
  /\ call[c].retried \/ (job["shared"].at = "none" /\ store.token = None)
  /\ call' = [call EXCEPT ![c].at = "failed"]
  /\ Settle({c}, FALSE, IF call[c].retried THEN store ELSE SignedOut)
  /\ UNCHANGED <<job, session, expired, logins, reloads, disturbed>>

Waiting == {c \in AllCalls : call[c].at = "waiting"}

\* The new session is stored and every waiting call repeated with it.
ReceiveSession ==
  LET t == job["shared"].token IN
  /\ job["shared"].at = "issued"
  /\ store' = SignedIn(t)
  /\ job' = [job EXCEPT !["shared"] = NoJob]
  /\ call' = [c \in AllCalls |-> IF c \in Waiting THEN Sent(t, TRUE, call[c].body) ELSE call[c]]
  /\ UNCHANGED <<ready, session, expired, logins, reloads, disturbed>>

\* Mutant: the tokens are cleared and the status is not.
GiveUpRefreshTokens ==
  /\ call' = [c \in AllCalls |-> IF c \in Waiting THEN [call[c] EXCEPT !.at = "failed"]
                                 ELSE call[c]]
  /\ Settle(Waiting, FALSE, [store EXCEPT !.token = None])

\* Mutant: the calls that wait are not told.
GiveUpRefreshSilently ==
  /\ UNCHANGED call
  /\ Settle({}, FALSE, SignedOut)

\* The promise resolves to null: every waiting call clears the store and fails.
GiveUpRefresh ==
  /\ call' = [c \in AllCalls |-> IF c \in Waiting THEN [call[c] EXCEPT !.at = "failed"]
                                 ELSE call[c]]
  /\ Settle(Waiting, FALSE, SignedOut)

ReceiveDenied ==
  /\ job["shared"].at = "denied"
  /\ job' = [job EXCEPT !["shared"] = NoJob]
  /\ GiveUpRefresh
  /\ UNCHANGED <<session, expired, logins, reloads, disturbed>>

\* The request goes on at the server without anyone to receive its answer.
Stray(j) == IF j.at \in {"sent", "found", "revoked"} THEN j ELSE NoJob

LoseRefresh ==
  /\ job["shared"].at # "none" /\ job["stray"].at = "none"
  /\ job' = [shared |-> NoJob, stray |-> Stray(job["shared"])]
  /\ GiveUpRefresh
  /\ disturbed' = TRUE
  /\ UNCHANGED <<session, expired, logins, reloads>>

DropStray ==
  /\ job["stray"].at \in {"issued", "denied"}
  /\ job' = [job EXCEPT !["stray"] = NoJob]
  /\ UNCHANGED <<store, ready, call, session, expired, logins, reloads, disturbed>>

\* A call times out or its answer is lost; AuthBoot clears the store on any failure.
LoseCall(c) ==
  /\ call[c].at \in {"sent", "ok", "refused"}
  /\ call' = [call EXCEPT ![c].at = "failed"]
  /\ Settle({c}, FALSE, store)
  /\ disturbed' = (disturbed \/ c = "me")
  /\ UNCHANGED <<job, session, expired, logins, reloads>>

\* The page is reloaded: what was in flight is forgotten, the persisted tokens are read back
\* and AuthBoot validates them, if there are any, before it shows the pages.
Reload ==
  /\ reloads < MaxReloads
  /\ job["stray"].at = "none"
  /\ reloads' = reloads + 1
  /\ job' = [shared |-> NoJob, stray |-> Stray(job["shared"])]
  /\ disturbed' = (disturbed \/ job["shared"].at # "none")
  /\ ready' = (store.token = None)
  /\ store' = [store EXCEPT !.status = IF store.token = None THEN "unauthenticated" ELSE "unknown"]
  /\ call' = [c \in AllCalls |->
                IF c = "me" /\ store.token # None THEN Sent(store.token, FALSE, None)
                ELSE IF c \in InFlight THEN [call[c] EXCEPT !.at = "failed"]
                ELSE call[c]]
  /\ UNCHANGED <<session, expired, logins>>

-----------------------------------------------------------------------------
RefreshStep(j) == RefreshFind(j) \/ RefreshRevoke(j) \/ RefreshIssue(j) \/ RefreshFail(j)

Receive(c) == ReceiveOk(c) \/ ReceiveRefused(c) \/ ReceiveRejected(c)

Next ==
  \/ Login \/ SignOut \/ Reload
  \/ \E c \in Calls : MakeCall(c)
  \/ \E c \in AllCalls : Answer(c) \/ Receive(c) \/ LoseCall(c)
  \/ \E j \in {"shared", "stray"} : RefreshStep(j)
  \/ ReceiveSession \/ ReceiveDenied \/ LoseRefresh \/ DropStray
  \/ \E t \in Tokens : Expire(t) \/ RevokeElsewhere(t)

\* A request is answered or times out, and the tab reacts to what it has received.
Fairness ==
  /\ \A c \in AllCalls : WF_vars(Answer(c) \/ LoseCall(c)) /\ WF_vars(Receive(c))
  /\ WF_vars(RefreshStep("shared") \/ LoseRefresh)
  /\ WF_vars(ReceiveSession \/ ReceiveDenied)

Spec == Init /\ [][Next]_vars /\ Fairness

-----------------------------------------------------------------------------
(* Properties *)

\* Every value has its type: the store's status, a call's progress, a session's state.
TypeOK ==
  /\ store \in [token : Tokens \cup {None},
                status : {"unknown", "authenticated", "unauthenticated"}]
  /\ ready \in BOOLEAN
  /\ call \in [AllCalls -> [at : {"unmade", "sent", "ok", "refused", "waiting", "done", "failed"},
                            token : Tokens \cup {None}, retried : BOOLEAN,
                            body : Tokens \cup {None}]]
  /\ job \in [{"shared", "stray"} ->
                [at : {"none", "sent", "found", "revoked", "issued", "denied"},
                 token : Tokens \cup {None}]]
  /\ session \in [Tokens -> {"none", "active", "revoked"}]
  /\ expired \subseteq Tokens
  /\ logins \in 0..MaxLogins /\ reloads \in 0..MaxReloads
  /\ disturbed \in BOOLEAN

\* Expiry alone never signs anyone out: however many calls fail with 401 at once or one after
\* another, whatever refreshes they share and wherever the page is reloaded between refreshes,
\* the tab keeps a session and the server keeps it usable, unless the user signed out, the
\* session was revoked, an answer it depends on was lost, or the user had logged in while
\* calls or a refresh of the session before were still on their way.
SessionKept ==
  logins > 0 /\ ~disturbed =>
    /\ store.token # None
    /\ job["shared"].at \in {"none", "sent", "found"} => session[store.token] = "active"
    /\ job["shared"].at = "issued" => session[job["shared"].token] = "active"

\* The pages are shown as signed in only with a token to call the server with, whatever
\* boot check, refresh or sign-out ends last.
AuthenticatedHasToken == store.status = "authenticated" => store.token # None

\* Every call a page makes is answered or fails, through refresh, repetition and reload.
CallsSettle == \A c \in AllCalls : call[c].at = "sent" ~> call[c].at \in {"done", "failed"}

\* The splash screen always gives way to the pages or the login.
BootResolves == ~ready ~> ready

=============================================================================

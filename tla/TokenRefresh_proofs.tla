-------------------------- MODULE TokenRefresh_proofs --------------------------
(***************************************************************************)
(* Theorems about TokenRefresh, for any number of calls, tokens, logins    *)
(* and reloads.                                                            *)
(*                                                                         *)
(* That expiry alone never ends a session rests on several things at once: *)
(* the shared refresh carries the stored token until the server revokes    *)
(* it, its new token reaches the store before it can expire, no call is    *)
(* repeated twice, and after a reload nothing but the boot check runs      *)
(* until it has settled (BootAlone).                                       *)
(***************************************************************************)
EXTENDS TokenRefresh, TLAPS

StoreDoc == [token : Tokens \cup {None},
             status : {"unknown", "authenticated", "unauthenticated"}]
CallDoc == [at : {"unmade", "sent", "ok", "refused", "waiting", "done", "failed"},
            token : Tokens \cup {None}, retried : BOOLEAN, body : Tokens \cup {None}]
JobDoc == [at : {"none", "sent", "found", "revoked", "issued", "denied"},
           token : Tokens \cup {None}]
Flying(d) == d.at \in {"sent", "ok", "refused", "waiting"}

\* A refresh is about a token, and while the tab awaits one, some call does.
JobsFounded ==
  /\ \A j \in {"shared", "stray"} : job[j].at # "none" => job[j].token \in Tokens
  /\ job["shared"].at # "none" => \E c \in AllCalls : call[c].at = "waiting"

\* While AuthBoot validates a token, the tab has it and makes no other call.
BootAlone ==
  Flying(call["me"]) =>
    /\ ~ready /\ store.token # None
    /\ \A c \in AllCalls : Flying(call[c]) => c = "me"

\* Tokens that have expired had been issued; one on its way to the repeated calls has not
\* expired, so no repeated call is refused.
Delivered ==
  /\ \A t \in expired : session[t] # "none"
  /\ job["shared"].at = "issued" => job["shared"].token \notin expired
  /\ \A c \in AllCalls : call[c].retried =>
       /\ call[c].at = "sent" => call[c].token \notin expired
       /\ call[c].at # "refused"

\* What keeps the session of a login that nothing has disturbed.
Kept ==
  /\ store.token \in Tokens
  /\ job["stray"].at = "none" /\ job["shared"].at # "denied"
  /\ job["shared"].at \in {"none", "sent", "found"} => session[store.token] = "active"
  /\ job["shared"].at \in {"sent", "found"} => job["shared"].token = store.token
  /\ job["shared"].at = "issued" => session[job["shared"].token] = "active"
  /\ \A c \in AllCalls : Flying(call[c]) => c # "signOut" /\ call[c].body = None

SessionTyped ==
  /\ store \in StoreDoc
  /\ ready \in BOOLEAN
  /\ call \in [AllCalls -> CallDoc]
  /\ job \in [{"shared", "stray"} -> JobDoc]
  /\ session \in [Tokens -> {"none", "active", "revoked"}]
  /\ expired \subseteq Tokens
  /\ logins \in 0..MaxLogins /\ reloads \in 0..MaxReloads
  /\ disturbed \in BOOLEAN

\* The inductive invariant.
SessionInv ==
  /\ SessionTyped
  /\ JobsFounded
  /\ BootAlone
  /\ AuthenticatedHasToken
  /\ Delivered
  /\ logins > 0 /\ ~disturbed => Kept

-----------------------------------------------------------------------------
LEMMA NoneIsNoToken == None \notin Tokens
  BY SessionAssumption DEF Tokens

LEMMA StepAnswer ==
  ASSUME SessionInv, NEW c \in AllCalls, Answer(c)
  PROVE  SessionInv'
<1>1. SessionTyped'
  BY DEF SessionInv, SessionTyped, Answer, CallDoc
<1>2. JobsFounded'
  BY DEF SessionInv, JobsFounded, Answer
<1>3. BootAlone'
  BY DEF SessionInv, BootAlone, Answer, Flying
<1>4. AuthenticatedHasToken'
  BY DEF SessionInv, AuthenticatedHasToken, Answer
<1>5. Delivered'
  BY DEF SessionInv, Delivered, Answer
<1>6. (logins > 0 /\ ~disturbed => Kept)'
  BY DEF SessionInv, Kept, Answer, Flying
<1>7. QED
  BY <1>1, <1>2, <1>3, <1>4, <1>5, <1>6 DEF SessionInv

LEMMA StepRefreshFind ==
  ASSUME SessionInv, NEW j \in {"shared", "stray"}, RefreshFind(j)
  PROVE  SessionInv'
<1>1. SessionTyped'
  BY DEF SessionInv, SessionTyped, RefreshFind, JobDoc
<1>2. JobsFounded'
  BY DEF SessionInv, JobsFounded, RefreshFind
<1>3. BootAlone'
  BY DEF SessionInv, BootAlone, RefreshFind, Flying
<1>4. AuthenticatedHasToken'
  BY DEF SessionInv, AuthenticatedHasToken, RefreshFind
<1>5. Delivered'
  BY DEF SessionInv, Delivered, RefreshFind
<1>6. (logins > 0 /\ ~disturbed => Kept)'
  BY DEF SessionInv, Kept, RefreshFind, Flying
<1>7. QED
  BY <1>1, <1>2, <1>3, <1>4, <1>5, <1>6 DEF SessionInv

LEMMA StepRefreshRevoke ==
  ASSUME SessionInv, NEW j \in {"shared", "stray"}, RefreshRevoke(j)
  PROVE  SessionInv'
<1>1. SessionTyped'
  BY DEF SessionInv, SessionTyped, RefreshRevoke, JobDoc
<1>2. JobsFounded'
  BY DEF SessionInv, JobsFounded, RefreshRevoke
<1>3. BootAlone'
  BY DEF SessionInv, BootAlone, RefreshRevoke, Flying
<1>4. AuthenticatedHasToken'
  BY DEF SessionInv, AuthenticatedHasToken, RefreshRevoke
<1>5. Delivered'
  BY DEF SessionInv, Delivered, RefreshRevoke
<1>6. (logins > 0 /\ ~disturbed => Kept)'
  BY DEF SessionInv, Kept, RefreshRevoke, SessionTyped
<1>7. QED
  BY <1>1, <1>2, <1>3, <1>4, <1>5, <1>6 DEF SessionInv

LEMMA StepRefreshIssue ==
  ASSUME SessionInv, NEW j \in {"shared", "stray"}, RefreshIssue(j)
  PROVE  SessionInv'
<1>1. SessionTyped'
  BY DEF SessionInv, SessionTyped, RefreshIssue, JobDoc
<1>2. JobsFounded'
  BY DEF SessionInv, JobsFounded, RefreshIssue
<1>3. BootAlone'
  BY DEF SessionInv, BootAlone, RefreshIssue
<1>4. AuthenticatedHasToken'
  BY DEF SessionInv, AuthenticatedHasToken, RefreshIssue
<1>5. Delivered'
  BY DEF SessionInv, Delivered, RefreshIssue, Fresh, Unissued
<1>6. (logins > 0 /\ ~disturbed => Kept)'
  BY DEF SessionInv, Kept, RefreshIssue, SessionTyped
<1>7. QED
  BY <1>1, <1>2, <1>3, <1>4, <1>5, <1>6 DEF SessionInv

LEMMA StepRefreshFail ==
  ASSUME SessionInv, NEW j \in {"shared", "stray"}, RefreshFail(j)
  PROVE  SessionInv'
<1>1. SessionTyped'
  BY DEF SessionInv, SessionTyped, RefreshFail, JobDoc
<1>2. JobsFounded'
  BY DEF SessionInv, JobsFounded, RefreshFail
<1>3. BootAlone'
  BY DEF SessionInv, BootAlone, RefreshFail, Flying
<1>4. AuthenticatedHasToken'
  BY DEF SessionInv, AuthenticatedHasToken, RefreshFail
<1>5. Delivered'
  BY DEF SessionInv, Delivered, RefreshFail
<1>6. (logins > 0 /\ ~disturbed => Kept)'
  BY DEF SessionInv, Kept, RefreshFail, Flying
<1>7. QED
  BY <1>1, <1>2, <1>3, <1>4, <1>5, <1>6 DEF SessionInv

LEMMA StepRevokeElsewhere ==
  ASSUME SessionInv, NEW t \in Tokens, RevokeElsewhere(t)
  PROVE  SessionInv'
<1>1. SessionTyped'
  BY DEF SessionInv, SessionTyped, RevokeElsewhere
<1>2. JobsFounded'
  BY DEF SessionInv, JobsFounded, RevokeElsewhere
<1>3. BootAlone'
  BY DEF SessionInv, BootAlone, RevokeElsewhere, Flying
<1>4. AuthenticatedHasToken'
  BY DEF SessionInv, AuthenticatedHasToken, RevokeElsewhere
<1>5. Delivered'
  BY DEF SessionInv, Delivered, RevokeElsewhere
<1>6. (logins > 0 /\ ~disturbed => Kept)'
  BY DEF SessionInv, Kept, RevokeElsewhere, Flying
<1>7. QED
  BY <1>1, <1>2, <1>3, <1>4, <1>5, <1>6 DEF SessionInv

LEMMA StepExpire ==
  ASSUME SessionInv, NEW t \in Tokens, Expire(t)
  PROVE  SessionInv'
<1>1. SessionTyped'
  BY DEF SessionInv, SessionTyped, Expire, InDelivery
<1>2. JobsFounded'
  BY DEF SessionInv, JobsFounded, Expire, InDelivery
<1>3. BootAlone'
  BY DEF SessionInv, BootAlone, Expire
<1>4. AuthenticatedHasToken'
  BY DEF SessionInv, AuthenticatedHasToken, Expire, InDelivery
<1>5. Delivered'
  BY DEF SessionInv, Delivered, Expire, InDelivery, SessionTyped, JobDoc
<1>6. (logins > 0 /\ ~disturbed => Kept)'
  BY DEF SessionInv, Kept, Expire
<1>7. QED
  BY <1>1, <1>2, <1>3, <1>4, <1>5, <1>6 DEF SessionInv

LEMMA StepLogin ==
  ASSUME SessionInv, Login
  PROVE  SessionInv'
<1>1. SessionTyped'
  BY SessionAssumption DEF SessionInv, SessionTyped, StoreDoc, Login, SignedIn
<1>2. JobsFounded'
  BY DEF SessionInv, JobsFounded, Login
<1>3. BootAlone'
  BY DEF SessionInv, BootAlone, Login
<1>4. AuthenticatedHasToken'
  BY NoneIsNoToken DEF AuthenticatedHasToken, Login, SignedIn
<1>5. Delivered'
  BY DEF SessionInv, Delivered, Login
<1>6. (logins > 0 /\ ~disturbed => Kept)'
  <2> SUFFICES ASSUME ~disturbed' PROVE Kept'
    OBVIOUS
  <2>1. /\ \A c \in AllCalls : ~Flying(call[c])
        /\ job["shared"].at = "none" /\ job["stray"].at = "none"
    BY DEF Login, InFlight, Flying, SessionInv, SessionTyped
  <2>2. PICK t \in Tokens : store' = SignedIn(t) /\ session' = [session EXCEPT ![t] = "active"]
    BY DEF Login
  <2>3. store'.token = t /\ session'[t] = "active"
    BY <2>2 DEF SignedIn, SessionInv, SessionTyped
  <2>4. QED
    BY <2>1, <2>3 DEF Login, Kept
<1>7. QED
  BY <1>1, <1>2, <1>3, <1>4, <1>5, <1>6 DEF SessionInv

LEMMA StepMakeCall ==
  ASSUME SessionInv, NEW c \in Calls, MakeCall(c)
  PROVE  SessionInv'
<1>1. SessionTyped'
  BY DEF SessionInv, SessionTyped, MakeCall, Sent, StoreDoc, CallDoc
<1>2. JobsFounded'
  BY DEF SessionInv, JobsFounded, MakeCall, Sent
<1>3. BootAlone'
  BY SessionAssumption DEF SessionInv, BootAlone, MakeCall, Sent
<1>4. AuthenticatedHasToken'
  BY DEF SessionInv, AuthenticatedHasToken, MakeCall, Sent
<1>5. Delivered'
  BY DEF SessionInv, Delivered, MakeCall, Sent
<1>6. (logins > 0 /\ ~disturbed => Kept)'
  BY SessionAssumption DEF SessionInv, Kept, MakeCall, Sent
<1>7. QED
  BY <1>1, <1>2, <1>3, <1>4, <1>5, <1>6 DEF SessionInv

LEMMA StepSignOut ==
  ASSUME SessionInv, SignOut
  PROVE  SessionInv'
<1>1. SessionTyped'
  BY DEF SessionInv, SessionTyped, SignOut, Sent, StoreDoc, CallDoc
<1>2. JobsFounded'
  BY DEF SessionInv, JobsFounded, SignOut, Sent
<1>3. BootAlone'
  BY DEF SessionInv, BootAlone, SignOut
<1>4. AuthenticatedHasToken'
  BY DEF SessionInv, AuthenticatedHasToken, SignOut, Sent
<1>5. Delivered'
  BY DEF SessionInv, Delivered, SignOut, Sent
<1>6. (logins > 0 /\ ~disturbed => Kept)'
  BY DEF SignOut
<1>7. QED
  BY <1>1, <1>2, <1>3, <1>4, <1>5, <1>6 DEF SessionInv

LEMMA StepReceiveOk ==
  ASSUME SessionInv, NEW c \in AllCalls, ReceiveOk(c)
  PROVE  SessionInv'
<1>1. SessionTyped'
  BY DEF SessionInv, SessionTyped, ReceiveOk, Settle, SignedOut, StoreDoc, CallDoc
<1>2. JobsFounded'
  BY DEF SessionInv, JobsFounded, ReceiveOk
<1>3. BootAlone'
  BY DEF SessionInv, BootAlone, ReceiveOk, Flying, SessionTyped
<1>4. AuthenticatedHasToken'
  BY DEF SessionInv, BootAlone, AuthenticatedHasToken, Flying, ReceiveOk, Settle,
     SignedOut
<1>5. Delivered'
  BY DEF SessionInv, Delivered, ReceiveOk
<1>6. (logins > 0 /\ ~disturbed => Kept)'
  BY DEF SessionInv, Kept, ReceiveOk, Settle, Flying
<1>7. QED
  BY <1>1, <1>2, <1>3, <1>4, <1>5, <1>6 DEF SessionInv

LEMMA StepReceiveRefused ==
  ASSUME SessionInv, NEW c \in AllCalls, ReceiveRefused(c)
  PROVE  SessionInv'
<1>1. SessionTyped'
  BY DEF SessionInv, SessionTyped, ReceiveRefused, CallDoc
<1>2. JobsFounded'
  BY DEF SessionInv, ReceiveRefused, SessionTyped, CallDoc
<1>3. BootAlone'
  BY DEF SessionInv, ReceiveRefused, SessionTyped, CallDoc
<1>4. AuthenticatedHasToken'
  BY DEF SessionInv, AuthenticatedHasToken, ReceiveRefused
<1>5. Delivered'
  BY DEF SessionInv, Delivered, ReceiveRefused, SessionTyped
<1>6. (logins > 0 /\ ~disturbed => Kept)'
  BY DEF SessionInv, Kept, ReceiveRefused, Flying, SessionTyped
<1>7. QED
  BY <1>1, <1>2, <1>3, <1>4, <1>5, <1>6 DEF SessionInv

LEMMA StepReceiveRejected ==
  ASSUME SessionInv, NEW c \in AllCalls, ReceiveRejected(c)
  PROVE  SessionInv'
<1>1. SessionTyped'
  BY DEF SessionInv, SessionTyped, ReceiveRejected, Settle, SignedOut, StoreDoc, CallDoc
<1>2. JobsFounded'
  BY DEF SessionInv, JobsFounded, ReceiveRejected
<1>3. BootAlone'
  BY DEF SessionInv, BootAlone, ReceiveRejected, Flying, SessionTyped
<1>4. AuthenticatedHasToken'
  BY DEF SessionInv, AuthenticatedHasToken, ReceiveRejected, Settle, SignedOut
<1>5. Delivered'
  BY DEF SessionInv, Delivered, ReceiveRejected
<1>6. (logins > 0 /\ ~disturbed => Kept)'
  BY DEF SessionInv, Delivered, Kept, Flying, ReceiveRejected, Settle, SignedOut
<1>7. QED
  BY <1>1, <1>2, <1>3, <1>4, <1>5, <1>6 DEF SessionInv

LEMMA StepReceiveSession ==
  ASSUME SessionInv, ReceiveSession
  PROVE  SessionInv'
<1>1. SessionTyped'
  BY DEF SessionInv, SessionTyped, ReceiveSession, SignedIn, Sent, NoJob, StoreDoc,
     CallDoc, JobDoc
<1>2. JobsFounded'
  BY DEF SessionInv, JobsFounded, ReceiveSession, NoJob, SessionTyped
<1>3. BootAlone'
  BY NoneIsNoToken DEF SessionInv, BootAlone, ReceiveSession, SignedIn, Waiting, Flying,
     JobsFounded, AllCalls
<1>4. AuthenticatedHasToken'
  BY NoneIsNoToken DEF SessionInv, AuthenticatedHasToken, ReceiveSession, SignedIn,
     JobsFounded
<1>5. Delivered'
  BY DEF SessionInv, Delivered, ReceiveSession, Sent, NoJob
<1>6. (logins > 0 /\ ~disturbed => Kept)'
  BY DEF SessionInv, Kept, ReceiveSession, SignedIn, Sent, NoJob, Waiting, Flying,
     JobsFounded
<1>7. QED
  BY <1>1, <1>2, <1>3, <1>4, <1>5, <1>6 DEF SessionInv

LEMMA StepReceiveDenied ==
  ASSUME SessionInv, ReceiveDenied
  PROVE  SessionInv'
<1>1. SessionTyped'
  BY DEF SessionInv, SessionTyped, ReceiveDenied, GiveUpRefresh, Settle, SignedOut, NoJob,
     StoreDoc, CallDoc, JobDoc
<1>2. JobsFounded'
  BY DEF SessionInv, JobsFounded, ReceiveDenied, NoJob, SessionTyped
<1>3. BootAlone'
  BY DEF SessionInv, BootAlone, ReceiveDenied, GiveUpRefresh, Waiting, Flying,
     JobsFounded, AllCalls
<1>4. AuthenticatedHasToken'
  BY DEF AuthenticatedHasToken, ReceiveDenied, GiveUpRefresh, Settle, SignedOut
<1>5. Delivered'
  BY DEF SessionInv, Delivered, ReceiveDenied, GiveUpRefresh, NoJob
<1>6. (logins > 0 /\ ~disturbed => Kept)'
  BY DEF SessionInv, Kept, ReceiveDenied
<1>7. QED
  BY <1>1, <1>2, <1>3, <1>4, <1>5, <1>6 DEF SessionInv

LEMMA StepLoseRefresh ==
  ASSUME SessionInv, LoseRefresh
  PROVE  SessionInv'
<1>1. SessionTyped'
  BY DEF SessionInv, SessionTyped, LoseRefresh, GiveUpRefresh, Settle, SignedOut, NoJob,
     Stray, StoreDoc, CallDoc, JobDoc
<1>2. JobsFounded'
  BY DEF SessionInv, JobsFounded, LoseRefresh, NoJob, Stray
<1>3. BootAlone'
  BY DEF SessionInv, BootAlone, LoseRefresh, GiveUpRefresh, Waiting, Flying, JobsFounded,
     AllCalls
<1>4. AuthenticatedHasToken'
  BY DEF AuthenticatedHasToken, LoseRefresh, GiveUpRefresh, Settle, SignedOut
<1>5. Delivered'
  BY DEF SessionInv, Delivered, LoseRefresh, GiveUpRefresh, NoJob
<1>6. (logins > 0 /\ ~disturbed => Kept)'
  BY DEF LoseRefresh
<1>7. QED
  BY <1>1, <1>2, <1>3, <1>4, <1>5, <1>6 DEF SessionInv

LEMMA StepDropStray ==
  ASSUME SessionInv, DropStray
  PROVE  SessionInv'
<1>1. SessionTyped'
  BY DEF SessionInv, SessionTyped, DropStray, NoJob, JobDoc
<1>2. JobsFounded'
  BY DEF SessionInv, JobsFounded, DropStray, NoJob
<1>3. BootAlone'
  BY DEF SessionInv, BootAlone, DropStray
<1>4. AuthenticatedHasToken'
  BY DEF SessionInv, AuthenticatedHasToken, DropStray, NoJob
<1>5. Delivered'
  BY DEF SessionInv, Delivered, DropStray, NoJob
<1>6. (logins > 0 /\ ~disturbed => Kept)'
  BY DEF SessionInv, Kept, DropStray
<1>7. QED
  BY <1>1, <1>2, <1>3, <1>4, <1>5, <1>6 DEF SessionInv

LEMMA StepLoseCall ==
  ASSUME SessionInv, NEW c \in AllCalls, LoseCall(c)
  PROVE  SessionInv'
<1>1. SessionTyped'
  BY SMTT(30) DEF SessionInv, SessionTyped, LoseCall, Settle, SignedOut, StoreDoc, CallDoc
<1>2. JobsFounded'
  BY DEF SessionInv, JobsFounded, LoseCall
<1>3. BootAlone'
  BY DEF SessionInv, BootAlone, LoseCall, Flying, SessionTyped
<1>4. AuthenticatedHasToken'
  BY DEF SessionInv, AuthenticatedHasToken, LoseCall, Settle, SignedOut
<1>5. Delivered'
  BY DEF SessionInv, Delivered, LoseCall
<1>6. (logins > 0 /\ ~disturbed => Kept)'
  <2> SUFFICES ASSUME logins' > 0, ~disturbed' PROVE Kept'
    OBVIOUS
  <2>1. Kept /\ c # "me" /\ Flying(call[c])
    BY DEF LoseCall, SessionInv, Flying
  <2>2. store' = store
    BY <2>1 DEF LoseCall, Settle, Kept
  <2>3. \A x \in AllCalls : Flying(call'[x]) => x # "signOut" /\ call'[x].body = None
    BY <2>1 DEF LoseCall, Kept, Flying, SessionInv, SessionTyped, CallDoc
  <2>4. QED
    BY <2>1, <2>2, <2>3 DEF LoseCall, Kept
<1>7. QED
  BY <1>1, <1>2, <1>3, <1>4, <1>5, <1>6 DEF SessionInv

LEMMA StepReload ==
  ASSUME SessionInv, Reload
  PROVE  SessionInv'
<1>1. SessionTyped'
  BY SessionAssumption DEF SessionInv, SessionTyped, StoreDoc, CallDoc, JobDoc, Reload,
     Stray, NoJob, Sent
<1>2. JobsFounded'
  BY DEF SessionInv, JobsFounded, Reload, Stray, NoJob, Sent
<1>3. BootAlone'
  <2>1. \A c \in AllCalls : Flying(call'[c]) => c = "me" /\ store.token # None
    BY DEF Reload, InFlight, Flying, Sent, SessionInv, SessionTyped, CallDoc
  <2>2. store'.token = store.token /\ (store.token # None => ~ready')
    BY DEF Reload, SessionInv, SessionTyped, StoreDoc
  <2>3. QED
    BY <2>1, <2>2 DEF BootAlone, AllCalls
<1>4. AuthenticatedHasToken'
  BY DEF AuthenticatedHasToken, Reload
<1>5. Delivered'
  BY DEF SessionInv, Delivered, Reload, NoJob, Sent
<1>6. (logins > 0 /\ ~disturbed => Kept)'
  BY DEF SessionInv, Kept, Reload, Stray, NoJob, Sent, InFlight, Flying, SessionTyped,
     StoreDoc, CallDoc
<1>7. QED
  BY <1>1, <1>2, <1>3, <1>4, <1>5, <1>6 DEF SessionInv


-----------------------------------------------------------------------------
LEMMA InitSessionInv == Init => SessionInv
<1> SUFFICES ASSUME Init PROVE SessionInv
  OBVIOUS
<1>1. SessionTyped
  <2>1. SignedOut \in StoreDoc /\ NoCall \in CallDoc /\ NoJob \in JobDoc
    BY DEF StoreDoc, CallDoc, JobDoc, SignedOut, NoCall, NoJob
  <2>2. logins \in 0..MaxLogins /\ reloads \in 0..MaxReloads
    BY SessionAssumption DEF Init
  <2>3. QED
    BY <2>1, <2>2 DEF Init, SessionTyped
<1>2. JobsFounded /\ BootAlone /\ AuthenticatedHasToken /\ Delivered
  BY DEF Init, JobsFounded, BootAlone, AuthenticatedHasToken, Delivered, Flying, SignedOut,
         NoCall, NoJob, AllCalls
<1>3. QED
  BY <1>1, <1>2 DEF Init, SessionInv

LEMMA StepSessionInv == SessionInv /\ [Next]_vars => SessionInv'
<1> SUFFICES ASSUME SessionInv, [Next]_vars PROVE SessionInv'
  OBVIOUS
<1>1. CASE Login \/ SignOut \/ Reload
  BY <1>1, StepLogin, StepSignOut, StepReload
<1>2. ASSUME NEW c \in Calls, MakeCall(c) PROVE SessionInv'
  BY <1>2, StepMakeCall
<1>3. ASSUME NEW c \in AllCalls, Answer(c) \/ Receive(c) \/ LoseCall(c) PROVE SessionInv'
  BY <1>3, StepAnswer, StepReceiveOk, StepReceiveRefused, StepReceiveRejected, StepLoseCall
  DEF Receive
<1>4. ASSUME NEW j \in {"shared", "stray"}, RefreshStep(j) PROVE SessionInv'
  BY <1>4, StepRefreshFind, StepRefreshRevoke, StepRefreshIssue, StepRefreshFail
  DEF RefreshStep
<1>5. CASE ReceiveSession \/ ReceiveDenied \/ LoseRefresh \/ DropStray
  BY <1>5, StepReceiveSession, StepReceiveDenied, StepLoseRefresh, StepDropStray
<1>6. ASSUME NEW t \in Tokens, Expire(t) \/ RevokeElsewhere(t) PROVE SessionInv'
  BY <1>6, StepExpire, StepRevokeElsewhere
<1>7. CASE UNCHANGED vars
  BY <1>7 DEF vars, SessionInv, SessionTyped, JobsFounded, BootAlone, AuthenticatedHasToken,
              Delivered, Kept
<1>8. QED
  BY <1>1, <1>2, <1>3, <1>4, <1>5, <1>6, <1>7 DEF Next

LEMMA SessionInvariant == Spec => []SessionInv
<1>1. Init => SessionInv
  BY InitSessionInv
<1>2. SessionInv /\ [Next]_vars => SessionInv'
  BY StepSessionInv
<1>3. QED
  BY <1>1, <1>2, PTL DEF Spec

-----------------------------------------------------------------------------
(* The theorems *)

\* The auth store, the calls and the refresh requests (http.ts, auth-store.ts) and the server's
\* sessions always have their type.
THEOREM SessionTypeCorrect == Spec => []TypeOK
<1>1. SessionInv => TypeOK
  BY DEF SessionInv, SessionTyped, TypeOK, StoreDoc, CallDoc, JobDoc
<1>2. QED
  BY <1>1, SessionInvariant, PTL

\* Expiry alone never ends a session (http.ts:71, the refresh shared by the calls that failed
\* at once): only a sign-out, a revocation, a lost answer or what an earlier session had left
\* on its way at the login does.
THEOREM ExpiryEndsNoSession == Spec => []SessionKept
<1>1. SessionInv => SessionKept
  BY NoneIsNoToken DEF SessionInv, SessionKept, Kept
<1>2. QED
  BY <1>1, SessionInvariant, PTL

\* RequireAuth lets the pages be shown with a token only, whatever boot check, refresh or
\* sign-out ends last.
THEOREM SignedInHasToken == Spec => []AuthenticatedHasToken
<1>1. SessionInv => AuthenticatedHasToken
  BY DEF SessionInv
<1>2. QED
  BY <1>1, SessionInvariant, PTL

-----------------------------------------------------------------------------
(* Towards liveness: what CallsSettle and BootResolves need besides fairness.  No call waits  *)
(* without a refresh under way, and neither calls nor refreshes go round in circles.          *)

\* A call that waits for the shared refresh has one to wait for (http.ts refreshPromise): no
\* order of answers, refusals, lost answers and reloads leaves a call waiting for nobody, and
\* a refresh whose answer the tab awaits is awaited by some call.
THEOREM NobodyWaitsInVain ==
  Spec => []((\E c \in AllCalls : call[c].at = "waiting") <=> job["shared"].at # "none")
<1> DEFINE Waited == \A c \in AllCalls : call[c].at = "waiting" => job["shared"].at # "none"
<1>1. Init => Waited
  BY DEF Init, NoCall
<1>2. ASSUME SessionInv, Waited, [Next]_vars PROVE Waited'
  <2> USE DEF SessionInv, SessionTyped
  <2>1. CASE Login \/ SignOut
    BY <1>2, <2>1 DEF Login, SignOut, Sent
  <2>2. CASE Reload
    BY <1>2, <2>2 DEF Reload, InFlight, Sent
  <2>3. ASSUME NEW c \in Calls, MakeCall(c) PROVE Waited'
    BY <1>2, <2>3 DEF MakeCall, Sent
  <2>4. ASSUME NEW c \in AllCalls, Answer(c) \/ LoseCall(c) \/ ReceiveOk(c) \/ ReceiveRejected(c)
        PROVE  Waited'
    <3>1. \E at \in {"ok", "refused", "done", "failed"} : call' = [call EXCEPT ![c].at = at]
      BY <2>4 DEF Answer, LoseCall, ReceiveOk, ReceiveRejected
    <3>2. UNCHANGED job
      BY <2>4 DEF Answer, LoseCall, ReceiveOk, ReceiveRejected
    <3>3. QED
      BY <1>2, <3>1, <3>2 DEF CallDoc
  <2>5. ASSUME NEW c \in AllCalls, ReceiveRefused(c) PROVE Waited'
    BY <1>2, <2>5 DEF ReceiveRefused
  <2>6. ASSUME NEW j \in {"shared", "stray"}, RefreshStep(j) PROVE Waited'
    <3>1. UNCHANGED call /\ (job["shared"].at # "none" => job'["shared"].at # "none")
      BY <1>2, <2>6
         DEF RefreshStep, RefreshFind, RefreshRevoke, RefreshIssue, RefreshFail, JobDoc
    <3>2. QED
      BY <1>2, <3>1
  <2>7. CASE ReceiveSession
    BY <1>2, <2>7 DEF ReceiveSession, Waiting, Sent
  <2>8. CASE ReceiveDenied \/ LoseRefresh
    <3>1. \A c \in AllCalls :
            call'[c] = IF call[c].at = "waiting" THEN [call[c] EXCEPT !.at = "failed"] ELSE call[c]
      BY <2>8 DEF ReceiveDenied, LoseRefresh, GiveUpRefresh, Waiting
    <3>2. \A c \in AllCalls : [call[c] EXCEPT !.at = "failed"].at = "failed"
      BY <1>2 DEF CallDoc
    <3>3. QED
      BY <3>1, <3>2
  <2>9. CASE DropStray \/ \E t \in Tokens : Expire(t) \/ RevokeElsewhere(t)
    BY <1>2, <2>9 DEF DropStray, Expire, RevokeElsewhere
  <2>10. CASE UNCHANGED vars
    BY <1>2, <2>10 DEF vars
  <2>11. QED
    BY <1>2, <2>1, <2>2, <2>3, <2>4, <2>5, <2>6, <2>7, <2>8, <2>9, <2>10 DEF Next, Receive
<1>3. SessionInv /\ Waited => ((\E c \in AllCalls : call[c].at = "waiting")
                                 <=> job["shared"].at # "none")
  BY DEF SessionInv, JobsFounded
<1> HIDE DEF Waited
<1>4. QED
  BY <1>1, <1>2, <1>3, SessionInvariant, PTL DEF Spec

\* The steps a call has before it at most: it is sent, answered, and after one refusal waits,
\* is sent and answered once more.
StepsLeft(d) ==
  CASE d.at = "unmade" -> 7
    [] d.at = "sent" /\ ~d.retried -> 6
    [] d.at \in {"ok", "refused"} /\ ~d.retried -> 5
    [] d.at = "waiting" -> 4
    [] d.at = "sent" /\ d.retried -> 3
    [] d.at \in {"ok", "refused"} /\ d.retried -> 2
    [] OTHER -> 1

\* Every step that moves a call brings it nearer to its end: a call is repeated once at most,
\* however its repetition is answered (http.ts, _retry).  Only a reload makes a call anew,
\* AuthBoot's.
THEOREM CallsAdvance ==
  Spec => [][\A c \in AllCalls :
               \/ call'[c] = call[c] \/ StepsLeft(call'[c]) < StepsLeft(call[c])
               \/ c = "me" /\ Reload]_vars
<1> DEFINE Nearer(c) == call'[c] = call[c] \/ StepsLeft(call'[c]) < StepsLeft(call[c])
           Boots(c) == c = "me" /\ Reload
<1>1. ASSUME SessionInv, [Next]_vars, NEW c \in AllCalls PROVE Nearer(c) \/ Boots(c)
  <2> USE DEF SessionInv, SessionTyped
  <2>0. call[c] \in CallDoc /\ call[c].retried \in BOOLEAN
    BY <1>1 DEF CallDoc
  <2>1. ASSUME NEW d \in AllCalls, call' = [call EXCEPT ![d] = Sent(store.token, FALSE, None)]
                 \/ call' = [call EXCEPT ![d] = Sent(store.token, FALSE, store.token)],
               call[d].at = "unmade"
        PROVE  Nearer(c)
    BY <1>1, <2>1 DEF Sent, StepsLeft
  <2>2. CASE SignOut \/ \E d \in Calls : MakeCall(d)
    BY <2>1, <2>2 DEF SignOut, MakeCall, AllCalls
  <2>3. ASSUME NEW d \in AllCalls,
               Answer(d) \/ LoseCall(d) \/ ReceiveOk(d) \/ ReceiveRejected(d)
        PROVE  Nearer(c)
    <3>1. PICK at \in {"ok", "refused", "done", "failed"} :
            /\ call' = [call EXCEPT ![d].at = at]
            /\ \/ call[d].at = "sent"
               \/ call[d].at \in {"ok", "refused"} /\ at \in {"done", "failed"}
      BY <2>3 DEF Answer, LoseCall, ReceiveOk, ReceiveRejected
    <3>2. CASE d = c
      <4>1. call'[c].at = at /\ call'[c].retried = call[c].retried
        BY <1>1, <3>1, <3>2, <2>0 DEF CallDoc
      <4>2. QED
        BY <2>0, <3>1, <3>2, <4>1 DEF StepsLeft
    <3>3. QED
      BY <1>1, <3>1, <3>2
  <2>4. ASSUME NEW d \in AllCalls, ReceiveRefused(d) PROVE Nearer(c)
    <3>1. /\ call[d].at = "refused" /\ ~call[d].retried
          /\ call' = [call EXCEPT ![d].at = "waiting", ![d].retried = TRUE]
      BY <2>4 DEF ReceiveRefused
    <3>2. CASE d = c
      <4>1. call'[c].at = "waiting"
        BY <1>1, <3>1, <3>2, <2>0 DEF CallDoc
      <4>2. QED
        BY <3>1, <3>2, <4>1 DEF StepsLeft
    <3>3. QED
      BY <1>1, <3>1, <3>2
  <2>5. CASE ReceiveSession
    BY <2>0, <2>5 DEF ReceiveSession, Waiting, Sent, StepsLeft
  <2>6. CASE ReceiveDenied \/ LoseRefresh
    <3>1. call'[c] = IF call[c].at = "waiting" THEN [call[c] EXCEPT !.at = "failed"] ELSE call[c]
      BY <2>6 DEF ReceiveDenied, LoseRefresh, GiveUpRefresh, Waiting
    <3>2. [call[c] EXCEPT !.at = "failed"].at = "failed"
      BY <2>0 DEF CallDoc
    <3>3. QED
      BY <3>1, <3>2 DEF StepsLeft
  <2>7. CASE Reload
    <3>1. CASE c = "me"
      BY <2>7, <3>1
    <3>2. CASE c # "me"
      <4>1. call'[c] = IF call[c].at \in {"sent", "ok", "refused", "waiting"}
                         THEN [call[c] EXCEPT !.at = "failed"] ELSE call[c]
        BY <2>7, <3>2 DEF Reload, InFlight
      <4>2. [call[c] EXCEPT !.at = "failed"].at = "failed"
        BY <2>0 DEF CallDoc
      <4>3. QED
        BY <2>0, <4>1, <4>2 DEF StepsLeft
    <3>3. QED
      BY <3>1, <3>2
  <2>8. CASE \/ Login \/ DropStray \/ UNCHANGED vars
             \/ \E t \in Tokens : Expire(t) \/ RevokeElsewhere(t)
             \/ \E j \in {"shared", "stray"} : RefreshStep(j)
    BY <2>8 DEF Login, DropStray, Expire, RevokeElsewhere, RefreshStep, RefreshFind,
       RefreshRevoke, RefreshIssue, RefreshFail, vars
  <2> HIDE DEF Nearer, Boots
  <2>9. QED
    BY <1>1, <2>2, <2>3, <2>4, <2>5, <2>6, <2>7, <2>8 DEF Next, Receive
<1>2. SessionInv /\ [Next]_vars =>
        [\A c \in AllCalls :
           \/ call'[c] = call[c] \/ StepsLeft(call'[c]) < StepsLeft(call[c])
           \/ c = "me" /\ Reload]_vars
  BY <1>1
<1>3. QED
  BY <1>2, SessionInvariant, PTL DEF Spec

\* The queries and answers that a refresh has before it.
RefreshLeft(at) ==
  CASE at = "sent" -> 4 [] at = "found" -> 3 [] at = "revoked" -> 2
    [] at \in {"issued", "denied"} -> 1 [] OTHER -> 0

\* A refresh ends as well (AuthService.refresh and http.ts): every step that moves the shared
\* one brings it nearer to its end, and a new one begins only when none is under way, with a
\* call that has been refused for the first time.
THEOREM RefreshesAdvance ==
  Spec => [][\/ job'["shared"].at = job["shared"].at
             \/ RefreshLeft(job'["shared"].at) < RefreshLeft(job["shared"].at)
             \/ job["shared"].at = "none" /\ \E c \in AllCalls : ReceiveRefused(c)]_vars
<1> DEFINE Nearer == \/ job'["shared"].at = job["shared"].at
                     \/ RefreshLeft(job'["shared"].at) < RefreshLeft(job["shared"].at)
           Begins == job["shared"].at = "none" /\ \E c \in AllCalls : ReceiveRefused(c)
<1>1. ASSUME SessionInv, [Next]_vars PROVE Nearer \/ Begins
  <2>0. job \in [{"shared", "stray"} -> JobDoc]
    BY <1>1 DEF SessionInv, SessionTyped
  <2>1. ASSUME NEW j \in {"shared", "stray"}, RefreshStep(j) PROVE Nearer
    BY <2>0, <2>1 DEF RefreshStep, RefreshFind, RefreshRevoke, RefreshIssue, RefreshFail,
       RefreshLeft, JobDoc
  <2>2. CASE ReceiveSession \/ ReceiveDenied \/ LoseRefresh
    <3>1. job["shared"].at # "none" /\ job["shared"] \in JobDoc
      BY <2>0, <2>2 DEF ReceiveSession, ReceiveDenied, LoseRefresh
    <3>2. job["shared"].at \in {"sent", "found", "revoked", "issued", "denied"}
      BY <3>1 DEF JobDoc
    <3>3. job'["shared"] = NoJob
      <4>1. CASE job' = [job EXCEPT !["shared"] = NoJob]
        BY <2>0, <4>1
      <4>2. CASE job' = [shared |-> NoJob, stray |-> Stray(job["shared"])]
        BY <4>2
      <4>3. QED
        BY <2>2, <4>1, <4>2 DEF ReceiveSession, ReceiveDenied, LoseRefresh
    <3>4. job'["shared"].at = "none"
      BY <3>3 DEF NoJob
    <3>5. QED
      BY <3>2, <3>4 DEF RefreshLeft
  <2>3. CASE Reload
    <3>1. job'["shared"].at = "none"
      BY <2>3 DEF Reload, NoJob
    <3>2. job["shared"].at \in {"none", "sent", "found", "revoked", "issued", "denied"}
      BY <2>0 DEF JobDoc
    <3>3. QED
      BY <3>1, <3>2 DEF RefreshLeft
  <2>4. ASSUME NEW c \in AllCalls, ReceiveRefused(c) PROVE Nearer \/ Begins
    BY <2>0, <2>4 DEF ReceiveRefused
  <2>5. CASE \/ Login \/ SignOut \/ UNCHANGED vars \/ DropStray
             \/ \E c \in Calls : MakeCall(c)
             \/ \E c \in AllCalls : Answer(c) \/ LoseCall(c) \/ ReceiveOk(c) \/ ReceiveRejected(c)
             \/ \E t \in Tokens : Expire(t) \/ RevokeElsewhere(t)
    BY <2>0, <2>5 DEF Login, SignOut, vars, DropStray, MakeCall, Answer, LoseCall, ReceiveOk,
       ReceiveRejected, Expire, RevokeElsewhere
  <2> HIDE DEF Nearer, Begins
  <2>6. QED
    BY <1>1, <2>1, <2>2, <2>3, <2>4, <2>5 DEF Next, Receive
<1>2. SessionInv /\ [Next]_vars =>
        [\/ job'["shared"].at = job["shared"].at
         \/ RefreshLeft(job'["shared"].at) < RefreshLeft(job["shared"].at)
         \/ job["shared"].at = "none" /\ \E c \in AllCalls : ReceiveRefused(c)]_vars
  BY <1>1
<1>3. QED
  BY <1>2, SessionInvariant, PTL DEF Spec

=============================================================================

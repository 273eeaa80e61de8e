---------------------------- MODULE TokenClient ----------------------------
(***************************************************************************)
(* The browser's side of a session: the axios instance with its request    *)
(* and response interceptors (axios.config.ts), the token pair in          *)
(* localStorage (tokenStorage.ts) and AuthContext.tsx, in several tabs     *)
(* that share one localStorage and nothing else.                           *)
(*                                                                         *)
(* A request is sent, judged by the server, and its answer handled: three  *)
(* steps, so that an answer is handled long after the server gave it.  The *)
(* server is auth.service.ts seen from outside (AuthSessions models its    *)
(* inside): it rotates refresh tokens and accepts only the last one of a   *)
(* session.  The n-th token pair is the number n; a session is named by    *)
(* its first pair, and so is the user who signed in with it.               *)
(*                                                                         *)
(* Handling an answer is one synchronous piece of JavaScript, up to the    *)
(* next await, and therefore one action.  location.assign does not stop    *)
(* the scripts of the page: the tab is "leaving" until it is Reloaded.     *)
(***************************************************************************)
EXTENDS Integers, FiniteSets

CONSTANTS Tabs,
          Requests,    \* requests a tab may have in flight
          TabOf(_),    \* the tab a request belongs to
          MaxPairs,    \* bound: token pairs the server issues
          MaxFaults    \* bound: lost answers, ended sessions, tabs reloaded

ASSUME TokenAssumption ==
    /\ \A r \in Requests : TabOf(r) \in Tabs
    /\ MaxPairs \in Nat \ {0}
    /\ MaxFaults \in Nat

Pairs == 1 .. MaxPairs
None == 0

VARIABLES
    storage,     \* localStorage: the two tokens
    user,        \* AuthContext.user of each tab (by the session's name)
    isLoading,   \* AuthContext.isLoading
    atLogin,     \* window.location.pathname = '/login'
    leaving,     \* location.assign was called
    isRefreshing,
    req,         \* the request's state; "queued" is its place in failedQueue
    refresh,     \* the tab's own axios.post to /auth/refresh
    sessionOf,   \* server: the session of each issued pair
    current,     \* server: the session's only valid refresh token
    expired,     \* server: access tokens past their lifetime
    faults,
    redeemed,    \* history: tokens the server took from the tab's page
    abandoned,   \* history: tokens redeemed by a page that was reloaded
    overtaken    \* history: a sign-in or sign-out crossed another answer

pageVars == <<user, isLoading, atLogin, leaving>>
serverVars == <<sessionOf, current>>
historyVars == <<redeemed, abandoned, overtaken>>
vars == <<storage, pageVars, isRefreshing, req, refresh, serverVars, expired,
          faults, historyVars>>

Kinds == {"data", "me", "login", "logout"}
Places == {"idle", "sent", "ok", "unauthorized", "error", "queued", "refreshing"}

Idle == [at |-> "idle", kind |-> "data", token |-> None, retry |-> FALSE,
         value |-> None]
NoRefresh == [at |-> "none", token |-> None, value |-> None]

TypeOK ==
    /\ storage \in [access : Pairs \cup {None}, refresh : Pairs \cup {None}]
    /\ user \in [Tabs -> Pairs \cup {None}]
    /\ isLoading \in [Tabs -> BOOLEAN]
    /\ atLogin \in [Tabs -> BOOLEAN]
    /\ leaving \in [Tabs -> BOOLEAN]
    /\ isRefreshing \in [Tabs -> BOOLEAN]
    /\ req \in [Requests -> [at : Places, kind : Kinds, retry : BOOLEAN,
                             token : Pairs \cup {None}, value : Pairs \cup {None}]]
    /\ refresh \in [Tabs -> [at : {"none", "sent", "ok", "failed"},
                             token : Pairs \cup {None}, value : Pairs \cup {None}]]
    /\ sessionOf \in [Pairs -> Pairs \cup {None}]
    /\ current \in [Pairs -> Pairs \cup {None}]
    /\ expired \subseteq Pairs
    /\ faults \in 0 .. MaxFaults
    /\ redeemed \in [Tabs -> SUBSET Pairs]
    /\ abandoned \subseteq Pairs
    /\ overtaken \in BOOLEAN

(* Every tab shows the pages of the user signed in with the first pair. *)
Init ==
    /\ storage = [access |-> 1, refresh |-> 1]
    /\ user = [t \in Tabs |-> 1]
    /\ isLoading = [t \in Tabs |-> FALSE]
    /\ atLogin = [t \in Tabs |-> FALSE]
    /\ leaving = [t \in Tabs |-> FALSE]
    /\ isRefreshing = [t \in Tabs |-> FALSE]
    /\ req = [r \in Requests |-> Idle]
    /\ refresh = [t \in Tabs |-> NoRefresh]
    /\ sessionOf = [n \in Pairs |-> IF n = 1 THEN 1 ELSE None]
    /\ current = [n \in Pairs |-> IF n = 1 THEN 1 ELSE None]
    /\ expired = {}
    /\ faults = 0
    /\ redeemed = [t \in Tabs |-> {}]
    /\ abandoned = {}
    /\ overtaken = FALSE

Of(t) == {r \in Requests : TabOf(r) = t}
Fail == faults < MaxFaults /\ faults' = faults + 1

-----------------------------------------------------------------------------
(* tokenStorage *)

(* Mutant: only one of the two keys is written. *)
SetOneToken(access, refreshToken) == storage' = [access |-> access]

(* setTokens: an answer without a refresh token keeps the stored one. *)
SetTokens(access, refreshToken) ==
    storage' = [access |-> access,
                refresh |-> IF refreshToken = None THEN storage.refresh
                                                   ELSE refreshToken]

Clear == storage' = [access |-> None, refresh |-> None]

-----------------------------------------------------------------------------
(* The server *)

Fresh(n) == sessionOf[n] = None /\ \A k \in Pairs : k < n => sessionOf[k] # None

Issue(n, s) ==
    /\ sessionOf' = [sessionOf EXCEPT ![n] = s]
    /\ current' = [current EXCEPT ![s] = n]

Accepts(access) ==
    access # None /\ access \notin expired /\ current[sessionOf[access]] # None

Answer(r, status, value) ==
    req' = [req EXCEPT ![r].at = status, ![r].token = None, ![r].value = value]

(* The server judges a request.  A wrong password, or no pair left within
   the bound, is an unauthorized login.                                    *)
Serve(r) ==
    /\ req[r].at = "sent"
    /\ \/ /\ req[r].kind = "login"
          /\ \E n \in Pairs :
                /\ Fresh(n)
                /\ Issue(n, n)
                /\ Answer(r, "ok", n)
       \/ /\ req[r].kind = "login" \/ ~Accepts(req[r].token)
          /\ Answer(r, "unauthorized", None)
          /\ UNCHANGED serverVars
       \/ /\ req[r].kind # "login" /\ Accepts(req[r].token)
          /\ LET s == sessionOf[req[r].token] IN
             /\ Answer(r, "ok", IF req[r].kind = "me" THEN s ELSE None)
             /\ current' = IF req[r].kind = "logout"
                           THEN [current EXCEPT ![s] = None] ELSE current
          /\ UNCHANGED sessionOf
    /\ UNCHANGED <<storage, pageVars, isRefreshing, refresh, expired, faults,
                   historyVars>>

(* The answer is lost, or is no 401: a 5xx, or the 30 s timeout. *)
LoseAnswer(r) ==
    /\ req[r].at \in {"sent", "ok", "unauthorized"}
    /\ Fail
    /\ Answer(r, "error", None)
    /\ UNCHANGED <<storage, pageVars, isRefreshing, refresh, serverVars,
                   expired, historyVars>>

(* refreshAccessToken: only the session's last token is rotated. *)
ServeRefresh(t) ==
    /\ refresh[t].at = "sent"
    /\ LET token == refresh[t].token
           s == sessionOf[token] IN
       \/ \E n \in Pairs :
             /\ Fresh(n) /\ current[s] = token
             /\ Issue(n, s)
             /\ refresh' = [refresh EXCEPT ![t].at = "ok", ![t].value = n]
             /\ redeemed' = [redeemed EXCEPT ![t] = @ \cup {token}]
       \/ /\ current[s] # token \/ \A n \in Pairs : ~Fresh(n)
          /\ refresh' = [refresh EXCEPT ![t].at = "failed"]
          /\ UNCHANGED <<serverVars, redeemed>>
    /\ UNCHANGED <<storage, pageVars, isRefreshing, req, expired, faults,
                   abandoned, overtaken>>

LoseRefresh(t) ==
    /\ refresh[t].at \in {"sent", "ok"}
    /\ Fail
    /\ refresh' = [refresh EXCEPT ![t].at = "failed", ![t].value = None]
    /\ UNCHANGED <<storage, pageVars, isRefreshing, req, serverVars, expired,
                   historyVars>>

Expire(n) ==
    /\ sessionOf[n] # None /\ current[sessionOf[n]] # None
    /\ n \notin expired
    /\ expired' = expired \cup {n}
    /\ UNCHANGED <<storage, pageVars, isRefreshing, req, refresh, serverVars,
                   faults, historyVars>>

(* The session is revoked elsewhere: another device, an administrator. *)
EndSession(s) ==
    /\ current[s] # None
    /\ Fail
    /\ current' = [current EXCEPT ![s] = None]
    /\ UNCHANGED <<storage, pageVars, isRefreshing, req, refresh, sessionOf,
                   expired, historyVars>>

-----------------------------------------------------------------------------
(* Sending: the request interceptor attaches the stored access token *)

Send(r, kind) ==
    /\ req[r].at = "idle"
    /\ ~leaving[TabOf(r)]
    /\ req' = [req EXCEPT ![r] = [Idle EXCEPT !.at = "sent", !.kind = kind,
                                              !.token = storage.access]]
    /\ UNCHANGED <<storage, pageVars, isRefreshing, refresh, serverVars,
                   expired, faults, historyVars>>

SendData(r) == user[TabOf(r)] # None /\ Send(r, "data")

Pending(t, kind) == \E r \in Of(t) : req[r].at # "idle" /\ req[r].kind = kind

(* Bound: one sign-out of a tab at a time. *)
Logout(r) ==
    /\ user[TabOf(r)] # None
    /\ ~Pending(TabOf(r), "logout")
    /\ Send(r, "logout")

(* The form is disabled while it waits. *)
Login(r) ==
    /\ atLogin[TabOf(r)]
    /\ ~Pending(TabOf(r), "login")
    /\ Send(r, "login")

-----------------------------------------------------------------------------
(* Handling an answer: the response interceptor and the caller behind it *)

IsPublicAuthRequest(r) == req[r].kind = "login"

(* redirectToLogin, from a page that is not the login page. *)
RedirectToLogin(t) == leaving' = [leaving EXCEPT ![t] = @ \/ ~atLogin[t]]

(* PrivateRoute: a tab without a user, and not loading, shows /login. *)
ShowUser(t, u, loading) ==
    /\ user' = [user EXCEPT ![t] = u]
    /\ isLoading' = [isLoading EXCEPT ![t] = loading]
    /\ atLogin' = [atLogin EXCEPT ![t] = @ \/ (u = None /\ ~loading)]

(* The callers of requests R are told they failed.  initializeAuth shows
   nobody and stops loading; logout forgets the user and the tokens in its
   finally block, whatever the answer was.                                 *)
Reject(t, R, forget) ==
    LET kinds == {req[r].kind : r \in R} IN
    /\ req' = [r \in Requests |-> IF r \in R THEN Idle ELSE req[r]]
    /\ ShowUser(t, IF kinds \cap {"me", "logout"} # {} THEN None ELSE user[t],
                   isLoading[t] /\ "me" \notin kinds)
    /\ IF forget \/ "logout" \in kinds THEN Clear ELSE UNCHANGED storage

(* The next four are receptions by kind of answer. *)
ReceiveOk(r) ==
    LET t == TabOf(r) IN
    /\ req[r].at = "ok"
    /\ req[r].kind \in {"data", "me"}
    /\ req' = [req EXCEPT ![r] = Idle]
    /\ IF req[r].kind = "me" THEN ShowUser(t, req[r].value, FALSE)
                             ELSE UNCHANGED <<user, isLoading, atLogin>>
    /\ UNCHANGED <<storage, leaving, isRefreshing, refresh, serverVars, expired,
                   faults, historyVars>>

(* Mutant: login stores the access token only. *)
ReceiveLoginAccess(r) ==
    LET t == TabOf(r) IN
    /\ req[r].at = "ok"
    /\ req[r].kind = "login"
    /\ SetTokens(req[r].value, None)
    /\ user' = [user EXCEPT ![t] = req[r].value]
    /\ atLogin' = [atLogin EXCEPT ![t] = FALSE]
    /\ req' = [req EXCEPT ![r] = Idle]
    /\ UNCHANGED <<isLoading, leaving, isRefreshing, refresh, serverVars,
                   expired, faults, historyVars>>

(* login: the tokens are stored, the user shown, the form left. *)
ReceiveLogin(r) ==
    LET t == TabOf(r) IN
    /\ req[r].at = "ok"
    /\ req[r].kind = "login"
    /\ SetTokens(req[r].value, req[r].value)
    /\ user' = [user EXCEPT ![t] = req[r].value]
    /\ atLogin' = [atLogin EXCEPT ![t] = FALSE]
    /\ req' = [req EXCEPT ![r] = Idle]
    /\ overtaken' = (\/ overtaken
                     \/ \E o \in Tabs : \/ refresh[o].at # "none"
                                        \/ o # t /\ user[o] # None
                                        \/ Pending(o, "me"))
    /\ UNCHANGED <<isLoading, leaving, isRefreshing, refresh, serverVars,
                   expired, faults, redeemed, abandoned>>

(* Mutant: an error without a 401 is swallowed. *)
FinalUnauthorized(r) ==
    \/ req[r].at = "ok" /\ req[r].kind = "logout"
    \/ req[r].at = "unauthorized" /\ (IsPublicAuthRequest(r) \/ req[r].retry)

(* An answer that no refresh can help. *)
Final(r) ==
    \/ req[r].at = "error"
    \/ req[r].at = "ok" /\ req[r].kind = "logout"
    \/ req[r].at = "unauthorized" /\ (IsPublicAuthRequest(r) \/ req[r].retry)

ReceiveFinal(r) ==
    /\ Final(r)
    /\ Reject(TabOf(r), {r}, FALSE)
    /\ UNCHANGED <<leaving, isRefreshing, refresh, serverVars, expired, faults,
                   historyVars>>

NeedsRefresh(r) == req[r].at = "unauthorized" /\ ~Final(r)

ReceiveWithoutToken(r) ==
    /\ NeedsRefresh(r)
    /\ storage.refresh = None
    /\ Reject(TabOf(r), {r}, TRUE)
    /\ RedirectToLogin(TabOf(r))
    /\ UNCHANGED <<isRefreshing, refresh, serverVars, expired, faults, historyVars>>

ReceiveQueue(r) ==
    /\ NeedsRefresh(r)
    /\ storage.refresh # None
    /\ isRefreshing[TabOf(r)]
    /\ req' = [req EXCEPT ![r].at = "queued", ![r].retry = TRUE]
    /\ UNCHANGED <<storage, pageVars, isRefreshing, refresh, serverVars, expired,
                   faults, historyVars>>

(* Mutant: nobody looks at isRefreshing. *)
StartRefreshAnyway(r) ==
    LET t == TabOf(r) IN
    /\ NeedsRefresh(r)
    /\ storage.refresh # None
    /\ isRefreshing' = [isRefreshing EXCEPT ![t] = TRUE]
    /\ refresh' = [refresh EXCEPT ![t] = [at |-> "sent", token |-> storage.refresh,
                                          value |-> None]]
    /\ req' = [req EXCEPT ![r].at = "refreshing", ![r].retry = TRUE]
    /\ UNCHANGED <<storage, pageVars, serverVars, expired, faults, historyVars>>

StartRefresh(r) ==
    LET t == TabOf(r) IN
    /\ NeedsRefresh(r)
    /\ storage.refresh # None
    /\ ~isRefreshing[t]
    /\ isRefreshing' = [isRefreshing EXCEPT ![t] = TRUE]
    /\ refresh' = [refresh EXCEPT ![t] = [at |-> "sent", token |-> storage.refresh,
                                          value |-> None]]
    /\ req' = [req EXCEPT ![r].at = "refreshing", ![r].retry = TRUE]
    /\ UNCHANGED <<storage, pageVars, serverVars, expired, faults, historyVars>>

(* failedQueue, and the request whose handler refreshes. *)
Waiting(t) == {r \in Of(t) : req[r].at \in {"queued", "refreshing"}}

RefreshEnds(t) ==
    /\ isRefreshing' = [isRefreshing EXCEPT ![t] = FALSE]
    /\ refresh' = [refresh EXCEPT ![t] = NoRefresh]

(* Mutant: the queue is not processed. *)
RefreshOkOwnerOnly(t) ==
    /\ refresh[t].at = "ok"
    /\ LET n == refresh[t].value IN
       /\ SetTokens(n, n)
       /\ req' = [r \in Requests |->
                    IF r \in Waiting(t) /\ req[r].at = "refreshing"
                    THEN [req[r] EXCEPT !.at = "sent", !.token = n]
                    ELSE req[r]]
    /\ RefreshEnds(t)
    /\ UNCHANGED <<pageVars, serverVars, expired, faults, historyVars>>

(* Mutant: the rotated refresh token is not stored. *)
RefreshOkOldToken(t) ==
    /\ refresh[t].at = "ok"
    /\ LET n == refresh[t].value IN
       /\ SetTokens(n, None)
       /\ req' = [r \in Requests |->
                    IF r \in Waiting(t)
                    THEN [req[r] EXCEPT !.at = "sent", !.token = n] ELSE req[r]]
    /\ RefreshEnds(t)
    /\ UNCHANGED <<pageVars, serverVars, expired, faults, historyVars>>

(* The new pair is stored, and everybody who waited sends again. *)
RefreshOk(t) ==
    /\ refresh[t].at = "ok"
    /\ LET n == refresh[t].value IN
       /\ SetTokens(n, n)
       /\ req' = [r \in Requests |->
                    IF r \in Waiting(t)
                    THEN [req[r] EXCEPT !.at = "sent", !.token = n] ELSE req[r]]
    /\ RefreshEnds(t)
    /\ UNCHANGED <<pageVars, serverVars, expired, faults, historyVars>>

RefreshFailed(t) ==
    /\ refresh[t].at = "failed"
    /\ Reject(t, Waiting(t), TRUE)
    /\ RedirectToLogin(t)
    /\ RefreshEnds(t)
    /\ UNCHANGED <<serverVars, expired, faults, historyVars>>

-----------------------------------------------------------------------------
(* A page is loaded anew: after a redirect, or because the user says so, or
   types /login.  Its requests are gone; initializeAuth asks who is signed
   in.                                                                     *)
Reload(t) ==
    /\ IF leaving[t] THEN UNCHANGED faults ELSE Fail
    /\ LET boots == storage.access # None \/ storage.refresh # None IN
       /\ \E boot \in Of(t) :
             req' = [r \in Requests |->
                       IF r \notin Of(t) THEN req[r]
                       ELSE IF r = boot /\ boots
                       THEN [Idle EXCEPT !.at = "sent", !.kind = "me",
                                         !.token = storage.access]
                       ELSE Idle]
       /\ user' = [user EXCEPT ![t] = None]
       /\ isLoading' = [isLoading EXCEPT ![t] = boots]
       /\ \E login \in {atLogin[t], TRUE} :
             atLogin' = [atLogin EXCEPT ![t] = login \/ leaving[t] \/ ~boots]
    /\ leaving' = [leaving EXCEPT ![t] = FALSE]
    /\ RefreshEnds(t)
    /\ redeemed' = [redeemed EXCEPT ![t] = {}]
    /\ abandoned' = abandoned \cup redeemed[t]
    /\ UNCHANGED <<storage, serverVars, expired, overtaken>>

Receive(r) ==
    \/ ReceiveOk(r) \/ ReceiveLogin(r) \/ ReceiveFinal(r)
    \/ ReceiveWithoutToken(r) \/ ReceiveQueue(r) \/ StartRefresh(r)

Next ==
    \/ \E r \in Requests :
          \/ SendData(r) \/ Login(r) \/ Logout(r)
          \/ Serve(r) \/ LoseAnswer(r) \/ Receive(r)
    \/ \E t \in Tabs :
          \/ ServeRefresh(t) \/ LoseRefresh(t) \/ RefreshOk(t) \/ RefreshFailed(t)
          \/ Reload(t)
    \/ \E n \in Pairs : Expire(n) \/ EndSession(n)

(* Every call has a timeout of 30 s, after which it is answered, or failed;
   the event loop handles every answer; a redirect happens.  What the user
   does, and what ends a token or a session, is under no obligation.       *)
Fairness ==
    /\ \A r \in Requests : WF_vars(Serve(r)) /\ WF_vars(Receive(r))
    /\ \A t \in Tabs : /\ WF_vars(ServeRefresh(t))
                       /\ WF_vars(RefreshOk(t) \/ RefreshFailed(t))
                       /\ WF_vars(leaving[t] /\ Reload(t))

Spec == Init /\ [][Next]_vars /\ Fairness

-----------------------------------------------------------------------------
(* Properties *)

(* A tab refreshes exactly while its call to /auth/refresh is out for one
   request, and nothing sits in failedQueue without one: nobody would call
   its resolve or reject.                                                  *)
OneRefreshServesTheQueue ==
    \A t \in Tabs :
        /\ isRefreshing[t] <=> refresh[t].at # "none"
        /\ isRefreshing[t] <=> \E r \in Of(t) : req[r].at = "refreshing"
        /\ Cardinality({r \in Of(t) : req[r].at = "refreshing"}) <= 1
        /\ Waiting(t) # {} => isRefreshing[t]

(* A page never presents a refresh token the server already took from it:
   the second time would end the session it just renewed.                  *)
NoTokenSpentTwice ==
    \A t \in Tabs : refresh[t].at = "sent" => refresh[t].token \notin redeemed[t]

(* The stored refresh token is the one the server will take, as long as its
   session lives, unless the answer that replaces it is on its way, or a
   page was reloaded before it stored the replacement.                     *)
StoredTokenIsCurrent ==
    LET token == storage.refresh IN
    (token # None /\ current[sessionOf[token]] # None) =>
        \/ current[sessionOf[token]] = token
        \/ \E t \in Tabs : refresh[t].token = token
        \/ token \in abandoned

(* The tokens in storage are those of the user each tab shows, unless
   somebody signed in while another tab showed a user, or while an answer
   about the previous session was still to come.                           *)
UserOwnsTokens ==
    ~overtaken => \A t \in Tabs :
        user[t] # None /\ storage.refresh # None =>
            sessionOf[storage.refresh] = user[t]

Settles(r) == req[r].at # "idle" ~> req[r].at = "idle"
=============================================================================

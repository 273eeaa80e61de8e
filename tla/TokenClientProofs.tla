-------------------------- MODULE TokenClientProofs --------------------------
(***************************************************************************)
(* The safety properties of TokenClient for any numbers of tabs, requests, *)
(* token pairs and faults.                                                 *)
(*                                                                         *)
(* A new pair is in one place at a time until it is stored (Apart): that   *)
(* is why a page that spent a token never meets it again.                  *)
(***************************************************************************)
EXTENDS TokenClient, FiniteSetTheorems, TLAPS

RequestType ==
    [at : Places, kind : Kinds, retry : BOOLEAN,
     token : Pairs \cup {None}, value : Pairs \cup {None}]

RefreshType ==
    [at : {"none", "sent", "ok", "failed"},
     token : Pairs \cup {None}, value : Pairs \cup {None}]

Issued(n) == n # None => sessionOf[n] # None
Current(n) == current[sessionOf[n]] \in {n, None}
Rotated(t) == refresh[t].at = "ok"
LoggedIn(r) == req[r].at = "ok" /\ req[r].kind = "login"
Refreshing(r) == req[r].at = "refreshing"

(* The last pair of its session, which nobody has received.                *)
Unknown(n) ==
    /\ Current(n)
    /\ n # storage.refresh
    /\ \A t \in Tabs : refresh[t].token # n /\ n \notin redeemed[t]

(* OneRefreshServesTheQueue, without counting.                             *)
QueueOf(t) ==
    /\ isRefreshing[t] <=> refresh[t].at # "none"
    /\ isRefreshing[t] <=> \E r \in Of(t) : Refreshing(r)
    /\ \A r, q \in Of(t) : Refreshing(r) /\ Refreshing(q) => r = q
    /\ \A r \in Of(t) : req[r].at = "queued" => isRefreshing[t]

Queue == \A t \in Tabs : QueueOf(t)

(* What an answer brings is there when it is there.                        *)
Shape ==
    /\ \A t \in Tabs :
        /\ refresh[t].at = "none" => refresh[t].token = None /\ refresh[t].value = None
        /\ refresh[t].at # "none" => refresh[t].token # None
        /\ refresh[t].at = "ok" => refresh[t].value # None
    /\ \A r \in Requests : LoggedIn(r) => req[r].value # None

(* Every pair anybody holds was issued; a sign-in opens its own session.   *)
Held ==
    /\ Issued(storage.access) /\ Issued(storage.refresh)
    /\ \A t \in Tabs : Issued(refresh[t].token) /\ Issued(refresh[t].value)
    /\ \A t \in Tabs : \A n \in redeemed[t] : Issued(n)
    /\ \A r \in Requests :
        /\ req[r].kind = "me" => Issued(req[r].token)
        /\ LoggedIn(r) => sessionOf[req[r].value] = req[r].value
    /\ \A n \in Pairs : Issued(n) => Issued(sessionOf[n])

(* A new pair on its way is nowhere else, and it is its session's last.    *)
Apart ==
    /\ \A t \in Tabs : Rotated(t) =>
        /\ Unknown(refresh[t].value)
        /\ \A o \in Tabs : Rotated(o) /\ refresh[o].value = refresh[t].value => o = t
        /\ \A r \in Requests : LoggedIn(r) => req[r].value # refresh[t].value
    /\ \A r \in Requests : LoggedIn(r) =>
        /\ Unknown(req[r].value)
        /\ \A q \in Requests : LoggedIn(q) /\ req[q].value = req[r].value => q = r

(* A stored token the page already spent is replaced when its refresh ends. *)
Spent ==
    /\ NoTokenSpentTwice
    /\ \A t \in Tabs : storage.refresh \in redeemed[t] => isRefreshing[t]

(* The stored token was overtaken by a page that still waits, or is gone.  *)
Last ==
    LET token == storage.refresh IN
    token # None => \/ Current(token)
                    \/ token \in abandoned
                    \/ \E t \in Tabs : refresh[t].token = token /\ token \in redeemed[t]

(* Whoever is signed in, or may turn out to be, is so with session s.      *)
Own(s, n) == n # None => n \in Pairs /\ sessionOf[n] = s

OneSession(s) ==
    /\ Own(s, storage.access) /\ Own(s, storage.refresh)
    /\ \A t \in Tabs : /\ user[t] \in {None, s}
                       /\ Own(s, refresh[t].token) /\ Own(s, refresh[t].value)
    /\ \A r \in Requests : req[r].kind = "me" /\ req[r].at # "idle" =>
           Own(s, req[r].token) /\ req[r].value \in {None, s}

Owner == ~overtaken => \E s \in Pairs : OneSession(s)

Pieces == Shape /\ Held /\ Apart /\ Spent /\ Last

Inv == TypeOK /\ Queue /\ Pieces /\ Owner

-----------------------------------------------------------------------------
(* What a step does to the requests and to the refresh calls *)

USE TokenAssumption

LEMMA NoneIsNoPair == None \notin Pairs
BY DEF None, Pairs

LEMMA IdleType ==
    /\ Idle \in RequestType /\ NoRefresh \in RefreshType
    /\ Idle.at = "idle" /\ Idle.kind = "data" /\ Idle.token = None /\ Idle.value = None
    /\ NoRefresh.at = "none" /\ NoRefresh.token = None /\ NoRefresh.value = None
BY DEF Idle, NoRefresh, RequestType, RefreshType, Places, Kinds

LEMMA Typed ==
    ASSUME TypeOK
    PROVE  /\ req \in [Requests -> RequestType]
           /\ refresh \in [Tabs -> RefreshType]
BY DEF TypeOK, RequestType, RefreshType

LEMMA TypedAgain ==
    ASSUME req' \in [Requests -> RequestType], refresh' \in [Tabs -> RefreshType]
    PROVE  /\ req' \in [Requests -> [at : Places, kind : Kinds, retry : BOOLEAN,
                          token : Pairs \cup {None}, value : Pairs \cup {None}]]
           /\ refresh' \in [Tabs -> [at : {"none", "sent", "ok", "failed"},
                          token : Pairs \cup {None}, value : Pairs \cup {None}]]
BY DEF RequestType, RefreshType

(* Request r alone is changed, to this.                                    *)
Becomes(r, at, kind, token, value) ==
    /\ req' \in [Requests -> RequestType]
    /\ \A q \in Requests \ {r} : req'[q] = req[q]
    /\ req'[r].at = at /\ req'[r].kind = kind
    /\ req'[r].token = token /\ req'[r].value = value

LEMMA Puts ==
    ASSUME TypeOK, NEW r \in Requests, NEW x \in RequestType,
           req' = [req EXCEPT ![r] = x]
    PROVE  Becomes(r, x.at, x.kind, x.token, x.value)
BY Typed DEF Becomes

LEMMA Sends ==
    ASSUME TypeOK, NEW r \in Requests, NEW kind \in Kinds, Send(r, kind)
    PROVE  Becomes(r, "sent", kind, storage.access, None)
<1> DEFINE x == [Idle EXCEPT !.at = "sent", !.kind = kind, !.token = storage.access]
<1>1. req' = [req EXCEPT ![r] = x]
  BY DEF Send
<1>2. storage.access \in Pairs \cup {None} /\ "sent" \in Places
  BY DEF TypeOK, Places
<1>3. /\ x \in RequestType
      /\ x.at = "sent" /\ x.kind = kind /\ x.token = storage.access /\ x.value = None
  BY <1>2 DEF RequestType, Idle
<1> HIDE DEF x
<1> QED
  BY <1>1, <1>3, Puts

LEMMA Answers ==
    ASSUME TypeOK, NEW r \in Requests, NEW status \in Places,
           NEW value \in Pairs \cup {None}, Answer(r, status, value)
    PROVE  Becomes(r, status, req[r].kind, None, value)
<1> DEFINE x == [req[r] EXCEPT !.at = status, !.token = None, !.value = value]
<1>1. req[r] \in RequestType /\ req \in [Requests -> RequestType]
  BY Typed
<1>2. /\ x \in RequestType
      /\ x.at = status /\ x.kind = req[r].kind /\ x.token = None /\ x.value = value
  BY <1>1 DEF RequestType
<1>3. req' = [req EXCEPT ![r] = x]
  BY <1>1 DEF Answer
<1> HIDE DEF x
<1> QED
  BY <1>2, <1>3, Puts

LEMMA Ends ==
    ASSUME TypeOK, NEW r \in Requests, req' = [req EXCEPT ![r] = Idle]
    PROVE  Becomes(r, "idle", "data", None, None)
BY IdleType, Puts

LEMMA Waits ==
    ASSUME TypeOK, NEW r \in Requests, NEW at \in {"queued", "refreshing"},
           req' = [req EXCEPT ![r].at = at, ![r].retry = TRUE]
    PROVE  Becomes(r, at, req[r].kind, req[r].token, req[r].value)
<1> DEFINE x == [req[r] EXCEPT !.at = at, !.retry = TRUE]
<1>1. req[r] \in RequestType /\ req \in [Requests -> RequestType] /\ at \in Places
  BY Typed DEF Places
<1>2. /\ x \in RequestType
      /\ x.at = at /\ x.kind = req[r].kind
      /\ x.token = req[r].token /\ x.value = req[r].value
  BY <1>1 DEF RequestType
<1>3. req' = [req EXCEPT ![r] = x]
  BY <1>1
<1> HIDE DEF x
<1> QED
  BY <1>2, <1>3, Puts

(* The requests that wait send again with the new pair.                    *)
Resent(t, n) ==
    /\ req' \in [Requests -> RequestType]
    /\ \A q \in Requests \ Waiting(t) : req'[q] = req[q]
    /\ \A q \in Waiting(t) : /\ req'[q].at = "sent" /\ req'[q].kind = req[q].kind
                             /\ req'[q].token = n /\ req'[q].value = req[q].value

LEMMA Resends ==
    ASSUME TypeOK, NEW t \in Tabs, RefreshOk(t)
    PROVE  Resent(t, refresh[t].value)
<1> DEFINE n == refresh[t].value
<1>1. n \in Pairs \cup {None} /\ req \in [Requests -> RequestType] /\ "sent" \in Places
  BY Typed DEF RefreshType, Places
<1>2. ASSUME NEW q \in Requests
      PROVE  LET x == [req[q] EXCEPT !.at = "sent", !.token = n]
             IN  /\ x \in RequestType
                 /\ x.at = "sent" /\ x.kind = req[q].kind
                 /\ x.token = n /\ x.value = req[q].value
  <2> HIDE DEF n
  <2> QED
    BY <1>1 DEF RequestType
<1>3. req' = [r \in Requests |-> IF r \in Waiting(t)
                    THEN [req[r] EXCEPT !.at = "sent", !.token = n] ELSE req[r]]
  BY DEF RefreshOk
<1>4. Waiting(t) \subseteq Requests
  BY DEF Waiting, Of
<1> HIDE DEF n
<1>5. Resent(t, n)
  BY <1>1, <1>2, <1>3, <1>4 DEF Resent
<1> QED
  BY <1>5 DEF n

(* The requests of R are over.                                             *)
Over(R) ==
    /\ req' \in [Requests -> RequestType]
    /\ \A q \in Requests \ R : req'[q] = req[q]
    /\ \A q \in R \cap Requests : req'[q] = Idle

LEMMA Rejects ==
    ASSUME TypeOK, NEW t \in Tabs, NEW R, NEW forget, Reject(t, R, forget)
    PROVE  Over(R)
BY Typed, IdleType DEF Reject, Over

(* After a reload one request may ask who is signed in.                    *)
Booted(t) ==
    /\ req' \in [Requests -> RequestType]
    /\ \A q \in Requests \ Of(t) : req'[q] = req[q]
    /\ \A q \in Of(t) :
        \/ req'[q] = Idle
        \/ /\ req'[q].at = "sent" /\ req'[q].kind = "me"
           /\ req'[q].token = storage.access /\ req'[q].value = None

LEMMA Boots ==
    ASSUME TypeOK, NEW t \in Tabs, Reload(t)
    PROVE  Booted(t)
<1> DEFINE x == [Idle EXCEPT !.at = "sent", !.kind = "me", !.token = storage.access]
           boots == storage.access # None \/ storage.refresh # None
<1>1. PICK boot \in Of(t) :
          req' = [r \in Requests |-> IF r \notin Of(t) THEN req[r]
                                     ELSE IF r = boot /\ boots THEN x ELSE Idle]
  BY DEF Reload
<1>2. storage.access \in Pairs \cup {None} /\ "sent" \in Places /\ "me" \in Kinds
  BY DEF TypeOK, Places, Kinds
<1>3. /\ x \in RequestType
      /\ x.at = "sent" /\ x.kind = "me" /\ x.token = storage.access /\ x.value = None
  BY <1>2 DEF RequestType, Idle
<1>4. Of(t) \subseteq Requests
  BY DEF Of
<1> HIDE DEF x, boots
<1> QED
  BY <1>1, <1>3, <1>4, Typed, IdleType DEF Booted

(* The refresh call of tab t alone is changed, to this.                    *)
Calls(t, at, token, value) ==
    /\ refresh' \in [Tabs -> RefreshType]
    /\ \A o \in Tabs \ {t} : refresh'[o] = refresh[o]
    /\ refresh'[t].at = at /\ refresh'[t].token = token /\ refresh'[t].value = value

LEMMA CallPuts ==
    ASSUME TypeOK, NEW t \in Tabs, NEW x \in RefreshType,
           refresh' = [refresh EXCEPT ![t] = x]
    PROVE  Calls(t, x.at, x.token, x.value)
BY Typed DEF Calls

LEMMA CallStarts ==
    ASSUME TypeOK, NEW t \in Tabs,
           refresh' = [refresh EXCEPT ![t] = [at |-> "sent", token |-> storage.refresh,
                                              value |-> None]]
    PROVE  Calls(t, "sent", storage.refresh, None)
<1> DEFINE x == [at |-> "sent", token |-> storage.refresh, value |-> None]
<1>1. /\ x \in RefreshType
      /\ x.at = "sent" /\ x.token = storage.refresh /\ x.value = None
  BY DEF TypeOK, RefreshType
<1> HIDE DEF x
<1>2. refresh' = [refresh EXCEPT ![t] = x]
  BY DEF x
<1> QED
  BY <1>1, <1>2, CallPuts

LEMMA CallAnswered ==
    ASSUME TypeOK, NEW t \in Tabs, NEW n \in Pairs,
           refresh' = [refresh EXCEPT ![t].at = "ok", ![t].value = n]
    PROVE  Calls(t, "ok", refresh[t].token, n)
<1> DEFINE x == [refresh[t] EXCEPT !.at = "ok", !.value = n]
<1>1. refresh[t] \in RefreshType /\ refresh \in [Tabs -> RefreshType]
  BY Typed
<1>2. /\ x \in RefreshType
      /\ x.at = "ok" /\ x.token = refresh[t].token /\ x.value = n
  BY <1>1 DEF RefreshType
<1>3. refresh' = [refresh EXCEPT ![t] = x]
  BY <1>1
<1> HIDE DEF x
<1> QED
  BY <1>2, <1>3, CallPuts

LEMMA CallRefused ==
    ASSUME TypeOK, NEW t \in Tabs, refresh' = [refresh EXCEPT ![t].at = "failed"]
    PROVE  Calls(t, "failed", refresh[t].token, refresh[t].value)
<1> DEFINE x == [refresh[t] EXCEPT !.at = "failed"]
<1>1. refresh[t] \in RefreshType
  BY Typed
<1>2. /\ x \in RefreshType
      /\ x.at = "failed" /\ x.token = refresh[t].token /\ x.value = refresh[t].value
  BY <1>1 DEF RefreshType
<1> HIDE DEF x
<1>3. refresh' = [refresh EXCEPT ![t] = x]
  BY DEF x
<1> QED
  BY <1>2, <1>3, CallPuts

LEMMA CallLost ==
    ASSUME TypeOK, NEW t \in Tabs, LoseRefresh(t)
    PROVE  Calls(t, "failed", refresh[t].token, None)
<1> DEFINE x == [refresh[t] EXCEPT !.at = "failed", !.value = None]
<1>1. refresh[t] \in RefreshType /\ refresh \in [Tabs -> RefreshType]
  BY Typed
<1>2. /\ x \in RefreshType
      /\ x.at = "failed" /\ x.token = refresh[t].token /\ x.value = None
  BY <1>1 DEF RefreshType
<1>3. refresh' = [refresh EXCEPT ![t] = x]
  BY <1>1 DEF LoseRefresh
<1> HIDE DEF x
<1> QED
  BY <1>2, <1>3, CallPuts

LEMMA CallEnds ==
    ASSUME TypeOK, NEW t \in Tabs, RefreshEnds(t)
    PROVE  Calls(t, "none", None, None)
BY IdleType, CallPuts DEF RefreshEnds

-----------------------------------------------------------------------------
(* Types *)

LEMMA Constants ==
    /\ {"sent", "ok", "unauthorized", "error", "queued", "refreshing"} \subseteq Places
    /\ Kinds = {"data", "me", "login", "logout"}
BY DEF Places, Kinds

Rest ==
    /\ storage \in [access : Pairs \cup {None}, refresh : Pairs \cup {None}]
    /\ user \in [Tabs -> Pairs \cup {None}]
    /\ isLoading \in [Tabs -> BOOLEAN]
    /\ atLogin \in [Tabs -> BOOLEAN]
    /\ leaving \in [Tabs -> BOOLEAN]
    /\ isRefreshing \in [Tabs -> BOOLEAN]
    /\ sessionOf \in [Pairs -> Pairs \cup {None}]
    /\ current \in [Pairs -> Pairs \cup {None}]
    /\ expired \subseteq Pairs
    /\ faults \in 0 .. MaxFaults
    /\ redeemed \in [Tabs -> SUBSET Pairs]
    /\ abandoned \subseteq Pairs
    /\ overtaken \in BOOLEAN

LEMMA TypeParts ==
    ASSUME Rest', req' \in [Requests -> RequestType], refresh' \in [Tabs -> RefreshType]
    PROVE  TypeOK'
BY TypedAgain DEF Rest, TypeOK

LEMMA FaultType == ASSUME TypeOK, Fail PROVE faults' \in 0 .. MaxFaults
BY DEF TypeOK, Fail

LEMMA StoreType ==
    ASSUME TypeOK, NEW a \in Pairs \cup {None}, NEW n \in Pairs \cup {None},
           SetTokens(a, n)
    PROVE  /\ storage' \in [access : Pairs \cup {None}, refresh : Pairs \cup {None}]
           /\ storage'.access = a
           /\ storage'.refresh = IF n = None THEN storage.refresh ELSE n
BY DEF TypeOK, SetTokens

LEMMA ClearType ==
    ASSUME Clear
    PROVE  /\ storage' \in [access : Pairs \cup {None}, refresh : Pairs \cup {None}]
           /\ storage'.access = None /\ storage'.refresh = None
BY DEF Clear

LEMMA RejectType ==
    ASSUME TypeOK, NEW t \in Tabs, NEW R, NEW forget, Reject(t, R, forget)
    PROVE  /\ req' \in [Requests -> RequestType]
           /\ storage' \in [access : Pairs \cup {None}, refresh : Pairs \cup {None}]
           /\ user' \in [Tabs -> Pairs \cup {None}]
           /\ isLoading' \in [Tabs -> BOOLEAN]
           /\ atLogin' \in [Tabs -> BOOLEAN]
<1>1. req' \in [Requests -> RequestType]
  BY Rejects DEF Over
<1>2. storage' \in [access : Pairs \cup {None}, refresh : Pairs \cup {None}]
  BY ClearType DEF Reject, TypeOK
<1>3. user' \in [Tabs -> Pairs \cup {None}]
  BY DEF Reject, ShowUser, TypeOK
<1>4. isLoading' \in [Tabs -> BOOLEAN] /\ atLogin' \in [Tabs -> BOOLEAN]
  BY DEF Reject, ShowUser, TypeOK
<1> QED
  BY <1>1, <1>2, <1>3, <1>4

LEMMA TypeStep ==
    ASSUME TypeOK, Shape, Next
    PROVE  TypeOK'
<1> USE DEF vars, pageVars, serverVars, historyVars
<1>1. ASSUME NEW r \in Requests, SendData(r) \/ Login(r) \/ Logout(r) PROVE TypeOK'
  <2>1. PICK kind \in Kinds : Send(r, kind)
    BY <1>1, Constants DEF SendData, Login, Logout
  <2>2. req' \in [Requests -> RequestType]
    BY <2>1, Sends DEF Becomes
  <2>3. refresh' \in [Tabs -> RefreshType] /\ Rest'
    BY <2>1, Typed DEF Send, TypeOK, Rest
  <2> QED
    BY <2>2, <2>3, TypeParts
<1>2. ASSUME NEW r \in Requests, Serve(r) PROVE TypeOK'
  <2>1. CASE \E n \in Pairs : Fresh(n) /\ Issue(n, n) /\ Answer(r, "ok", n)
    <3>1. PICK n \in Pairs : Issue(n, n) /\ Answer(r, "ok", n)
      BY <2>1
    <3>2. req' \in [Requests -> RequestType]
      BY <3>1, Answers, Constants DEF Becomes
    <3>3. refresh' \in [Tabs -> RefreshType] /\ Rest'
      BY <1>2, <3>1, Typed DEF Serve, Issue, TypeOK, Rest
    <3> QED
      BY <3>2, <3>3, TypeParts
  <2>2. CASE Answer(r, "unauthorized", None) /\ UNCHANGED serverVars
    <3>1. req' \in [Requests -> RequestType]
      BY <2>2, Answers, Constants DEF Becomes
    <3>2. refresh' \in [Tabs -> RefreshType] /\ Rest'
      BY <1>2, <2>2, Typed DEF Serve, TypeOK, Rest
    <3> QED
      BY <3>1, <3>2, TypeParts
  <2>3. CASE /\ Accepts(req[r].token)
             /\ LET s == sessionOf[req[r].token] IN
                /\ Answer(r, "ok", IF req[r].kind = "me" THEN s ELSE None)
                /\ current' = IF req[r].kind = "logout"
                              THEN [current EXCEPT ![s] = None] ELSE current
             /\ UNCHANGED sessionOf
    <3>1. req[r].token \in Pairs
      BY <2>3, Typed DEF Accepts, RequestType
    <3>2. sessionOf[req[r].token] \in Pairs \cup {None}
      BY <3>1 DEF TypeOK
    <3>3. req' \in [Requests -> RequestType]
      BY <2>3, <3>2, Answers, Constants DEF Becomes
    <3>4. refresh' \in [Tabs -> RefreshType] /\ Rest'
      BY <1>2, <2>3, Typed DEF Serve, TypeOK, Rest
    <3> QED
      BY <3>3, <3>4, TypeParts
  <2> QED
    BY <1>2, <2>1, <2>2, <2>3 DEF Serve
<1>3. ASSUME NEW r \in Requests, LoseAnswer(r) PROVE TypeOK'
  <2>1. req' \in [Requests -> RequestType]
    BY <1>3, Answers, Constants DEF LoseAnswer, Becomes
  <2>2. refresh' \in [Tabs -> RefreshType] /\ Rest'
    BY <1>3, Typed, FaultType DEF LoseAnswer, TypeOK, Rest
  <2> QED
    BY <2>1, <2>2, TypeParts
<1>4. ASSUME NEW r \in Requests, ReceiveOk(r) PROVE TypeOK'
  <2>1. req' \in [Requests -> RequestType]
    BY <1>4, Ends DEF ReceiveOk, Becomes
  <2>2. req[r].value \in Pairs \cup {None} /\ TabOf(r) \in Tabs
    BY Typed DEF RequestType
  <2>3. refresh' \in [Tabs -> RefreshType] /\ Rest'
    BY <1>4, <2>2, Typed DEF ReceiveOk, ShowUser, TypeOK, Rest
  <2> QED
    BY <2>1, <2>3, TypeParts
<1>5. ASSUME NEW r \in Requests, ReceiveLogin(r) PROVE TypeOK'
  <2>1. req' \in [Requests -> RequestType]
    BY <1>5, Ends DEF ReceiveLogin, Becomes
  <2>2. req[r].value \in Pairs \cup {None} /\ TabOf(r) \in Tabs
    BY Typed DEF RequestType
  <2>3. storage' \in [access : Pairs \cup {None}, refresh : Pairs \cup {None}]
    BY <1>5, <2>2, StoreType DEF ReceiveLogin
  <2>4. refresh' \in [Tabs -> RefreshType] /\ Rest'
    BY <1>5, <2>2, <2>3, Typed DEF ReceiveLogin, TypeOK, Rest
  <2> QED
    BY <2>1, <2>4, TypeParts
<1>6. ASSUME NEW r \in Requests, ReceiveFinal(r) PROVE TypeOK'
  BY <1>6, RejectType, Typed, TypeParts DEF ReceiveFinal, TypeOK, Rest
<1>7. ASSUME NEW r \in Requests, ReceiveWithoutToken(r) PROVE TypeOK'
  BY <1>7, RejectType, Typed, TypeParts DEF ReceiveWithoutToken, RedirectToLogin, TypeOK, Rest
<1>8. ASSUME NEW r \in Requests, ReceiveQueue(r) PROVE TypeOK'
  <2>1. req' \in [Requests -> RequestType]
    BY <1>8, Waits DEF ReceiveQueue, Becomes
  <2>2. refresh' \in [Tabs -> RefreshType] /\ Rest'
    BY <1>8, Typed DEF ReceiveQueue, TypeOK, Rest
  <2> QED
    BY <2>1, <2>2, TypeParts
<1>9. ASSUME NEW r \in Requests, StartRefresh(r) PROVE TypeOK'
  <2>1. req' \in [Requests -> RequestType]
    BY <1>9, Waits DEF StartRefresh, Becomes
  <2>2. refresh' \in [Tabs -> RefreshType]
    BY <1>9, CallStarts DEF StartRefresh, Calls
  <2>3. Rest'
    BY <1>9 DEF StartRefresh, TypeOK, Rest
  <2> QED
    BY <2>1, <2>2, <2>3, TypeParts
<1>10. ASSUME NEW t \in Tabs, ServeRefresh(t) PROVE TypeOK'
  <2> DEFINE token == refresh[t].token
  <2>1. token \in Pairs
    BY <1>10, Typed DEF ServeRefresh, Shape, RefreshType
  <2>2. sessionOf[token] \in Pairs \cup {None}
    BY <2>1 DEF TypeOK
  <2>3. req' \in [Requests -> RequestType]
    BY <1>10, Typed DEF ServeRefresh
  <2>4. CASE \E n \in Pairs :
               /\ Issue(n, sessionOf[token])
               /\ refresh' = [refresh EXCEPT ![t].at = "ok", ![t].value = n]
               /\ redeemed' = [redeemed EXCEPT ![t] = @ \cup {token}]
    <3>1. PICK n \in Pairs :
               /\ Issue(n, sessionOf[token])
               /\ refresh' = [refresh EXCEPT ![t].at = "ok", ![t].value = n]
               /\ redeemed' = [redeemed EXCEPT ![t] = @ \cup {token}]
      BY <2>4
    <3>2. refresh' \in [Tabs -> RefreshType]
      BY <3>1, CallAnswered DEF Calls
    <3> HIDE DEF token
    <3>3. /\ sessionOf' \in [Pairs -> Pairs \cup {None}]
          /\ current' \in [Pairs -> Pairs \cup {None}]
      BY <2>2, <3>1 DEF Issue, TypeOK
    <3>4. redeemed' \in [Tabs -> SUBSET Pairs]
      BY <2>1, <3>1 DEF TypeOK
    <3>5. Rest'
      BY <1>10, <3>3, <3>4 DEF ServeRefresh, TypeOK, Rest
    <3> QED
      BY <2>3, <3>2, <3>5, TypeParts
  <2>5. CASE refresh' = [refresh EXCEPT ![t].at = "failed"] /\ UNCHANGED <<serverVars, redeemed>>
    <3>1. refresh' \in [Tabs -> RefreshType]
      BY <2>5, CallRefused DEF Calls
    <3>2. Rest'
      BY <1>10, <2>5 DEF ServeRefresh, TypeOK, Rest
    <3> QED
      BY <2>3, <3>1, <3>2, TypeParts
  <2> QED
    BY <1>10, <2>4, <2>5 DEF ServeRefresh
<1>11. ASSUME NEW t \in Tabs, LoseRefresh(t) PROVE TypeOK'
  <2>1. refresh' \in [Tabs -> RefreshType]
    BY <1>11, CallLost DEF Calls
  <2>2. req' \in [Requests -> RequestType] /\ Rest'
    BY <1>11, Typed, FaultType DEF LoseRefresh, TypeOK, Rest
  <2> QED
    BY <2>1, <2>2, TypeParts
<1>12. ASSUME NEW t \in Tabs, RefreshOk(t) PROVE TypeOK'
  <2>1. req' \in [Requests -> RequestType] /\ refresh' \in [Tabs -> RefreshType]
    BY <1>12, Resends, CallEnds DEF RefreshOk, Resent, Calls
  <2>2. refresh[t].value \in Pairs \cup {None}
    BY Typed DEF RefreshType
  <2>3. storage' \in [access : Pairs \cup {None}, refresh : Pairs \cup {None}]
    BY <1>12, <2>2, StoreType DEF RefreshOk
  <2>4. Rest'
    BY <1>12, <2>3 DEF RefreshOk, RefreshEnds, TypeOK, Rest
  <2> QED
    BY <2>1, <2>4, TypeParts
<1>13. ASSUME NEW t \in Tabs, RefreshFailed(t) PROVE TypeOK'
  <2>1. refresh' \in [Tabs -> RefreshType]
    BY <1>13, CallEnds DEF RefreshFailed, Calls
  <2>2. req' \in [Requests -> RequestType] /\ Rest'
    BY <1>13, RejectType DEF RefreshFailed, RedirectToLogin, RefreshEnds, TypeOK, Rest
  <2> QED
    BY <2>1, <2>2, TypeParts
<1>14. ASSUME NEW t \in Tabs, Reload(t) PROVE TypeOK'
  <2>1. req' \in [Requests -> RequestType] /\ refresh' \in [Tabs -> RefreshType]
    BY <1>14, Boots, CallEnds DEF Reload, Booted, Calls
  <2>2. faults' \in 0 .. MaxFaults
    BY <1>14, FaultType DEF Reload, TypeOK
  <2>3. isLoading' \in [Tabs -> BOOLEAN] /\ atLogin' \in [Tabs -> BOOLEAN]
    BY <1>14 DEF Reload, TypeOK
  <2>4. Rest'
    BY <1>14, <2>2, <2>3 DEF Reload, RefreshEnds, TypeOK, Rest
  <2> QED
    BY <2>1, <2>4, TypeParts
<1>15. ASSUME NEW n \in Pairs, Expire(n) PROVE TypeOK'
  BY <1>15, Typed, TypeParts DEF Expire, TypeOK, Rest
<1>16. ASSUME NEW n \in Pairs, EndSession(n) PROVE TypeOK'
  BY <1>16, Typed, TypeParts, FaultType DEF EndSession, TypeOK, Rest
<1> QED
  BY <1>1, <1>2, <1>3, <1>4, <1>5, <1>6, <1>7, <1>8, <1>9, <1>10, <1>11, <1>12,
     <1>13, <1>14, <1>15, <1>16 DEF Next, Receive

-----------------------------------------------------------------------------
(* Steps that neither issue a pair nor hand one on *)

LoginsStay ==
    \A q \in Requests : LoggedIn(q)' => LoggedIn(q) /\ req'[q].value = req[q].value

(* An initializeAuth carries the stored token, or what it carried before.  *)
MesStay ==
    \A q \in Requests : req'[q].kind = "me" =>
        \/ req'[q].token = None
        \/ req'[q].token = storage.access
        \/ req[q].kind = "me" /\ req'[q].token = req[q].token

Cleared == storage'.access = None /\ storage'.refresh = None

Quiet ==
    /\ UNCHANGED <<sessionOf, refresh, redeemed, abandoned, isRefreshing>>
    /\ storage' = storage \/ Cleared
    /\ \A s \in Pairs : current'[s] \in {current[s], None}
    /\ LoginsStay /\ MesStay

(* Where the queue is left alone.                                          *)
Aside(q) == req[q].at \notin {"queued", "refreshing"}

LEMMA QuietQueue ==
    ASSUME Queue, UNCHANGED <<isRefreshing, refresh>>,
           \A q \in Requests : req'[q].at = req[q].at \/ (Aside(q) /\ Aside(q)')
    PROVE  Queue'
BY DEF Queue, QueueOf, Of, Refreshing, Aside

LEMMA Single ==
    ASSUME NEW r \in Requests, NEW at, NEW kind, NEW token, NEW value,
           Becomes(r, at, kind, token, value),
           ~(at = "ok" /\ kind = "login"),
           kind = "me" => token \in {None, storage.access}
                          \/ (req[r].kind = "me" /\ token = req[r].token)
    PROVE  LoginsStay /\ MesStay
BY DEF Becomes, LoginsStay, MesStay, LoggedIn

LEMMA OverStays ==
    ASSUME NEW R, Over(R)
    PROVE  LoginsStay /\ MesStay
BY IdleType DEF Over, LoginsStay, MesStay, LoggedIn

QuietAction(r) ==
    \/ SendData(r) \/ Login(r) \/ Logout(r) \/ LoseAnswer(r) \/ ReceiveOk(r)
    \/ ReceiveFinal(r) \/ ReceiveWithoutToken(r) \/ ReceiveQueue(r)

(* The server's two other answers.                                         *)
Judges(r) ==
    \/ Answer(r, "unauthorized", None) /\ UNCHANGED serverVars
    \/ /\ req[r].kind # "login" /\ Accepts(req[r].token)
       /\ LET s == sessionOf[req[r].token] IN
          /\ Answer(r, "ok", IF req[r].kind = "me" THEN s ELSE None)
          /\ current' = IF req[r].kind = "logout"
                        THEN [current EXCEPT ![s] = None] ELSE current
       /\ UNCHANGED sessionOf

Issues(r) ==
    /\ req[r].kind = "login"
    /\ \E n \in Pairs : Fresh(n) /\ Issue(n, n) /\ Answer(r, "ok", n)

LEMMA ServeCases ==
    ASSUME NEW r \in Requests, Serve(r)
    PROVE  Issues(r) \/ Judges(r)
BY DEF Serve, Issues, Judges

LEMMA JudgesQuiet ==
    ASSUME TypeOK, NEW r \in Requests, Serve(r), Judges(r)
    PROVE  /\ Quiet /\ Aside(r) /\ Aside(r)'
           /\ \A q \in Requests \ {r} : req'[q] = req[q]
           /\ req'[r].kind = req[r].kind /\ req'[r].token = None
           /\ req'[r].kind = "me" =>
                  \/ req'[r].value = None
                  \/ req[r].token # None /\ req'[r].value = sessionOf[req[r].token]
<1>1. UNCHANGED <<sessionOf, refresh, redeemed, abandoned, isRefreshing, storage>>
  BY DEF Serve, Judges, serverVars, historyVars
<1>2. CASE Answer(r, "unauthorized", None) /\ UNCHANGED serverVars
  <2>1. Becomes(r, "unauthorized", req[r].kind, None, None)
    BY <1>2, Answers, Constants
  <2>2. LoginsStay /\ MesStay
    BY <2>1, Single
  <2>3. \A s \in Pairs : current'[s] \in {current[s], None}
    BY <1>2 DEF serverVars
  <2> QED
    BY <1>1, <2>1, <2>2, <2>3 DEF Quiet, Becomes, Aside, Serve
<1>3. CASE /\ req[r].kind # "login" /\ Accepts(req[r].token)
           /\ LET s == sessionOf[req[r].token] IN
              /\ Answer(r, "ok", IF req[r].kind = "me" THEN s ELSE None)
              /\ current' = IF req[r].kind = "logout"
                            THEN [current EXCEPT ![s] = None] ELSE current
           /\ UNCHANGED sessionOf
  <2> DEFINE v == IF req[r].kind = "me" THEN sessionOf[req[r].token] ELSE None
  <2>1. req[r].token \in Pairs
    BY <1>3, Typed DEF Accepts, RequestType
  <2>2. v \in Pairs \cup {None}
    BY <2>1 DEF TypeOK
  <2>3. Answer(r, "ok", v)
    BY <1>3
  <2> HIDE DEF v
  <2>4. Becomes(r, "ok", req[r].kind, None, v)
    BY <2>2, <2>3, Answers, Constants
  <2>5. LoginsStay /\ MesStay
    BY <1>3, <2>4, Single
  <2>6. \A s \in Pairs : current'[s] \in {current[s], None}
    BY <1>3 DEF TypeOK
  <2>7. req'[r].kind = "me" => req'[r].value = sessionOf[req[r].token]
    BY <2>4 DEF v, Becomes
  <2>8. req[r].token # None
    BY <1>3 DEF Accepts
  <2> QED
    BY <1>1, <2>8, <2>4, <2>5, <2>6, <2>7 DEF Quiet, Becomes, Aside, Serve
<1> QED
  BY <1>2, <1>3 DEF Judges

LEMMA ActionQuiet ==
    ASSUME TypeOK, Queue, NEW r \in Requests, QuietAction(r)
    PROVE  Quiet /\ Queue' /\ sessionOf' = sessionOf /\ overtaken' = overtaken
<1> USE DEF vars, pageVars, serverVars, historyVars
<1>1. ASSUME SendData(r) \/ Login(r) \/ Logout(r) PROVE Quiet /\ Queue'
  <2>1. PICK kind \in Kinds : Send(r, kind)
    BY <1>1, Constants DEF SendData, Login, Logout
  <2>2. Becomes(r, "sent", kind, storage.access, None)
    BY <2>1, Sends
  <2>3. LoginsStay /\ MesStay
    BY <2>2, Single
  <2>4. Queue'
    BY <2>1, <2>2, QuietQueue DEF Send, Becomes, Aside
  <2> QED
    BY <2>1, <2>3, <2>4 DEF Send, Quiet
<1>2. ASSUME LoseAnswer(r) PROVE Quiet /\ Queue'
  <2>1. Becomes(r, "error", req[r].kind, None, None)
    BY <1>2, Answers, Constants DEF LoseAnswer
  <2>2. LoginsStay /\ MesStay
    BY <2>1, Single
  <2>3. Queue'
    BY <1>2, <2>1, QuietQueue DEF LoseAnswer, Becomes, Aside
  <2> QED
    BY <1>2, <2>2, <2>3 DEF LoseAnswer, Quiet
<1>3. ASSUME ReceiveOk(r) PROVE Quiet /\ Queue'
  <2>1. Becomes(r, "idle", "data", None, None)
    BY <1>3, Ends DEF ReceiveOk
  <2>2. LoginsStay /\ MesStay
    BY <2>1, Single
  <2>3. Queue'
    BY <1>3, <2>1, QuietQueue DEF ReceiveOk, Becomes, Aside
  <2> QED
    BY <1>3, <2>2, <2>3 DEF ReceiveOk, Quiet
<1>4. ASSUME ReceiveFinal(r) \/ ReceiveWithoutToken(r) PROVE Quiet /\ Queue'
  <2>1. PICK forget \in BOOLEAN : Reject(TabOf(r), {r}, forget)
    BY <1>4 DEF ReceiveFinal, ReceiveWithoutToken
  <2>2. Over({r})
    BY <2>1, Rejects
  <2>3. LoginsStay /\ MesStay
    BY <2>2, OverStays
  <2>4. req[r].at \in {"ok", "error", "unauthorized"}
    BY <1>4 DEF ReceiveFinal, ReceiveWithoutToken, Final, NeedsRefresh
  <2>5. UNCHANGED <<sessionOf, current, refresh, redeemed, abandoned, isRefreshing>>
    BY <1>4 DEF ReceiveFinal, ReceiveWithoutToken
  <2>6. Queue'
    BY <2>2, <2>4, <2>5, IdleType, QuietQueue DEF Over, Aside
  <2>7. storage' = storage \/ Cleared
    BY <2>1 DEF Reject, Clear, Cleared
  <2> QED
    BY <2>3, <2>5, <2>6, <2>7 DEF Quiet
<1>5. ASSUME ReceiveQueue(r) PROVE Quiet /\ Queue'
  <2>1. Becomes(r, "queued", req[r].kind, req[r].token, req[r].value)
    BY <1>5, Waits DEF ReceiveQueue
  <2>2. LoginsStay /\ MesStay
    BY <2>1, Single
  <2>3. req[r].at = "unauthorized" /\ isRefreshing[TabOf(r)]
        /\ UNCHANGED <<isRefreshing, refresh>>
    BY <1>5 DEF ReceiveQueue, NeedsRefresh
  <2>4. Queue'
    BY <2>1, <2>3 DEF Queue, QueueOf, Of, Refreshing, Becomes
  <2> QED
    BY <1>5, <2>2, <2>4 DEF ReceiveQueue, Quiet
<1>6. sessionOf' = sessionOf /\ overtaken' = overtaken
  BY DEF QuietAction, SendData, Login, Logout, Send, LoseAnswer, ReceiveOk,
         ReceiveFinal, ReceiveWithoutToken, ReceiveQueue
<1> QED
  BY <1>1, <1>2, <1>3, <1>4, <1>5, <1>6 DEF QuietAction

LEMMA PairQuiet ==
    ASSUME TypeOK, NEW n \in Pairs, Expire(n) \/ EndSession(n)
    PROVE  Quiet /\ req' = req
BY DEF Expire, EndSession, Quiet, LoginsStay, MesStay, LoggedIn, TypeOK,
       pageVars, serverVars, historyVars

(* What a quiet step preserves.                                            *)
LEMMA QuietPieces ==
    ASSUME TypeOK, TypeOK', Pieces, Quiet
    PROVE  Pieces'
<1> USE DEF Quiet, LoginsStay, MesStay, Cleared, Pieces
<1>1. Shape'
  BY DEF Shape, LoggedIn
<1>2. Held'
  BY DEF Held, Issued, LoggedIn
<1>3. \A n \in Pairs : Issued(n) /\ Current(n) => Current(n)'
  BY DEF TypeOK, Current, Issued
<1>4. \A n \in Pairs : Issued(n) /\ Unknown(n) => Unknown(n)'
  BY <1>3, NoneIsNoPair DEF Unknown
<1>5. Apart'
  <2>1. \A t \in Tabs : Rotated(t) =>
            refresh[t].value \in Pairs /\ Issued(refresh[t].value)
    BY Typed DEF Rotated, Shape, Held, RefreshType
  <2>2. \A r \in Requests : LoggedIn(r) =>
            req[r].value \in Pairs /\ Issued(req[r].value)
    BY Typed DEF Shape, Held, RequestType, Issued
  <2> QED
    BY <1>4, <2>1, <2>2 DEF Apart, Rotated
<1>6. Spent'
  BY NoneIsNoPair DEF Spent, NoTokenSpentTwice, TypeOK
<1>7. Last'
  <2>1. CASE storage' = storage
    <3>1. storage.refresh \in Pairs \cup {None} /\ Issued(storage.refresh)
      BY DEF TypeOK, Held
    <3> QED
      BY <2>1, <3>1, <1>3 DEF Last
  <2>2. CASE Cleared
    BY <2>2 DEF Last
  <2> QED
    BY <2>1, <2>2
<1> QED
  BY <1>1, <1>2, <1>5, <1>6, <1>7

-----------------------------------------------------------------------------
(* A refresh begins, fails, or ends with its page *)

(* The call of tab t brings no pair, and forgets at most its token.        *)
Fades(t) ==
    /\ UNCHANGED <<sessionOf, current>>
    /\ storage' = storage \/ Cleared
    /\ \A o \in Tabs \ {t} : refresh'[o] = refresh[o]
    /\ refresh'[t].at # "ok"
    /\ refresh'[t].at = "none" <=> refresh'[t].token = None
    /\ refresh'[t].at = "none" => refresh'[t].value = None
    /\ refresh'[t].token \in {refresh[t].token, None}
    /\ refresh'[t].value \in {refresh[t].value, None}
    /\ \A o \in Tabs : redeemed'[o] \subseteq redeemed[o]
    /\ LoginsStay /\ MesStay

LEMMA FadesPieces ==
    ASSUME TypeOK, Shape, Held, Apart, NEW t \in Tabs, Fades(t)
    PROVE  Shape' /\ Held' /\ Apart'
<1> USE DEF Fades, LoginsStay, MesStay, Cleared
<1>1. Shape'
  BY DEF Shape, LoggedIn
<1>2. Held'
  <2>1. \A n : Issued(n) => Issued(n)'
    BY DEF Issued
  <2>2. Issued(storage.access)' /\ Issued(storage.refresh)'
    BY <2>1 DEF Held, Issued
  <2>3. \A o \in Tabs : Issued(refresh[o].token)' /\ Issued(refresh[o].value)'
    BY <2>1 DEF Held, Issued
  <2>4. \A o \in Tabs : \A n \in redeemed'[o] : Issued(n)'
    BY <2>1 DEF Held
  <2>5. \A r \in Requests : req'[r].kind = "me" => Issued(req[r].token)'
    BY <2>1 DEF Held, Issued
  <2> QED
    BY <2>2, <2>3, <2>4, <2>5 DEF Held, LoggedIn, Issued
<1>3. \A n \in Pairs : Unknown(n) => Unknown(n)'
  <2>1. \A n : Current(n) => Current(n)'
    BY DEF Current
  <2> QED
    BY <2>1, NoneIsNoPair DEF Unknown
<1>4. Apart'
  <2>1. \A o \in Tabs : Rotated(o) => refresh[o].value \in Pairs
    BY Typed DEF Rotated, Shape, RefreshType
  <2>2. \A r \in Requests : LoggedIn(r) => req[r].value \in Pairs
    BY Typed DEF Shape, RequestType
  <2>3. \A o \in Tabs : Rotated(o)' => o # t /\ Rotated(o) /\ refresh'[o] = refresh[o]
    BY DEF Rotated
  <2> QED
    BY <1>3, <2>1, <2>2, <2>3 DEF Apart
<1> QED
  BY <1>1, <1>2, <1>4

LEMMA LoseStep ==
    ASSUME TypeOK, Pieces, Queue, NEW t \in Tabs, LoseRefresh(t)
    PROVE  Pieces' /\ Queue'
<1> USE DEF Pieces
<1>1. Calls(t, "failed", refresh[t].token, None)
  BY CallLost
<1>2. /\ UNCHANGED <<storage, isRefreshing, req, sessionOf, current, redeemed, abandoned>>
      /\ refresh[t].at # "none"
  BY DEF LoseRefresh, serverVars, historyVars
<1>3. LoginsStay /\ MesStay
  BY <1>2 DEF LoginsStay, MesStay, LoggedIn
<1>4. Fades(t)
  BY <1>1, <1>2, <1>3 DEF Fades, Calls, Shape
<1>5. Queue'
  BY <1>1, <1>2 DEF Queue, QueueOf, Calls, Refreshing, Of
<1>6. Spent' /\ Last'
  BY <1>1, <1>2 DEF Spent, NoTokenSpentTwice, Last, Current, Calls
<1> QED
  BY <1>4, <1>5, <1>6, FadesPieces

LEMMA FailedStep ==
    ASSUME TypeOK, Pieces, Queue, NEW t \in Tabs, RefreshFailed(t)
    PROVE  Pieces' /\ Queue'
<1> USE DEF Pieces
<1>1. Calls(t, "none", None, None) /\ Over(Waiting(t))
  BY CallEnds, Rejects DEF RefreshFailed
<1>2. /\ UNCHANGED <<sessionOf, current, redeemed, abandoned>>
      /\ Cleared
      /\ isRefreshing' = [isRefreshing EXCEPT ![t] = FALSE]
  BY DEF RefreshFailed, serverVars, historyVars, Reject, Clear, Cleared, RefreshEnds
<1>3. LoginsStay /\ MesStay
  BY <1>1, OverStays
<1>4. Fades(t)
  BY <1>1, <1>2, <1>3 DEF Fades, Calls
<1>5. Queue'
  <2>1. \A q \in Requests : IF q \in Waiting(t) THEN req'[q].at = "idle" ELSE req'[q] = req[q]
    BY <1>1, IdleType DEF Over
  <2> QED
    BY <1>1, <1>2, <2>1 DEF Queue, QueueOf, Calls, Refreshing, Of, Waiting, TypeOK
<1>6. Spent' /\ Last'
  BY <1>1, <1>2, NoneIsNoPair DEF Spent, NoTokenSpentTwice, Last, Cleared, Calls, TypeOK
<1> QED
  BY <1>4, <1>5, <1>6, FadesPieces

LEMMA ReloadStep ==
    ASSUME TypeOK, Pieces, Queue, NEW t \in Tabs, Reload(t)
    PROVE  Pieces' /\ Queue'
<1> USE DEF Pieces
<1>1. Calls(t, "none", None, None) /\ Booted(t)
  BY CallEnds, Boots DEF Reload
<1>2. /\ UNCHANGED <<storage, sessionOf, current>>
      /\ redeemed' = [redeemed EXCEPT ![t] = {}]
      /\ abandoned' = abandoned \cup redeemed[t]
      /\ isRefreshing' = [isRefreshing EXCEPT ![t] = FALSE]
  BY DEF Reload, serverVars, RefreshEnds
<1>3. LoginsStay /\ MesStay
  BY <1>1, IdleType DEF Booted, LoginsStay, MesStay, LoggedIn
<1>4. \A o \in Tabs : redeemed'[o] = IF o = t THEN {} ELSE redeemed[o]
  BY <1>2 DEF TypeOK
<1>5. Fades(t)
  BY <1>1, <1>2, <1>3, <1>4 DEF Fades, Calls
<1>6. Queue'
  <2>1. \A q \in Requests : IF q \in Of(t) THEN req'[q].at \in {"idle", "sent"}
                                           ELSE req'[q] = req[q]
    BY <1>1, IdleType DEF Booted
  <2>2. QueueOf(t)'
    <3>1. ~isRefreshing'[t] /\ refresh'[t].at = "none"
      BY <1>1, <1>2 DEF Calls, TypeOK
    <3>2. \A q \in Of(t) : req'[q].at \in {"idle", "sent"}
      BY <2>1 DEF Of
    <3> QED
      BY <3>1, <3>2 DEF QueueOf, Refreshing
  <2>3. ASSUME NEW o \in Tabs \ {t} PROVE QueueOf(o)'
    <3>1. \A q \in Of(o) : req'[q] = req[q]
      BY <2>1 DEF Of
    <3>2. isRefreshing'[o] = isRefreshing[o] /\ refresh'[o] = refresh[o]
      BY <1>1, <1>2 DEF Calls, TypeOK
    <3> QED
      BY <3>1, <3>2 DEF Queue, QueueOf, Refreshing
  <2> QED
    BY <2>2, <2>3 DEF Queue
<1>7. Spent'
  BY <1>1, <1>2, <1>4 DEF Spent, NoTokenSpentTwice, Calls, TypeOK
<1>8. Last'
  BY <1>1, <1>2, <1>4 DEF Last, Current, Calls
<1> QED
  BY <1>5, <1>6, <1>7, <1>8, FadesPieces

LEMMA StartStep ==
    ASSUME TypeOK, Pieces, Queue, NEW r \in Requests, StartRefresh(r)
    PROVE  Pieces' /\ Queue'
<1> DEFINE t == TabOf(r)
<1> USE DEF Pieces
<1>1. /\ Calls(t, "sent", storage.refresh, None)
      /\ Becomes(r, "refreshing", req[r].kind, req[r].token, req[r].value)
  BY CallStarts, Waits DEF StartRefresh
<1>2. /\ UNCHANGED <<storage, sessionOf, current, redeemed, abandoned>>
      /\ isRefreshing' = [isRefreshing EXCEPT ![t] = TRUE]
      /\ ~isRefreshing[t] /\ storage.refresh # None /\ t \in Tabs
      /\ req[r].at = "unauthorized"
  BY DEF StartRefresh, NeedsRefresh, serverVars, historyVars
<1>3. LoginsStay /\ MesStay
  BY <1>1, Single
<1>4. refresh[t].at = "none" /\ refresh[t].token = None
  BY <1>2 DEF Queue, QueueOf, Shape
<1>5. Queue'
  <2>1. r \in Of(t) /\ Refreshing(r)'
    BY <1>1 DEF Of, Becomes, Refreshing
  <2>2. \A q \in Of(t) : ~Refreshing(q)
    BY <1>2 DEF Queue, QueueOf
  <2>3. QueueOf(t)'
    <3>1. isRefreshing'[t] /\ refresh'[t].at = "sent"
      BY <1>1, <1>2 DEF Calls, TypeOK
    <3>2. \A q \in Of(t) \ {r} : req'[q] = req[q]
      BY <1>1 DEF Becomes, Of
    <3> QED
      BY <2>1, <2>2, <3>1, <3>2 DEF QueueOf, Refreshing
  <2>4. ASSUME NEW o \in Tabs \ {t} PROVE QueueOf(o)'
    <3>1. \A q \in Of(o) : req'[q] = req[q]
      BY <1>1 DEF Becomes, Of
    <3>2. isRefreshing'[o] = isRefreshing[o] /\ refresh'[o] = refresh[o]
      BY <1>1, <1>2 DEF Calls, TypeOK
    <3> QED
      BY <3>1, <3>2 DEF Queue, QueueOf, Refreshing
  <2> QED
    BY <2>3, <2>4 DEF Queue
<1>6. Shape'
  BY <1>1, <1>2, <1>3 DEF Shape, Calls, LoginsStay, LoggedIn
<1>7. Held'
  BY <1>1, <1>2, <1>3 DEF Held, Calls, LoginsStay, MesStay, LoggedIn, Issued
<1>8. Apart'
  <2>1. \A n : n # storage.refresh /\ Unknown(n) => Unknown(n)'
    BY <1>1, <1>2 DEF Unknown, Current, Calls
  <2>2. \A o \in Tabs : Rotated(o)' => Rotated(o) /\ refresh'[o] = refresh[o]
    BY <1>1 DEF Rotated, Calls
  <2> QED
    BY <1>3, <2>1, <2>2 DEF Apart, LoginsStay, Unknown
<1>9. Spent'
  BY <1>1, <1>2 DEF Spent, NoTokenSpentTwice, Calls, TypeOK
<1>10. Last'
  BY <1>1, <1>2, <1>4 DEF Last, Current, Calls
<1> QED
  BY <1>5, <1>6, <1>7, <1>8, <1>9, <1>10

-----------------------------------------------------------------------------
(* A pair is issued, and received *)

LEMMA Issuing ==
    ASSUME TypeOK, Held, NEW n \in Pairs, NEW s \in Pairs, Fresh(n), Issue(n, s)
    PROVE  /\ \A m \in Pairs : sessionOf'[m] = IF m = n THEN s ELSE sessionOf[m]
           /\ \A x \in Pairs : current'[x] = IF x = s THEN n ELSE current[x]
           /\ n # None /\ sessionOf[n] = None
           /\ \A m \in Pairs \cup {None} : Issued(m) => Issued(m)' /\ m # n
           /\ \A m \in Pairs : sessionOf[m] # None =>
                  sessionOf[m] \in Pairs \ {n} /\ sessionOf[sessionOf[m]] # None
<1>1. /\ \A m \in Pairs : sessionOf'[m] = IF m = n THEN s ELSE sessionOf[m]
      /\ \A x \in Pairs : current'[x] = IF x = s THEN n ELSE current[x]
  BY DEF TypeOK, Issue
<1>2. n # None /\ s # None /\ sessionOf[n] = None
  BY NoneIsNoPair DEF Fresh
<1>3. \A m \in Pairs \cup {None} : Issued(m) => Issued(m)' /\ m # n
  BY <1>1, <1>2 DEF Issued
<1>4. \A m \in Pairs : sessionOf[m] # None =>
          sessionOf[m] \in Pairs /\ sessionOf[sessionOf[m]] # None
  BY NoneIsNoPair DEF Held, Issued, TypeOK
<1> QED
  BY <1>1, <1>2, <1>3, <1>4

(* Every token somebody holds is an issued pair.                           *)
LEMMA Holdings ==
    ASSUME TypeOK, Shape, Held
    PROVE  /\ storage.refresh \in Pairs \cup {None} /\ Issued(storage.refresh)
           /\ storage.access \in Pairs \cup {None} /\ Issued(storage.access)
           /\ \A t \in Tabs :
                /\ refresh[t].token \in Pairs \cup {None} /\ Issued(refresh[t].token)
                /\ refresh[t].value \in Pairs \cup {None} /\ Issued(refresh[t].value)
                /\ Rotated(t) => refresh[t].value \in Pairs
                /\ redeemed[t] \subseteq Pairs
                /\ \A m \in redeemed[t] : Issued(m)
           /\ \A r \in Requests :
                /\ req[r].token \in Pairs \cup {None}
                /\ req[r].value \in Pairs \cup {None}
                /\ req[r].kind = "me" => Issued(req[r].token)
                /\ LoggedIn(r) =>
                    /\ req[r].value \in Pairs
                    /\ sessionOf[req[r].value] = req[r].value
                    /\ Issued(req[r].value)
<1>1. \A t \in Tabs : /\ refresh[t].token \in Pairs \cup {None}
                      /\ refresh[t].value \in Pairs \cup {None}
  BY Typed DEF RefreshType
<1>2. \A r \in Requests : /\ req[r].token \in Pairs \cup {None}
                          /\ req[r].value \in Pairs \cup {None}
  BY Typed DEF RequestType
<1>3. \A r \in Requests : LoggedIn(r) =>
          /\ req[r].value \in Pairs
          /\ sessionOf[req[r].value] = req[r].value
          /\ Issued(req[r].value)
  BY <1>2, NoneIsNoPair DEF Shape, Held, Issued
<1>4. \A t \in Tabs : Rotated(t) => refresh[t].value \in Pairs
  BY <1>1 DEF Shape, Rotated
<1>5. /\ storage.refresh \in Pairs \cup {None} /\ storage.access \in Pairs \cup {None}
      /\ \A t \in Tabs : redeemed[t] \subseteq Pairs
  BY DEF TypeOK
<1> QED
  BY <1>1, <1>2, <1>3, <1>4, <1>5 DEF Held

LEMMA LoginServed ==
    ASSUME TypeOK, Pieces, Queue, NEW r \in Requests, Serve(r), Issues(r)
    PROVE  Pieces' /\ Queue'
<1> USE DEF Pieces
<1>1. PICK n \in Pairs : Fresh(n) /\ Issue(n, n) /\ Answer(r, "ok", n)
  BY DEF Issues
<1>2. /\ UNCHANGED <<storage, isRefreshing, refresh, redeemed, abandoned>>
      /\ req[r].at = "sent" /\ req[r].kind = "login"
  BY DEF Serve, Issues, historyVars
<1>3. Becomes(r, "ok", "login", None, n)
  BY <1>1, <1>2, Answers, Constants
<1>4. /\ \A m \in Pairs : sessionOf'[m] = IF m = n THEN n ELSE sessionOf[m]
      /\ \A x \in Pairs : current'[x] = IF x = n THEN n ELSE current[x]
      /\ n # None /\ sessionOf[n] = None
      /\ \A m \in Pairs \cup {None} : Issued(m) => Issued(m)' /\ m # n
      /\ \A m \in Pairs : sessionOf[m] # None =>
             sessionOf[m] \in Pairs \ {n} /\ sessionOf[sessionOf[m]] # None
  BY <1>1, Issuing
<1>5. Shape'
  BY <1>2, <1>3, <1>4 DEF Shape, Becomes, LoggedIn
<1>6. Held'
  <2>1. \A t \in Tabs : Issued(refresh[t].token)' /\ Issued(refresh[t].value)'
    BY <1>2, <1>4, Holdings DEF Issued
  <2>2. Issued(storage.access)' /\ Issued(storage.refresh)'
    BY <1>2, <1>4, Holdings DEF Issued
  <2>3. \A t \in Tabs : \A m \in redeemed'[t] : Issued(m)'
    BY <1>2, <1>4, Holdings DEF Issued
  <2>4. \A q \in Requests : req'[q].kind = "me" => Issued(req[q].token)'
    <3>1. \A q \in Requests : req'[q].kind = "me" =>
              req'[q] = req[q]
      BY <1>3 DEF Becomes
    <3> QED
      BY <3>1, <1>4, Holdings DEF Issued
  <2>5. \A q \in Requests : LoggedIn(q)' => sessionOf'[req'[q].value] = req'[q].value
    BY <1>3, <1>4, Holdings DEF Becomes, LoggedIn
  <2>6. \A m \in Pairs : Issued(m)' => Issued(sessionOf[m])'
    BY <1>4 DEF Issued
  <2> QED
    BY <2>1, <2>2, <2>3, <2>4, <2>5, <2>6 DEF Held
<1>7. \A m \in Pairs : Issued(m) /\ Current(m) => Current(m)'
  BY <1>4, NoneIsNoPair DEF Current, Issued
<1>8. \A m \in Pairs : Issued(m) /\ Unknown(m) => Unknown(m)' /\ m # n
  BY <1>2, <1>4, <1>7 DEF Unknown
<1>9. Unknown(n)'
  <2>1. Current(n)'
    BY <1>4 DEF Current
  <2>2. \A t \in Tabs : refresh[t].token # n /\ n \notin redeemed[t] /\ n # storage.refresh
    BY <1>4, Holdings
  <2> QED
    BY <1>2, <2>1, <2>2 DEF Unknown
<1>10. Apart'
  <2>1. \A q \in Requests : LoggedIn(q)' =>
            (q = r /\ req'[q].value = n)
            \/ (LoggedIn(q) /\ q # r /\ req'[q] = req[q] /\ req[q].value # n)
    BY <1>3, <1>4, Holdings DEF Becomes, LoggedIn
  <2>2. \A t \in Tabs : Rotated(t)' => Rotated(t) /\ refresh[t].value # n
    BY <1>2, <1>4, Holdings DEF Rotated
  <2>3. \A q \in Requests : \A m : LoggedIn(q) /\ m = req[q].value => Unknown(m)'
    BY <1>8, Holdings DEF Apart
  <2>4. \A t \in Tabs : \A m : Rotated(t) /\ m = refresh[t].value => Unknown(m)'
    BY <1>8, Holdings DEF Apart
  <2>5. \A q \in Requests : \A m : LoggedIn(q)' /\ m = req'[q].value => Unknown(m)'
    BY <1>9, <2>1, <2>3
  <2>6. \A t \in Tabs : \A m : Rotated(t)' /\ m = refresh'[t].value => Unknown(m)'
    BY <1>2, <2>2, <2>4
  <2>7. \A t \in Tabs : Rotated(t)' =>
        /\ \A o \in Tabs : Rotated(o)' /\ refresh'[o].value = refresh'[t].value => o = t
        /\ \A q \in Requests : LoggedIn(q)' => req'[q].value # refresh'[t].value
    BY <1>2, <2>1, <2>2 DEF Apart
  <2>8. \A p, q \in Requests :
            LoggedIn(p)' /\ LoggedIn(q)' /\ req'[q].value = req'[p].value => q = p
    BY <2>1 DEF Apart
  <2> QED
    BY <2>5, <2>6, <2>7, <2>8 DEF Apart
<1>11. Spent'
  BY <1>2 DEF Spent, NoTokenSpentTwice
<1>12. Last'
  BY <1>2, <1>7, Holdings DEF Last
<1>13. Queue'
  BY <1>2, <1>3, QuietQueue DEF Becomes, Aside
<1> QED
  BY <1>5, <1>6, <1>10, <1>11, <1>12, <1>13

LEMMA Rotates ==
    ASSUME TypeOK, Pieces, Queue, NEW t \in Tabs, ServeRefresh(t),
           NEW n \in Pairs, Fresh(n), Issue(n, sessionOf[refresh[t].token]),
           current[sessionOf[refresh[t].token]] = refresh[t].token,
           refresh' = [refresh EXCEPT ![t].at = "ok", ![t].value = n],
           redeemed' = [redeemed EXCEPT ![t] = @ \cup {refresh[t].token}]
    PROVE  Pieces' /\ Queue'
<1> USE DEF Pieces
<1> DEFINE token == refresh[t].token
           s == sessionOf[token]
<1>1. Calls(t, "ok", token, n)
  BY CallAnswered
<1>2. /\ UNCHANGED <<storage, isRefreshing, req, abandoned>>
      /\ refresh[t].at = "sent"
  BY DEF ServeRefresh, pageVars
<1>3. token \in Pairs /\ token # None
  BY <1>2, Holdings DEF Shape
<1>4. s \in Pairs /\ current[s] = token
  BY <1>3, Holdings DEF Issued, TypeOK
<1>5. /\ \A o \in Tabs : redeemed[o] \subseteq redeemed'[o]
      /\ \A o \in Tabs : \A m \in redeemed'[o] : m \in redeemed[o] \/ m = token
      /\ token \in redeemed'[t]
      /\ \A o \in Tabs \ {t} : redeemed'[o] = redeemed[o]
  BY DEF TypeOK
<1>6. /\ \A m \in Pairs : sessionOf'[m] = IF m = n THEN s ELSE sessionOf[m]
      /\ \A x \in Pairs : current'[x] = IF x = s THEN n ELSE current[x]
      /\ n # None /\ sessionOf[n] = None
      /\ \A m \in Pairs \cup {None} : Issued(m) => Issued(m)' /\ m # n
      /\ \A m \in Pairs : sessionOf[m] # None =>
             sessionOf[m] \in Pairs \ {n} /\ sessionOf[sessionOf[m]] # None
  BY <1>4, Issuing
<1>7. Issued(token) /\ sessionOf[s] # None
  BY <1>3, <1>6, Holdings DEF Issued
<1> HIDE DEF s, token
<1>8. Shape'
  BY <1>1, <1>2, <1>3, <1>6 DEF Shape, Calls, LoggedIn
<1>9. Held'
  <2>1. Issued(n)'
    BY <1>4, <1>6, NoneIsNoPair DEF Issued
  <2>2. \A o \in Tabs : Issued(refresh[o].token)' /\ Issued(refresh[o].value)'
    <3>1. ASSUME NEW o \in Tabs \ {t}
          PROVE  Issued(refresh[o].token)' /\ Issued(refresh[o].value)'
      BY <1>1, <1>6, Holdings DEF Calls, Issued
    <3>2. Issued(refresh[t].token)' /\ Issued(refresh[t].value)'
      BY <1>1, <1>3, <1>6, <1>7, <2>1 DEF Calls, Issued
    <3> QED
      BY <3>1, <3>2
  <2>3. Issued(storage.access)' /\ Issued(storage.refresh)'
    BY <1>2, <1>6, Holdings DEF Issued
  <2>4. \A o \in Tabs : \A m \in redeemed'[o] : Issued(m)'
    BY <1>3, <1>5, <1>6, <1>7, Holdings DEF Issued
  <2>5. \A q \in Requests : req'[q].kind = "me" => Issued(req[q].token)'
    BY <1>2, <1>6, Holdings DEF Issued
  <2>6. \A q \in Requests : LoggedIn(q)' => sessionOf'[req'[q].value] = req'[q].value
    BY <1>2, <1>6, Holdings DEF LoggedIn
  <2>7. \A m \in Pairs : Issued(m)' => Issued(sessionOf[m])'
    BY <1>4, <1>6, <1>7 DEF Issued
  <2> QED
    BY <2>2, <2>3, <2>4, <2>5, <2>6, <2>7 DEF Held
<1>10. \A m \in Pairs : Issued(m) /\ Current(m) /\ m # token => Current(m)'
  BY <1>3, <1>4, <1>6, NoneIsNoPair DEF Current, Issued
<1>11. \A m \in Pairs : Issued(m) /\ Unknown(m) => Unknown(m)' /\ m # n
  <2>1. \A m \in Pairs : Unknown(m) => m # token
    BY DEF Unknown, token
  <2>2. \A o \in Tabs : refresh'[o].token = refresh[o].token
    BY <1>1 DEF Calls, token
  <2>3. \A m : m # token => \A o \in Tabs : m \in redeemed'[o] => m \in redeemed[o]
    BY <1>5
  <2>4. ASSUME NEW m \in Pairs, Issued(m), Unknown(m)
        PROVE  Unknown(m)' /\ m # n
    <3>1. Current(m)' /\ m # n
      BY <1>6, <1>10, <2>1, <2>4 DEF Unknown
    <3>2. m # storage'.refresh
      BY <1>2, <2>4 DEF Unknown
    <3>3. \A o \in Tabs : refresh'[o].token # m /\ m \notin redeemed'[o]
      BY <2>1, <2>2, <2>3, <2>4 DEF Unknown
    <3> QED
      BY <3>1, <3>2, <3>3 DEF Unknown
  <2> QED
    BY <2>4
<1>12. Unknown(n)'
  <2>1. Current(n)'
    BY <1>4, <1>6 DEF Current
  <2>2. n # token /\ n # storage.refresh
    BY <1>3, <1>6, <1>7, Holdings
  <2>3. \A o \in Tabs : refresh[o].token # n /\ n \notin redeemed[o]
    BY <1>6, Holdings
  <2>4. \A o \in Tabs : refresh'[o].token = refresh[o].token
    BY <1>1 DEF Calls, token
  <2>5. n # storage'.refresh
    BY <1>2, <2>2
  <2>6. \A o \in Tabs : refresh'[o].token # n /\ n \notin redeemed'[o]
    BY <1>5, <2>2, <2>3, <2>4
  <2> QED
    BY <2>1, <2>5, <2>6 DEF Unknown
<1>13. Apart'
  <2>1. \A o \in Tabs : Rotated(o)' =>
            (o = t /\ refresh'[o].value = n)
            \/ (o # t /\ Rotated(o) /\ refresh'[o] = refresh[o] /\ refresh[o].value # n)
    BY <1>1, <1>6, Holdings DEF Calls, Rotated
  <2>2. \A q \in Requests : LoggedIn(q) => req[q].value # n
    BY <1>6, Holdings
  <2>3. \A o \in Tabs : \A m : Rotated(o) /\ m = refresh[o].value => Unknown(m)'
    BY <1>11, Holdings DEF Apart
  <2>4. \A q \in Requests : \A m : LoggedIn(q) /\ m = req[q].value => Unknown(m)'
    BY <1>11, Holdings DEF Apart
  <2>5. \A o \in Tabs : \A m : Rotated(o)' /\ m = refresh'[o].value => Unknown(m)'
    BY <1>12, <2>1, <2>3
  <2>6. \A o \in Tabs : Rotated(o)' =>
        /\ \A p \in Tabs : Rotated(p)' /\ refresh'[p].value = refresh'[o].value => p = o
        /\ \A q \in Requests : LoggedIn(q) => req[q].value # refresh'[o].value
    <3>1. ASSUME NEW o \in Tabs, NEW p \in Tabs, Rotated(o)', Rotated(p)',
                 refresh'[p].value = refresh'[o].value
          PROVE  p = o
      BY <2>1, <3>1 DEF Apart
    <3>2. ASSUME NEW o \in Tabs, NEW q \in Requests, Rotated(o)', LoggedIn(q)
          PROVE  req[q].value # refresh'[o].value
      <4>1. CASE o = t
        BY <2>1, <2>2, <3>2, <4>1
      <4>2. CASE o # t
        BY <2>1, <3>2, <4>2 DEF Apart
      <4> QED
        BY <4>1, <4>2
    <3> QED
      BY <3>1, <3>2
  <2> QED
    BY <1>2, <2>4, <2>5, <2>6 DEF Apart, LoggedIn
<1>14. Queue'
  BY <1>1, <1>2 DEF Queue, QueueOf, Calls, Refreshing, Of
<1>15. Spent'
  <2>1. isRefreshing[t]
    BY <1>2 DEF Queue, QueueOf
  <2> QED
    BY <1>1, <1>2, <1>5, <2>1 DEF Spent, NoTokenSpentTwice, Calls
<1>16. Last'
  <2>1. \A o \in Tabs : refresh'[o].token = refresh[o].token /\ redeemed[o] \subseteq redeemed'[o]
    BY <1>1, <1>5 DEF Calls, token
  <2>2. CASE storage.refresh = token
    <3>1. refresh'[t].token = token /\ token \in redeemed'[t]
      BY <1>1, <1>5 DEF Calls
    <3> QED
      BY <1>2, <2>2, <3>1 DEF Last
  <2>3. CASE storage.refresh # token
    BY <1>2, <1>10, <2>1, <2>3, Holdings DEF Last
  <2> QED
    BY <2>2, <2>3
<1> QED
  BY <1>8, <1>9, <1>13, <1>14, <1>15, <1>16

LEMMA RotationStep ==
    ASSUME TypeOK, Pieces, Queue, NEW t \in Tabs, ServeRefresh(t)
    PROVE  Pieces' /\ Queue'
<1> USE DEF Pieces
<1>1. CASE refresh' = [refresh EXCEPT ![t].at = "failed"] /\ UNCHANGED <<serverVars, redeemed>>
  <2>1. Calls(t, "failed", refresh[t].token, refresh[t].value)
    BY <1>1, CallRefused
  <2>2. /\ UNCHANGED <<storage, isRefreshing, req, sessionOf, current, redeemed, abandoned>>
        /\ refresh[t].at # "none"
    BY <1>1 DEF ServeRefresh, serverVars, historyVars
  <2>3. LoginsStay /\ MesStay
    BY <2>2 DEF LoginsStay, MesStay, LoggedIn
  <2>4. Fades(t)
    BY <2>1, <2>2, <2>3 DEF Fades, Calls, Shape
  <2>5. Queue'
    BY <2>1, <2>2 DEF Queue, QueueOf, Calls, Refreshing, Of
  <2>6. Spent' /\ Last'
    BY <2>1, <2>2 DEF Spent, NoTokenSpentTwice, Last, Current, Calls
  <2> QED
    BY <2>4, <2>5, <2>6, FadesPieces
<1>2. CASE \E n \in Pairs :
             /\ Fresh(n) /\ current[sessionOf[refresh[t].token]] = refresh[t].token
             /\ Issue(n, sessionOf[refresh[t].token])
             /\ refresh' = [refresh EXCEPT ![t].at = "ok", ![t].value = n]
             /\ redeemed' = [redeemed EXCEPT ![t] = @ \cup {refresh[t].token}]
  BY <1>2, Rotates
<1> QED
  BY <1>1, <1>2 DEF ServeRefresh

(* Storing a pair that nobody had.                                         *)
Stores(n) ==
    /\ storage'.refresh = n /\ storage'.access = n
    /\ UNCHANGED <<sessionOf, current, redeemed, abandoned>>

LEMMA LoginReceived ==
    ASSUME TypeOK, Pieces, Queue, NEW r \in Requests, ReceiveLogin(r)
    PROVE  Pieces' /\ Queue'
<1> USE DEF Pieces
<1> DEFINE n == req[r].value
<1>1. /\ UNCHANGED <<isRefreshing, refresh>>
      /\ LoggedIn(r) /\ SetTokens(n, n) /\ req[r].at = "ok"
      /\ UNCHANGED <<sessionOf, current, redeemed, abandoned>>
  BY DEF ReceiveLogin, LoggedIn, serverVars
<1>2. n \in Pairs /\ n # None /\ Issued(n) /\ Unknown(n)
  BY <1>1, Holdings, NoneIsNoPair DEF Apart
<1>3. Stores(n)
  BY <1>1, <1>2, StoreType DEF Stores
<1>4. Becomes(r, "idle", "data", None, None)
  BY Ends DEF ReceiveLogin
<1>5. LoginsStay /\ MesStay /\ ~LoggedIn(r)'
  BY <1>4, Single DEF Becomes, LoggedIn
<1>6. \A q \in Requests \ {r} : LoggedIn(q) => req[q].value # n
  BY <1>1 DEF Apart
<1>7. \A t \in Tabs : Rotated(t) => refresh[t].value # n
  BY <1>1 DEF Apart
<1> HIDE DEF n
<1>8. Shape'
  BY <1>1, <1>5 DEF Shape, LoginsStay, LoggedIn
<1>9. Held'
  BY <1>1, <1>2, <1>3, <1>5 DEF Held, Stores, LoginsStay, MesStay, LoggedIn, Issued
<1>10. \A m : Unknown(m) /\ m # n => Unknown(m)'
  BY <1>1, <1>3 DEF Unknown, Current, Stores
<1>11. Apart'
  BY <1>1, <1>5, <1>6, <1>7, <1>10 DEF Apart, LoginsStay, Rotated
<1>12. Spent' /\ Last'
  BY <1>1, <1>2, <1>3 DEF Spent, NoTokenSpentTwice, Last, Stores, Unknown, Current
<1>13. Queue'
  BY <1>1, <1>4, QuietQueue DEF Becomes, Aside
<1> QED
  BY <1>8, <1>9, <1>11, <1>12, <1>13

LEMMA RefreshReceived ==
    ASSUME TypeOK, Pieces, Queue, NEW t \in Tabs, RefreshOk(t)
    PROVE  Pieces' /\ Queue'
<1> USE DEF Pieces
<1> DEFINE n == refresh[t].value
<1>1. /\ UNCHANGED <<sessionOf, current, redeemed, abandoned>>
      /\ isRefreshing' = [isRefreshing EXCEPT ![t] = FALSE]
      /\ Rotated(t) /\ SetTokens(n, n)
  BY DEF RefreshOk, RefreshEnds, Rotated, serverVars, historyVars
<1>2. n \in Pairs /\ n # None /\ Issued(n) /\ Unknown(n)
  BY <1>1, Holdings, NoneIsNoPair DEF Apart
<1>3. Stores(n)
  BY <1>1, <1>2, StoreType DEF Stores
<1>4. Calls(t, "none", None, None) /\ Resent(t, n)
  BY CallEnds, Resends DEF RefreshOk
<1>5. LoginsStay
  BY <1>4 DEF Resent, LoginsStay, LoggedIn
<1>6. \A o \in Tabs \ {t} : Rotated(o) => refresh[o].value # n
  BY <1>1 DEF Apart
<1>7. \A q \in Requests : LoggedIn(q) => req[q].value # n
  BY <1>1 DEF Apart
<1> HIDE DEF n
<1>8. Shape'
  BY <1>4, <1>5 DEF Shape, LoginsStay, LoggedIn, Calls
<1>9. Held'
  <2>1. \A m : Issued(m) => Issued(m)'
    BY <1>1 DEF Issued
  <2>2. \A q \in Requests : req'[q].kind = "me" => Issued(req[q].token)'
    BY <1>2, <1>4, <2>1 DEF Held, Resent, Issued
  <2>3. \A o \in Tabs : Issued(refresh[o].token)' /\ Issued(refresh[o].value)'
    BY <1>4, <2>1 DEF Held, Calls, Issued
  <2> QED
    BY <1>1, <1>2, <1>3, <1>5, <2>1, <2>2, <2>3 DEF Held, Stores, LoginsStay, LoggedIn, Issued
<1>10. \A m \in Pairs : Unknown(m) /\ m # n => Unknown(m)'
  <2>1. \A o \in Tabs : refresh'[o].token \in {refresh[o].token, None}
    BY <1>4 DEF Calls
  <2> QED
    BY <1>1, <1>3, <2>1, NoneIsNoPair DEF Unknown, Current, Stores
<1>11. Apart'
  <2>1. \A o \in Tabs : Rotated(o)' => o # t /\ Rotated(o) /\ refresh'[o] = refresh[o]
    BY <1>4 DEF Calls, Rotated
  <2> QED
    BY <1>5, <1>6, <1>7, <1>10, <2>1, Holdings DEF Apart, LoginsStay
<1>12. Spent' /\ Last'
  BY <1>1, <1>2, <1>3, <1>4 DEF Spent, NoTokenSpentTwice, Last, Stores, Unknown, Current, Calls
<1>13. Queue'
  <2>1. \A q \in Requests : IF q \in Waiting(t) THEN req'[q].at = "sent" ELSE req'[q] = req[q]
    BY <1>4 DEF Resent
  <2>2. QueueOf(t)'
    <3>1. ~isRefreshing'[t] /\ refresh'[t].at = "none"
      BY <1>1, <1>4 DEF Calls, TypeOK
    <3>2. \A q \in Of(t) : req'[q].at \notin {"queued", "refreshing"}
      BY <2>1 DEF Of, Waiting
    <3> QED
      BY <3>1, <3>2 DEF QueueOf, Refreshing
  <2>3. ASSUME NEW o \in Tabs \ {t} PROVE QueueOf(o)'
    <3>1. \A q \in Of(o) : req'[q] = req[q]
      BY <2>1 DEF Of, Waiting
    <3>2. isRefreshing'[o] = isRefreshing[o] /\ refresh'[o] = refresh[o]
      BY <1>1, <1>4 DEF Calls, TypeOK
    <3> QED
      BY <3>1, <3>2 DEF Queue, QueueOf, Refreshing
  <2> QED
    BY <2>2, <2>3 DEF Queue
<1> QED
  BY <1>8, <1>9, <1>11, <1>12, <1>13

-----------------------------------------------------------------------------
(* Who is signed in *)

LEMMA OwnGrows ==
    ASSUME TypeOK, NEW s \in Pairs,
           \/ sessionOf' = sessionOf
           \/ \E n \in Pairs, x \in Pairs \cup {None} : Fresh(n) /\ Issue(n, x)
    PROVE  \A n : Own(s, n) => Own(s, n)'
<1>1. CASE sessionOf' = sessionOf
  BY <1>1 DEF Own
<1>2. ASSUME NEW n \in Pairs, NEW x \in Pairs \cup {None}, Fresh(n), Issue(n, x)
      PROVE  \A m : Own(s, m) => Own(s, m)'
  <2>1. \A m \in Pairs \ {n} : sessionOf'[m] = sessionOf[m]
    BY <1>2 DEF Issue, TypeOK
  <2>2. sessionOf[n] # s
    BY <1>2, NoneIsNoPair DEF Fresh
  <2> QED
    BY <2>1, <2>2 DEF Own
<1> QED
  BY <1>1, <1>2

(* A request is sent, answered or over, and nobody was signed in by it.    *)
LEMMA RequestOwner ==
    ASSUME NEW s \in Pairs, OneSession(s), NEW R,
           \A n : Own(s, n) => Own(s, n)',
           storage' = storage \/ Cleared,
           \A t \in Tabs : user'[t] \in {user[t], None, s},
           refresh' = refresh,
           \A q \in Requests : \/ req'[q] = req[q]
                               \/ req'[q].kind # "me"
                               \/ Own(s, req'[q].token) /\ req'[q].value \in {None, s}
    PROVE  OneSession(s)'
<1>1. Own(s, None)'
  BY DEF Own
<1>2. Own(s, storage.access)' /\ Own(s, storage.refresh)'
  BY <1>1 DEF OneSession, Cleared
<1>3. \A t \in Tabs : /\ user'[t] \in {None, s}
                      /\ Own(s, refresh[t].token)' /\ Own(s, refresh[t].value)'
  BY DEF OneSession
<1>4. \A q \in Requests : req'[q].kind = "me" /\ req'[q].at # "idle" =>
          Own(s, req[q].token)' /\ req'[q].value \in {None, s}
  BY DEF OneSession
<1> QED
  BY <1>2, <1>3, <1>4 DEF OneSession

LEMMA ActionOwner ==
    ASSUME TypeOK, NEW s \in Pairs, OneSession(s), NEW r \in Requests, QuietAction(r)
    PROVE  OneSession(s)'
<1> USE DEF vars, pageVars, serverVars, historyVars
<1>1. \A n : Own(s, n) => Own(s, n)'
  <2>1. sessionOf' = sessionOf
    BY DEF QuietAction, SendData, Login, Logout, Send, LoseAnswer, ReceiveOk,
           ReceiveFinal, ReceiveWithoutToken, ReceiveQueue
  <2> QED
    BY <2>1, OwnGrows
<1>2. Own(s, None)
  BY DEF Own
<1>3. CASE SendData(r) \/ Login(r) \/ Logout(r)
  <2>1. PICK kind \in Kinds : Send(r, kind)
    BY <1>3, Constants DEF SendData, Login, Logout
  <2>2. Becomes(r, "sent", kind, storage.access, None)
    BY <2>1, Sends
  <2>3. \A q \in Requests : \/ req'[q] = req[q]
                            \/ Own(s, req'[q].token) /\ req'[q].value \in {None, s}
    BY <2>2 DEF Becomes, OneSession
  <2>4. UNCHANGED <<storage, user, refresh>>
    BY <2>1 DEF Send
  <2> QED
    BY <1>1, <2>3, <2>4, RequestOwner DEF OneSession
<1>4. CASE LoseAnswer(r)
  <2>1. Becomes(r, "error", req[r].kind, None, None)
    BY <1>4, Answers, Constants DEF LoseAnswer
  <2>2. \A q \in Requests : \/ req'[q] = req[q]
                            \/ Own(s, req'[q].token) /\ req'[q].value \in {None, s}
    BY <1>2, <2>1 DEF Becomes
  <2>3. UNCHANGED <<storage, user, refresh>>
    BY <1>4 DEF LoseAnswer
  <2> QED
    BY <1>1, <2>2, <2>3, RequestOwner DEF OneSession
<1>5. CASE ReceiveOk(r)
  <2>1. Becomes(r, "idle", "data", None, None)
    BY <1>5, Ends DEF ReceiveOk
  <2>2. \A q \in Requests : req'[q] = req[q] \/ req'[q].kind # "me"
    BY <2>1 DEF Becomes
  <2>3. \A t \in Tabs : user'[t] \in {user[t], None, s}
    BY <1>5 DEF ReceiveOk, ShowUser, OneSession, TypeOK
  <2>4. UNCHANGED <<storage, refresh>>
    BY <1>5 DEF ReceiveOk
  <2> QED
    BY <1>1, <2>2, <2>3, <2>4, RequestOwner
<1>6. CASE ReceiveFinal(r) \/ ReceiveWithoutToken(r)
  <2>1. PICK forget \in BOOLEAN : Reject(TabOf(r), {r}, forget)
    BY <1>6 DEF ReceiveFinal, ReceiveWithoutToken
  <2>2. Over({r})
    BY <2>1, Rejects
  <2>3. \A q \in Requests : req'[q] = req[q] \/ req'[q].kind # "me"
    BY <2>2, IdleType DEF Over
  <2>4. \A t \in Tabs : user'[t] \in {user[t], None, s}
    BY <2>1 DEF Reject, ShowUser, TypeOK
  <2>5. storage' = storage \/ Cleared
    BY <2>1 DEF Reject, Clear, Cleared
  <2>6. refresh' = refresh
    BY <1>6 DEF ReceiveFinal, ReceiveWithoutToken
  <2> QED
    BY <1>1, <2>3, <2>4, <2>5, <2>6, RequestOwner
<1>7. CASE ReceiveQueue(r)
  <2>1. Becomes(r, "queued", req[r].kind, req[r].token, req[r].value)
    BY <1>7, Waits DEF ReceiveQueue
  <2>2. \A q \in Requests : \/ req'[q] = req[q]
                            \/ req'[q].kind # "me"
                            \/ Own(s, req'[q].token) /\ req'[q].value \in {None, s}
    BY <1>7, <2>1 DEF ReceiveQueue, NeedsRefresh, Becomes, OneSession
  <2>3. UNCHANGED <<storage, user, refresh>>
    BY <1>7 DEF ReceiveQueue
  <2> QED
    BY <1>1, <2>2, <2>3, RequestOwner DEF OneSession
<1> QED
  BY <1>3, <1>4, <1>5, <1>6, <1>7 DEF QuietAction

LEMMA ServeOwner ==
    ASSUME TypeOK, NEW s \in Pairs, OneSession(s), NEW r \in Requests, Serve(r)
    PROVE  OneSession(s)'
<1>1. UNCHANGED <<storage, user, refresh>>
  BY DEF Serve, pageVars
<1>2. Own(s, None)
  BY DEF Own
<1>3. CASE Issues(r)
  <2>1. PICK n \in Pairs : Fresh(n) /\ Issue(n, n) /\ Answer(r, "ok", n)
    BY <1>3 DEF Issues
  <2>2. \A m : Own(s, m) => Own(s, m)'
    BY <2>1, OwnGrows
  <2>3. Becomes(r, "ok", "login", None, n)
    BY <1>3, <2>1, Answers, Constants DEF Issues
  <2>4. \A q \in Requests : req'[q] = req[q] \/ req'[q].kind # "me"
    BY <2>3 DEF Becomes
  <2> QED
    BY <1>1, <2>2, <2>4, RequestOwner DEF OneSession
<1>4. CASE Judges(r)
  <2>1. /\ Quiet
        /\ \A q \in Requests \ {r} : req'[q] = req[q]
        /\ req'[r].kind = req[r].kind /\ req'[r].token = None
        /\ req'[r].kind = "me" =>
               \/ req'[r].value = None
               \/ req[r].token # None /\ req'[r].value = sessionOf[req[r].token]
    BY <1>4, JudgesQuiet
  <2>2. \A m : Own(s, m) => Own(s, m)'
    BY <2>1, OwnGrows DEF Quiet
  <2>3. req'[r].kind = "me" => req'[r].value \in {None, s}
    BY <2>1 DEF OneSession, Own, Serve
  <2>4. \A q \in Requests : \/ req'[q] = req[q]
                            \/ req'[q].kind # "me"
                            \/ Own(s, req'[q].token) /\ req'[q].value \in {None, s}
    BY <1>2, <2>1, <2>3
  <2> QED
    BY <1>1, <2>2, <2>4, RequestOwner DEF OneSession
<1> QED
  BY <1>3, <1>4, ServeCases

(* The refresh calls begin, are answered, and end.                         *)
LEMMA CallOwner ==
    ASSUME TypeOK, NEW s \in Pairs, OneSession(s), Shape, NEW t \in Tabs,
           \/ ServeRefresh(t) \/ LoseRefresh(t) \/ RefreshOk(t) \/ RefreshFailed(t)
           \/ Reload(t) \/ \E r \in Requests : TabOf(r) = t /\ StartRefresh(r)
    PROVE  OneSession(s)'
<1> USE DEF pageVars, serverVars, historyVars
<1>1. Own(s, None) /\ Own(s, None)'
  BY DEF Own
<1>2. ASSUME sessionOf' = sessionOf PROVE \A n : Own(s, n) => Own(s, n)'
  BY <1>2, OwnGrows
<1>3. CASE ServeRefresh(t)
  <2>1. /\ UNCHANGED <<storage, user, req>>
        /\ refresh[t].at = "sent"
    BY <1>3 DEF ServeRefresh
  <2> DEFINE token == refresh[t].token
  <2>2. token \in Pairs /\ sessionOf[token] = s
    BY <2>1 DEF Shape, OneSession, Own
  <2>3. CASE \E n \in Pairs :
               /\ Fresh(n) /\ Issue(n, sessionOf[token])
               /\ refresh' = [refresh EXCEPT ![t].at = "ok", ![t].value = n]
    <3>1. PICK n \in Pairs :
               /\ Fresh(n) /\ Issue(n, s)
               /\ refresh' = [refresh EXCEPT ![t].at = "ok", ![t].value = n]
      BY <2>2, <2>3
    <3>2. \A m : Own(s, m) => Own(s, m)'
      BY <3>1, OwnGrows
    <3>3. Calls(t, "ok", token, n)
      BY <3>1, CallAnswered
    <3>4. Own(s, n)'
      BY <3>1 DEF Own, Issue, TypeOK
    <3>5. \A o \in Tabs : /\ user'[o] \in {None, s}
                          /\ Own(s, refresh[o].token)' /\ Own(s, refresh[o].value)'
      BY <2>1, <3>2, <3>3, <3>4 DEF OneSession, Calls
    <3> QED
      BY <2>1, <3>2, <3>5 DEF OneSession
  <2>4. CASE refresh' = [refresh EXCEPT ![t].at = "failed"] /\ UNCHANGED <<serverVars, redeemed>>
    <3>1. Calls(t, "failed", token, refresh[t].value)
      BY <2>4, CallRefused
    <3>2. \A m : Own(s, m) => Own(s, m)'
      BY <1>2, <2>4
    <3>3. \A o \in Tabs : /\ user'[o] \in {None, s}
                          /\ Own(s, refresh[o].token)' /\ Own(s, refresh[o].value)'
      BY <2>1, <3>1, <3>2 DEF OneSession, Calls
    <3> QED
      BY <2>1, <3>2, <3>3 DEF OneSession
  <2> QED
    BY <1>3, <2>3, <2>4 DEF ServeRefresh
<1>4. CASE LoseRefresh(t)
  <2>1. UNCHANGED <<storage, user, req, sessionOf>>
    BY <1>4 DEF LoseRefresh
  <2>2. Calls(t, "failed", refresh[t].token, None)
    BY <1>4, CallLost
  <2>3. \A o \in Tabs : /\ user'[o] \in {None, s}
                        /\ Own(s, refresh[o].token)' /\ Own(s, refresh[o].value)'
    BY <1>1, <1>2, <2>1, <2>2 DEF OneSession, Calls
  <2> QED
    BY <1>2, <2>1, <2>3 DEF OneSession
<1>5. CASE RefreshOk(t)
  <2> DEFINE n == refresh[t].value
  <2>1. UNCHANGED <<user, sessionOf>> /\ SetTokens(n, n) /\ refresh[t].at = "ok"
    BY <1>5 DEF RefreshOk
  <2>2. n \in Pairs /\ n # None /\ Own(s, n)
    BY <2>1, Typed DEF Shape, OneSession, RefreshType
  <2>3. storage'.refresh = n /\ storage'.access = n
    BY <2>1, <2>2, StoreType
  <2>4. Calls(t, "none", None, None) /\ Resent(t, n)
    BY <1>5, CallEnds, Resends DEF RefreshOk
  <2> HIDE DEF n
  <2>5. \A o \in Tabs : /\ user'[o] \in {None, s}
                        /\ Own(s, refresh[o].token)' /\ Own(s, refresh[o].value)'
    BY <1>1, <1>2, <2>1, <2>4 DEF OneSession, Calls
  <2>6. \A q \in Requests : req'[q].kind = "me" /\ req'[q].at # "idle" =>
            Own(s, req[q].token)' /\ req'[q].value \in {None, s}
    BY <1>2, <2>1, <2>2, <2>4 DEF OneSession, Resent, Waiting
  <2>7. Own(s, storage.access)' /\ Own(s, storage.refresh)'
    BY <1>2, <2>1, <2>2, <2>3
  <2> QED
    BY <2>5, <2>6, <2>7 DEF OneSession
<1>6. CASE RefreshFailed(t)
  <2>1. Calls(t, "none", None, None) /\ Over(Waiting(t))
    BY <1>6, CallEnds, Rejects DEF RefreshFailed
  <2>2. /\ sessionOf' = sessionOf /\ Cleared
        /\ \A o \in Tabs : user'[o] \in {user[o], None}
    BY <1>6 DEF RefreshFailed, Reject, ShowUser, Clear, Cleared, TypeOK
  <2>3. \A o \in Tabs : /\ user'[o] \in {None, s}
                        /\ Own(s, refresh[o].token)' /\ Own(s, refresh[o].value)'
    BY <1>1, <1>2, <2>1, <2>2 DEF OneSession, Calls
  <2>4. \A q \in Requests : req'[q].kind = "me" /\ req'[q].at # "idle" =>
            Own(s, req[q].token)' /\ req'[q].value \in {None, s}
    BY <1>2, <2>1, <2>2, IdleType DEF OneSession, Over
  <2>5. Own(s, storage.access)' /\ Own(s, storage.refresh)'
    BY <1>1, <2>2 DEF Cleared
  <2> QED
    BY <2>3, <2>4, <2>5 DEF OneSession
<1>7. CASE Reload(t)
  <2>1. Calls(t, "none", None, None) /\ Booted(t)
    BY <1>7, CallEnds, Boots DEF Reload
  <2>2. /\ UNCHANGED <<storage, sessionOf>>
        /\ \A o \in Tabs : user'[o] \in {user[o], None}
    BY <1>7 DEF Reload, TypeOK
  <2>3. \A o \in Tabs : /\ user'[o] \in {None, s}
                        /\ Own(s, refresh[o].token)' /\ Own(s, refresh[o].value)'
    BY <1>1, <1>2, <2>1, <2>2 DEF OneSession, Calls
  <2>4. \A q \in Requests : req'[q].kind = "me" /\ req'[q].at # "idle" =>
            Own(s, req[q].token)' /\ req'[q].value \in {None, s}
    BY <1>2, <2>1, <2>2, IdleType DEF OneSession, Booted
  <2>5. Own(s, storage.access)' /\ Own(s, storage.refresh)'
    BY <1>2, <2>2 DEF OneSession
  <2> QED
    BY <2>3, <2>4, <2>5 DEF OneSession
<1>8. ASSUME NEW r \in Requests, TabOf(r) = t, StartRefresh(r) PROVE OneSession(s)'
  <2>1. /\ Calls(t, "sent", storage.refresh, None)
        /\ Becomes(r, "refreshing", req[r].kind, req[r].token, req[r].value)
    BY <1>8, CallStarts, Waits DEF StartRefresh
  <2>2. UNCHANGED <<storage, user, sessionOf>>
    BY <1>8 DEF StartRefresh
  <2>3. \A o \in Tabs : /\ user'[o] \in {None, s}
                        /\ Own(s, refresh[o].token)' /\ Own(s, refresh[o].value)'
    BY <1>1, <1>2, <2>1, <2>2 DEF OneSession, Calls
  <2>4. \A q \in Requests : req'[q].kind = "me" /\ req'[q].at # "idle" =>
            Own(s, req[q].token)' /\ req'[q].value \in {None, s}
    BY <1>2, <1>8, <2>1, <2>2 DEF OneSession, Becomes, StartRefresh, NeedsRefresh
  <2>5. Own(s, storage.access)' /\ Own(s, storage.refresh)'
    BY <1>2, <2>2 DEF OneSession
  <2> QED
    BY <2>3, <2>4, <2>5 DEF OneSession
<1> QED
  BY <1>3, <1>4, <1>5, <1>6, <1>7, <1>8

(* A sign-in that crosses nothing leaves nobody else signed in.            *)
LEMMA LoginOwner ==
    ASSUME TypeOK, Shape, Held, Owner, NEW r \in Requests, ReceiveLogin(r)
    PROVE  Owner'
<1> DEFINE t == TabOf(r)
<1>1. PICK n \in Pairs :
          /\ LoggedIn(r) /\ SetTokens(n, n) /\ n = req[r].value
          /\ user' = [user EXCEPT ![t] = n]
  BY Holdings DEF ReceiveLogin, LoggedIn
<1>2. /\ n # None /\ sessionOf[n] = n
      /\ sessionOf' = sessionOf /\ refresh' = refresh
  BY <1>1, Holdings, NoneIsNoPair DEF ReceiveLogin, serverVars
<1>3. storage'.refresh = n /\ storage'.access = n
  BY <1>1, <1>2, StoreType
<1>4. Becomes(r, "idle", "data", None, None)
  BY Ends DEF ReceiveLogin
<1>5. SUFFICES ASSUME ~overtaken' PROVE OneSession(n)'
  BY <1>2 DEF Owner
<1>6. /\ ~overtaken
      /\ \A o \in Tabs : /\ refresh[o].at = "none"
                         /\ o # t => user[o] = None
                         /\ ~Pending(o, "me")
  BY <1>5 DEF ReceiveLogin
<1>7. PICK s \in Pairs : OneSession(s)
  BY <1>6 DEF Owner
<1>8. \A o \in Tabs : user'[o] \in {None, n}
  BY <1>1, <1>6 DEF TypeOK
<1>9. \A o \in Tabs : Own(n, refresh[o].token)' /\ Own(n, refresh[o].value)'
  <2>1. \A o \in Tabs : refresh'[o].token = None /\ refresh'[o].value = None
    BY <1>2, <1>6 DEF Shape
  <2> QED
    BY <2>1 DEF Own
<1>10. \A q \in Requests : req'[q].kind = "me" => req'[q].at = "idle"
  <2>1. \A q \in Requests : req[q].kind = "me" => req[q].at = "idle"
    BY <1>6 DEF Pending, Of
  <2> QED
    BY <1>4, <2>1 DEF Becomes
<1>11. Own(n, storage.access)' /\ Own(n, storage.refresh)'
  BY <1>1, <1>2, <1>3 DEF Own
<1> QED
  BY <1>8, <1>9, <1>10, <1>11 DEF OneSession

LEMMA OwnerStep ==
    ASSUME TypeOK, Pieces, Owner, Next
    PROVE  Owner'
<1> USE DEF Pieces
<1>1. ASSUME NEW r \in Requests, ReceiveLogin(r) PROVE Owner'
  BY <1>1, LoginOwner
<1>2. ASSUME ~\E r \in Requests : ReceiveLogin(r),
             overtaken' = overtaken => \A s \in Pairs : OneSession(s) => OneSession(s)'
      PROVE  Owner'
  <2>1. overtaken' = overtaken
    BY <1>2 DEF Next, Receive, SendData, Login, Logout, Send, Serve, LoseAnswer,
       ReceiveOk, ReceiveFinal, ReceiveWithoutToken, ReceiveQueue, StartRefresh,
       ServeRefresh, LoseRefresh, RefreshOk, RefreshFailed, Reload, Expire, EndSession,
       historyVars
  <2> QED
    BY <1>2, <2>1 DEF Owner
<1>3. ASSUME NEW r \in Requests, QuietAction(r) \/ Serve(r) \/ StartRefresh(r),
             NEW s \in Pairs, OneSession(s)
      PROVE  OneSession(s)'
  BY <1>3, ActionOwner, ServeOwner, CallOwner
<1>4. ASSUME NEW t \in Tabs,
             \/ ServeRefresh(t) \/ LoseRefresh(t) \/ RefreshOk(t) \/ RefreshFailed(t)
             \/ Reload(t),
             NEW s \in Pairs, OneSession(s)
      PROVE  OneSession(s)'
  BY <1>4, CallOwner
<1>5. ASSUME NEW n \in Pairs, Expire(n) \/ EndSession(n), NEW s \in Pairs, OneSession(s)
      PROVE  OneSession(s)'
  BY <1>5 DEF Expire, EndSession, OneSession, Own, pageVars, serverVars
<1> QED
  BY <1>1, <1>2, <1>3, <1>4, <1>5 DEF Next, Receive, QuietAction

-----------------------------------------------------------------------------
(* The invariant, and what it says *)

LEMMA InitInv == Init => Inv
<1> SUFFICES ASSUME Init PROVE Inv
  OBVIOUS
<1> USE DEF Init
<1>1. 1 \in Pairs /\ 1 # None
  BY DEF Pairs, None
<1>2. /\ \A r \in Requests : req[r] = Idle
      /\ \A t \in Tabs : refresh[t] = NoRefresh /\ redeemed[t] = {}
      /\ \A t \in Tabs : ~isRefreshing[t] /\ user[t] = 1
      /\ storage.access = 1 /\ storage.refresh = 1
      /\ \A n \in Pairs : sessionOf[n] = IF n = 1 THEN 1 ELSE None
      /\ current[1] = 1
  BY <1>1
<1>3. TypeOK
  <2>1. req \in [Requests -> RequestType] /\ refresh \in [Tabs -> RefreshType]
    BY IdleType
  <2>2. faults \in 0 .. MaxFaults
    OBVIOUS
  <2>3. /\ storage \in [access : Pairs \cup {None}, refresh : Pairs \cup {None}]
        /\ user \in [Tabs -> Pairs \cup {None}]
        /\ sessionOf \in [Pairs -> Pairs \cup {None}]
        /\ current \in [Pairs -> Pairs \cup {None}]
    BY <1>1
  <2>4. /\ isLoading \in [Tabs -> BOOLEAN]
        /\ atLogin \in [Tabs -> BOOLEAN]
        /\ leaving \in [Tabs -> BOOLEAN]
        /\ isRefreshing \in [Tabs -> BOOLEAN]
        /\ redeemed \in [Tabs -> SUBSET Pairs]
        /\ expired \subseteq Pairs /\ abandoned \subseteq Pairs /\ overtaken \in BOOLEAN
    OBVIOUS
  <2> QED
    BY <2>1, <2>2, <2>3, <2>4 DEF TypeOK, RequestType, RefreshType
<1>4. Queue
  BY <1>2, IdleType DEF Queue, QueueOf, Of, Refreshing
<1>5. \A r \in Requests : ~LoggedIn(r) /\ req[r].kind = "data"
  BY <1>2, IdleType DEF LoggedIn
<1>6. \A t \in Tabs : /\ refresh[t].at = "none" /\ ~Rotated(t)
                      /\ refresh[t].token = None /\ refresh[t].value = None
  BY <1>2, IdleType DEF Rotated
<1>7. Pieces
  <2>1. Shape /\ Apart
    BY <1>5, <1>6 DEF Shape, Apart
  <2>2. Held
    BY <1>1, <1>2, <1>5, <1>6 DEF Held, Issued
  <2>3. Spent /\ Last
    BY <1>1, <1>2, <1>6 DEF Spent, NoTokenSpentTwice, Last, Current
  <2> QED
    BY <2>1, <2>2, <2>3 DEF Pieces
<1>8. Owner
  <2>1. Own(1, 1) /\ Own(1, None)
    BY <1>1, <1>2 DEF Own
  <2>2. OneSession(1)
    BY <1>2, <1>5, <1>6, <2>1 DEF OneSession
  <2> QED
    BY <1>1, <2>2 DEF Owner
<1> QED
  BY <1>3, <1>4, <1>7, <1>8 DEF Inv

(* One case per action of the tabs, the server and the pairs.              *)
LEMMA PiecesStep ==
    ASSUME TypeOK, TypeOK', Pieces, Queue, Next
    PROVE  Pieces' /\ Queue'
<1>1. ASSUME NEW r \in Requests, QuietAction(r) PROVE Pieces' /\ Queue'
  BY <1>1, ActionQuiet, QuietPieces
<1>2. ASSUME NEW r \in Requests, Serve(r) PROVE Pieces' /\ Queue'
  <2>1. CASE Judges(r)
    <3>1. Quiet /\ Aside(r) /\ Aside(r)' /\ \A q \in Requests \ {r} : req'[q] = req[q]
      BY <1>2, <2>1, JudgesQuiet
    <3>2. Queue'
      BY <3>1, QuietQueue DEF Quiet
    <3> QED
      BY <3>1, <3>2, QuietPieces
  <2>2. CASE Issues(r)
    BY <1>2, <2>2, LoginServed
  <2> QED
    BY <1>2, <2>1, <2>2, ServeCases
<1>3. ASSUME NEW r \in Requests, ReceiveLogin(r) \/ StartRefresh(r) PROVE Pieces' /\ Queue'
  BY <1>3, LoginReceived, StartStep
<1>4. ASSUME NEW t \in Tabs, ServeRefresh(t) \/ LoseRefresh(t) PROVE Pieces' /\ Queue'
  BY <1>4, RotationStep, LoseStep
<1>5. ASSUME NEW t \in Tabs, RefreshOk(t) \/ RefreshFailed(t) PROVE Pieces' /\ Queue'
  BY <1>5, RefreshReceived, FailedStep
<1>6. ASSUME NEW t \in Tabs, Reload(t) PROVE Pieces' /\ Queue'
  BY <1>6, ReloadStep
<1>7. ASSUME NEW n \in Pairs, Expire(n) \/ EndSession(n) PROVE Pieces' /\ Queue'
  <2>1. Quiet /\ req' = req
    BY <1>7, PairQuiet
  <2>2. Queue'
    BY <2>1, QuietQueue DEF Quiet
  <2> QED
    BY <2>1, <2>2, QuietPieces
<1> QED
  BY <1>1, <1>2, <1>3, <1>4, <1>5, <1>6, <1>7 DEF Next, Receive, QuietAction

LEMMA Inductive == Spec => []Inv
<1>1. ASSUME Inv, [Next]_vars PROVE Inv'
  <2>1. CASE Next
    <3>1. TypeOK'
      BY <1>1, <2>1, TypeStep DEF Inv, Pieces
    <3>2. Pieces' /\ Queue'
      BY <1>1, <2>1, <3>1, PiecesStep DEF Inv
    <3>3. Owner'
      BY <1>1, <2>1, OwnerStep DEF Inv
    <3> QED
      BY <3>1, <3>2, <3>3 DEF Inv
  <2>2. CASE UNCHANGED vars
    BY <1>1, <2>2 DEF Inv, Pieces, TypeOK, Queue, QueueOf, Refreshing, Of, Shape, Held,
       Apart, Spent, NoTokenSpentTwice, Last, Owner, OneSession, Own, Issued, Current,
       Rotated, LoggedIn, Unknown, vars, pageVars, serverVars, historyVars
  <2> QED
    BY <1>1, <2>1, <2>2
<1> QED
  BY <1>1, InitInv, PTL DEF Spec

-----------------------------------------------------------------------------

(* The state of every tab, of the storage they share and of the server has *)
(* its type: a refresh never asks with a token it does not have.           *)
THEOREM TypeCorrect == Spec => []TypeOK
<1>1. Inv => TypeOK
  BY DEF Inv
<1> QED
  BY <1>1, Inductive, PTL

(* A tab's refresh call and its failedQueue (axios.config.ts:26, 127-166)  *)
(* are there for one request that failed, and both end with it.            *)
THEOREM QueueServed == Spec => []OneRefreshServesTheQueue
<1>1. ASSUME Inv PROVE OneRefreshServesTheQueue
  <2> SUFFICES ASSUME NEW t \in Tabs
               PROVE  /\ isRefreshing[t] <=> refresh[t].at # "none"
                      /\ isRefreshing[t] <=> \E r \in Of(t) : req[r].at = "refreshing"
                      /\ Cardinality({r \in Of(t) : req[r].at = "refreshing"}) <= 1
                      /\ Waiting(t) # {} => isRefreshing[t]
    BY DEF OneRefreshServesTheQueue
  <2> DEFINE R == {r \in Of(t) : req[r].at = "refreshing"}
  <2>1. QueueOf(t)
    BY <1>1 DEF Inv, Queue
  <2>2. Cardinality(R) <= 1
    <3>1. CASE R = {}
      BY <3>1, FS_EmptySet
    <3>2. ASSUME NEW r \in R PROVE Cardinality(R) <= 1
      <4>1. R = {r}
        BY <2>1 DEF QueueOf, Refreshing
      <4>2. Cardinality({r}) = 1
        BY FS_Singleton
      <4> HIDE DEF R
      <4> QED
        BY <4>1, <4>2
    <3> QED
      BY <3>1, <3>2
  <2> QED
    BY <2>1, <2>2 DEF QueueOf, Refreshing, Waiting
<1> QED
  BY <1>1, Inductive, PTL

(* A page never offers the server a refresh token the server took from it  *)
(* before, in whatever order answers, sign-ins and other tabs come between. *)
THEOREM NothingSpentTwice == Spec => []NoTokenSpentTwice
<1>1. Inv => NoTokenSpentTwice
  BY DEF Inv, Pieces, Spent
<1> QED
  BY <1>1, Inductive, PTL

(* The token in localStorage (tokenStorage.ts:9-25) is the one its session *)
(* lives by, unless a page that rotated it still waits for the answer, or  *)
(* was reloaded before it came.                                            *)
THEOREM StorageKeepsUp == Spec => []StoredTokenIsCurrent
<1>1. Inv => StoredTokenIsCurrent
  BY DEF Inv, Pieces, Last, Current, StoredTokenIsCurrent
<1> QED
  BY <1>1, Inductive, PTL

(* Every tab shows the user whose tokens are in localStorage, as long as   *)
(* no sign-in (AuthContext.tsx) crosses another tab's user or an answer.   *)
THEOREM OwnTokens == Spec => []UserOwnsTokens
<1>1. Inv => UserOwnsTokens
  BY NoneIsNoPair DEF Inv, Owner, OneSession, Own, UserOwnsTokens
<1> QED
  BY <1>1, Inductive, PTL
=============================================================================

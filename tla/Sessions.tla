------------------------------ MODULE Sessions ------------------------------
(***************************************************************************)
(* The administrator's sessions of ekkoplay: the rows of refresh_sessions  *)
(* (src/backend/internal/auth/service.go), the handlers that set and clear *)
(* the browser's cookies (api/auth.go), and the pages that send requests   *)
(* with them, refresh when they are refused and try once more              *)
(* (admin-ui/src/lib/api.ts).                                              *)
(*                                                                         *)
(* One step is one statement or transaction of the database, or one        *)
(* request or answer between page and server.  A request carries the       *)
(* cookies the browser held when it was sent; its answer changes those     *)
(* the browser holds when it arrives.  There is one administrator.         *)
(***************************************************************************)
EXTENDS Integers, FiniteSets

CONSTANTS Browsers,    \* browsers, each with its cookies
          Tabs,        \* pages of the admin interface
          Calls,       \* requests that may be in flight at once
          BrowserOf,   \* the browser of a tab
          TabOf,       \* the tab of a request
          Lossy,       \* browsers whose answers may be lost
          Faults,      \* whether a transaction of Refresh may fail
          MaxId,       \* bound: refresh tokens
          MaxExpired,  \* bound: families that expire
          MaxRequests  \* bound: what users ask for, and password resets

Ids  == 1 .. MaxId
None == 0
Keep == -1    \* an answer without Set-Cookie
Ops  == {"plain", "login", "logout", "logoutAll", "password"}

ASSUME SessionsAssumption ==
    /\ BrowserOf \in [Tabs -> Browsers]
    /\ TabOf \in [Calls -> Tabs]
    /\ Lossy \subseteq Browsers
    /\ Faults \in BOOLEAN
    /\ MaxId \in Nat /\ MaxExpired \in Nat /\ MaxRequests \in Nat

VARIABLES password,  \* admins.password_hash, as the number of its changes
          rows,      \* refresh_sessions
          expired,   \* families whose expires_at has passed
          closed,    \* families that a request ended (history)
          jar,       \* the cookies of each browser
          renew,     \* each tab's refresh, the promise "refreshing"
          call,      \* each request
          requests

vars == <<password, rows, expired, closed, jar, renew, call, requests>>

\* A family goes by the id of its first row.  born: the password when the row
\* was inserted (history).
Row    == [family : Ids \cup {None}, live : BOOLEAN, born : Nat]
NoRow  == [family |-> None, live |-> FALSE, born |-> 0]
Jar    == [refresh : Ids \cup {None}, access : BOOLEAN]
NoRenew == [at |-> "idle", id |-> None, ok |-> FALSE, sets |-> Keep]
\* id and access are the cookies sent; sets is the refresh cookie of the answer.
NoCall  == [at |-> "idle", op |-> "plain", id |-> None, access |-> FALSE,
            again |-> FALSE, ok |-> FALSE, sets |-> Keep]

Init ==
    /\ password = 0
    /\ rows = [i \in Ids |-> NoRow]
    /\ expired = {} /\ closed = {}
    /\ jar = [b \in Browsers |-> [refresh |-> None, access |-> FALSE]]
    /\ renew = [t \in Tabs |-> NoRenew]
    /\ call = [c \in Calls |-> NoCall]
    /\ requests = 0

-----------------------------------------------------------------------------
(* The table and the cookies.                                              *)

Unused == {i \in Ids : rows[i].family = None}
Live(i) == rows[i].live

\* Ids are random, so that every unused one stands for all: take the least.
NewId == CHOOSE i \in Unused : \A j \in Unused : i <= j

Insert(i, family) ==
    [rows EXCEPT ![i] = [family |-> family, live |-> TRUE, born |-> password]]

Revoked(ids) == [i \in Ids |-> IF i \in ids THEN [rows[i] EXCEPT !.live = FALSE] ELSE rows[i]]

Family(f) == {i \in Ids : rows[i].family = f}

Began == {rows[i].family : i \in Ids \ Unused}

\* setTokens and clearTokens, as the browser applies them: a cookie whose time
\* is over is deleted.
Store(b, sets) ==
    jar' = CASE sets = Keep -> jar
             [] sets = None -> [jar EXCEPT ![b] = [refresh |-> None, access |-> FALSE]]
             [] OTHER -> [jar EXCEPT ![b] =
                    [refresh |-> IF rows[sets].family \in expired THEN None ELSE sets,
                     access |-> TRUE]]

-----------------------------------------------------------------------------
(* Requests of users.                                                      *)

Sent(c, op, again) ==
    LET b == BrowserOf[TabOf[c]] IN
    [NoCall EXCEPT !.at = "sent", !.op = op, !.again = again,
                   !.id = jar[b].refresh, !.access = jar[b].access]

Ask(c, op) ==
    /\ call[c].at = "idle"
    /\ requests < MaxRequests
    /\ requests' = requests + 1
    /\ call' = [call EXCEPT ![c] = Sent(c, op, FALSE)]
    /\ UNCHANGED <<password, rows, expired, closed, jar, renew>>

Served(c, ok, sets) == call' = [call EXCEPT ![c].at = "served", ![c].ok = ok, ![c].sets = sets]

\* requireAdmin looks at the access token only.
Refused(c) ==
    /\ call[c].at = "sent"
    /\ call[c].op \in {"plain", "logoutAll", "password"}
    /\ ~call[c].access
    /\ Served(c, FALSE, Keep)
    /\ UNCHANGED <<password, rows, expired, closed, jar, renew, requests>>

ServePlain(c) ==
    /\ call[c].at = "sent" /\ call[c].op = "plain"
    /\ call[c].access
    /\ Served(c, TRUE, Keep)
    /\ UNCHANGED <<password, rows, expired, closed, jar, renew, requests>>

\* Login and ChangePassword read the hash and compare it outside of what they
\* write.  (A wrong password ends the request without a change.)
ReadHash(c) ==
    /\ call[c].at = "sent"
    /\ call[c].op = "login" \/ (call[c].op = "password" /\ call[c].access)
    /\ call' = [call EXCEPT ![c].at = "checked"]
    /\ UNCHANGED <<password, rows, expired, closed, jar, renew, requests>>

Login(c) ==
    /\ call[c].at = "checked" /\ call[c].op = "login"
    /\ Unused # {}
    /\ rows' = Insert(NewId, NewId)
    /\ Served(c, TRUE, NewId)
    /\ UNCHANGED <<password, expired, closed, jar, renew, requests>>

\* The mutant ends what the cookie belongs to and leaves the other sessions.
RevokeOwn(c) ==
    IF call[c].id = None THEN UNCHANGED <<rows, closed>>
    ELSE /\ rows' = Revoked(Family(rows[call[c].id].family))
         /\ closed' = closed \cup {rows[call[c].id].family}

RevokeAll(c) == rows' = Revoked(Ids) /\ closed' = closed \cup Began

ChangePassword(c) ==
    /\ call[c].at = "checked" /\ call[c].op = "password"
    /\ password' = password + 1
    /\ RevokeAll(c)
    /\ Served(c, TRUE, None)
    /\ UNCHANGED <<expired, jar, renew, requests>>

LogoutAll(c) ==
    /\ call[c].at = "sent" /\ call[c].op = "logoutAll"
    /\ call[c].access
    /\ RevokeAll(c)
    /\ Served(c, TRUE, None)
    /\ UNCHANGED <<password, expired, jar, renew, requests>>

\* Only the row of the cookie is revoked; it may be one that was replaced.
Logout(c) ==
    /\ call[c].at = "sent" /\ call[c].op = "logout"
    /\ IF call[c].id = None THEN UNCHANGED <<rows, closed>>
       ELSE /\ rows' = Revoked({call[c].id})
            /\ closed' = IF Live(call[c].id) THEN closed \cup {rows[call[c].id].family} ELSE closed
    /\ Served(c, TRUE, None)
    /\ UNCHANGED <<password, expired, jar, renew, requests>>

\* login and logout are sent without a second try, and a second try is the last.
GivesUp(c) == call[c].op \in {"login", "logout"} \/ call[c].again

\* refreshOnce: the tab's refresh in flight, or a new one with the browser's
\* cookie.  The mutant starts another one and forgets the first.
RefreshAnew(t) ==
    renew' = [renew EXCEPT ![t] = [NoRenew EXCEPT !.at = "sent", !.id = jar[BrowserOf[t]].refresh]]

RefreshOnce(t) ==
    IF renew[t].at # "idle" THEN UNCHANGED renew
    ELSE renew' = [renew EXCEPT ![t] =
                      [NoRenew EXCEPT !.at = "sent", !.id = jar[BrowserOf[t]].refresh]]

Answer(c) ==
    /\ call[c].at = "served"
    /\ call[c].ok \/ GivesUp(c)
    /\ Store(BrowserOf[TabOf[c]], call[c].sets)
    /\ call' = [call EXCEPT ![c] = NoCall]
    /\ UNCHANGED <<password, rows, expired, closed, renew, requests>>

AnswerRefused(c) ==
    /\ call[c].at = "served"
    /\ ~call[c].ok /\ ~GivesUp(c)
    /\ RefreshOnce(TabOf[c])
    /\ call' = [call EXCEPT ![c].at = "waiting"]
    /\ UNCHANGED <<password, rows, expired, closed, jar, requests>>

\* fetch rejects: the page shows the error and the cookies stay.  (A request
\* that never reaches the server is as good as not sent.)
Lost(c) ==
    /\ BrowserOf[TabOf[c]] \in Lossy
    /\ call[c].at = "served"
    /\ call' = [call EXCEPT ![c] = NoCall]
    /\ UNCHANGED <<password, rows, expired, closed, jar, renew, requests>>

-----------------------------------------------------------------------------
(* POST /auth/refresh.                                                     *)

RenewServed(t, ok, sets) ==
    renew' = [renew EXCEPT ![t].at = "served", ![t].ok = ok, ![t].sets = sets]

\* Without a cookie the handler refuses and clears nothing.
RenewWithout(t) ==
    /\ renew[t].at = "sent"
    /\ renew[t].id = None
    /\ RenewServed(t, FALSE, Keep)
    /\ UNCHANGED <<password, rows, expired, closed, jar, call, requests>>

\* The token was replaced or revoked: the whole family goes.
Reuse(t) ==
    /\ renew[t].at = "sent"
    /\ renew[t].id # None
    /\ ~Live(renew[t].id)
    /\ rows' = Revoked(Family(rows[renew[t].id].family))
    /\ RenewServed(t, FALSE, None)
    /\ UNCHANGED <<password, expired, closed, jar, call, requests>>

RenewExpired(t) ==
    /\ renew[t].at = "sent"
    /\ renew[t].id # None
    /\ Live(renew[t].id)
    /\ rows[renew[t].id].family \in expired
    /\ RenewServed(t, FALSE, None)
    /\ UNCHANGED <<password, rows, expired, closed, jar, call, requests>>

\* Whatever fails in the transaction, the handler clears the cookies.
RenewFails(t) ==
    /\ Faults
    /\ renew[t].at = "sent"
    /\ renew[t].id # None
    /\ RenewServed(t, FALSE, None)
    /\ UNCHANGED <<password, rows, expired, closed, jar, call, requests>>

\* The mutant inserts the new row and leaves the old one good.
Added(old, new) == Insert(new, rows[old].family)

Replaced(old, new) == [Insert(new, rows[old].family) EXCEPT ![old].live = FALSE]

Refresh(t) ==
    LET id == renew[t].id IN
    /\ renew[t].at = "sent"
    /\ id # None
    /\ Live(id) /\ rows[id].family \notin expired
    /\ Unused # {}
    /\ rows' = Replaced(id, NewId)
    /\ RenewServed(t, TRUE, NewId)
    /\ UNCHANGED <<password, expired, closed, jar, call, requests>>

\* The mutant wakes one of the requests that wait.
WaitingFirst(t) ==
    {CHOOSE c \in Calls : TabOf[c] = t /\ call[c].at = "waiting"}

Waiting(t) == {c \in Calls : TabOf[c] = t /\ call[c].at = "waiting"}

\* The promise settles: the requests that wait are sent again with the new
\* cookies, or give up.
RenewAnswered(t) ==
    LET b == BrowserOf[t] IN
    /\ renew[t].at = "served"
    /\ Store(b, renew[t].sets)
    /\ call' = [c \in Calls |->
          IF c \notin Waiting(t) THEN call[c]
          ELSE IF ~renew[t].ok THEN NoCall
          ELSE [NoCall EXCEPT !.at = "sent", !.op = call[c].op, !.again = TRUE,
                              !.id = jar'[b].refresh, !.access = jar'[b].access]]
    /\ renew' = [renew EXCEPT ![t] = NoRenew]
    /\ UNCHANGED <<password, rows, expired, closed, requests>>

RenewLost(t) ==
    /\ BrowserOf[t] \in Lossy
    /\ renew[t].at \in {"sent", "served"}
    /\ call' = [c \in Calls |-> IF c \in Waiting(t) THEN NoCall ELSE call[c]]
    /\ renew' = [renew EXCEPT ![t] = NoRenew]
    /\ UNCHANGED <<password, rows, expired, closed, jar, requests>>

-----------------------------------------------------------------------------
(* Time, and playerd's command line.                                       *)

AccessExpires(b) ==
    /\ jar[b].access
    /\ jar' = [jar EXCEPT ![b].access = FALSE]
    /\ UNCHANGED <<password, rows, expired, closed, renew, call, requests>>

\* The browsers drop the family's refresh cookies too.
RefreshExpires(f) ==
    /\ f \in Began \ expired
    /\ Cardinality(expired) < MaxExpired
    /\ expired' = expired \cup {f}
    /\ jar' = [b \in Browsers |->
          IF jar[b].refresh \in Family(f) THEN [jar[b] EXCEPT !.refresh = None] ELSE jar[b]]
    /\ UNCHANGED <<password, rows, closed, renew, call, requests>>

ResetPassword ==
    /\ requests < MaxRequests
    /\ requests' = requests + 1
    /\ password' = password + 1
    /\ rows' = Revoked(Ids)
    /\ closed' = closed \cup Began
    /\ UNCHANGED <<expired, jar, renew, call>>

-----------------------------------------------------------------------------
ServeCall(c) == \/ Refused(c) \/ ServePlain(c) \/ ReadHash(c) \/ Login(c)
                \/ ChangePassword(c) \/ LogoutAll(c) \/ Logout(c)
CallStep(c)  == ServeCall(c) \/ Answer(c) \/ AnswerRefused(c) \/ Lost(c)
RenewStep(t) == \/ RenewWithout(t) \/ Reuse(t) \/ RenewExpired(t) \/ RenewFails(t)
                \/ Refresh(t) \/ RenewAnswered(t) \/ RenewLost(t)

Next ==
    \/ \E c \in Calls : CallStep(c) \/ \E op \in Ops : Ask(c, op)
    \/ \E t \in Tabs : RenewStep(t)
    \/ \E b \in Browsers : AccessExpires(b)
    \/ \E f \in Ids : RefreshExpires(f)
    \/ ResetPassword

Spec == Init /\ [][Next]_vars

-----------------------------------------------------------------------------
(* Properties.                                                             *)

\* Cookies, requests and promises hold what the code can put there, and a page
\* only waits for a refresh that is under way.
TypeOK ==
    /\ password \in Nat /\ requests \in 0 .. MaxRequests
    /\ rows \in [Ids -> Row]
    /\ expired \subseteq Began /\ closed \subseteq Began
    /\ jar \in [Browsers -> Jar]
    /\ \A t \in Tabs : /\ renew[t].at \in {"idle", "sent", "served"}
                       /\ renew[t].id \in Ids \cup {None}
                       /\ renew[t].sets \in Ids \cup {None, Keep}
    /\ \A c \in Calls : /\ call[c].at \in {"idle", "sent", "checked", "served", "waiting"}
                        /\ call[c].op \in Ops
                        /\ call[c].id \in Ids \cup {None}
                        /\ call[c].sets \in Ids \cup {None, Keep}
                        /\ call[c].at = "waiting" => renew[TabOf[c]].at # "idle"

Good(f) == {i \in Family(f) : Live(i)}

\* The table implements the families of tokens: whatever requests cross each
\* other, Refresh never leaves two good tokens of one sign-in, a replaced token
\* never becomes good again, and neither does a family that has ended.
Promise == INSTANCE SessionFamilies
               WITH Tokens <- Ids, good <- [f \in Ids |-> Good(f)], issued <- Ids \ Unused
PromiseKept == Promise!Spec

Alone(t) == \A u \in Tabs : BrowserOf[u] = BrowserOf[t] => u = t

\* A browser with one tab that gets its answers is not signed out by its own
\* refreshes, however many of its requests are refused at once: the token that a
\* refresh presents is good when the server looks at it, and so is the one the
\* browser holds when none is under way, unless somebody ended the session.
\* Two tabs of one browser have no such promise: both may present a token, and
\* its second use ends the family.
OwnTokensGood ==
    \A t \in Tabs : Alone(t) /\ BrowserOf[t] \notin Lossy =>
        LET token == IF renew[t].at = "idle" THEN jar[BrowserOf[t]].refresh ELSE renew[t].id IN
        (/\ renew[t].at # "served"
         /\ token # None
         /\ rows[token].family \notin closed)
        => Live(token)

\* A password change or reset leaves no session behind: what is live was
\* inserted since.  (A login that had read the old hash may still be inserted.)
LiveSinceChange == \A i \in Ids : Live(i) => rows[i].born = password
=============================================================================

---------------------------- MODULE SessionsProofs ----------------------------
(***************************************************************************)
(* For any number of browsers, tabs, requests, refresh tokens, expiries    *)
(* and faults: the table of refresh sessions implements the families of    *)
(* tokens, nothing good is older than the password, and a tab that is the  *)
(* only one of its browser is not signed out by its own refreshes.         *)
(***************************************************************************)
EXTENDS Sessions, TLAPS, WellFoundedInduction

-----------------------------------------------------------------------------
(* The inductive invariant.                                                *)

\* The records' fields, and nothing else.
Renewal == [at : {"idle", "sent", "served"}, id : Ids \cup {None}, ok : BOOLEAN,
            sets : Ids \cup {None, Keep}]
Request == [at : {"idle", "sent", "checked", "served", "waiting"}, op : Ops,
            id : Ids \cup {None}, access : BOOLEAN, again : BOOLEAN, ok : BOOLEAN,
            sets : Ids \cup {None, Keep}]

Types ==
    /\ password \in Nat /\ requests \in 0 .. MaxRequests
    /\ rows \in [Ids -> Row]
    /\ expired \in SUBSET Ids /\ closed \in SUBSET Ids
    /\ jar \in [Browsers -> Jar]
    /\ renew \in [Tabs -> Renewal]
    /\ call \in [Calls -> Request]

\* A family goes by a row of its own, an id that was not handed out has no live
\* row, no family has two good tokens, and what is good was inserted since the
\* last change of the password.
Table ==
    /\ \A i \in Ids : rows[i].live => rows[i].family # None /\ rows[i].born = password
    /\ \A i \in Ids : rows[i].family # None =>
          rows[rows[i].family].family = rows[i].family
    /\ \A i, j \in Ids :
          rows[i].live /\ rows[j].live /\ rows[i].family = rows[j].family => i = j

\* Only families that were begun expire or are ended, and a request that waits
\* waits for a refresh.
Histories ==
    /\ \A f \in expired \cup closed : rows[f].family = f
    /\ \A c \in Calls : call[c].at = "waiting" => renew[TabOf[c]].at # "idle"

\* The tokens that may still come to use in a browser.
HeldBy(b, x) == \/ jar[b].refresh = x
                \/ \E t \in Tabs : BrowserOf[t] = b /\ x \in {renew[t].id, renew[t].sets}
                \/ \E c \in Calls : BrowserOf[TabOf[c]] = b /\ call[c].sets = x

\* They were issued, and a family is held by one browser.
FamiliesApart ==
    /\ \A b \in Browsers, x \in Ids : HeldBy(b, x) => rows[x].family # None
    /\ \A a, b \in Browsers, x, y \in Ids :
          HeldBy(a, x) /\ HeldBy(b, y) /\ rows[x].family = rows[y].family => a = b

\* The token of a login that was served and not answered is the only one of its
\* family that anybody holds.
LoginsFresh ==
    \A c \in Calls, y \in Ids :
        call[c].sets \in Ids /\ rows[y].family = rows[call[c].sets].family =>
            /\ \A b \in Browsers : jar[b].refresh # y
            /\ \A t \in Tabs : renew[t].id # y /\ renew[t].sets # y
            /\ \A d \in Calls : call[d].sets = y => d = c

\* Tokens that are good, unless somebody ended the session.
Fine == {x \in Ids \cup {None, Keep} : x \in Ids /\ rows[x].family \notin closed => Live(x)}

\* What the browser of a tab will present is fine, wherever it is now.
Presentable(t) ==
    LET b == BrowserOf[t] IN
    /\ renew[t].at = "idle" => jar[b].refresh \in Fine
    /\ renew[t].at = "sent" => renew[t].id \in Fine
    /\ renew[t].at = "sent" /\ renew[t].id = None => jar[b].refresh \in Fine
    /\ renew[t].at = "served" => renew[t].sets \in Fine
    /\ renew[t].at = "served" /\ renew[t].sets = Keep => jar[b].refresh \in Fine
    /\ \A c \in Calls : TabOf[c] = t => call[c].sets \in Fine

Lone(t) == Alone(t) /\ BrowserOf[t] \notin Lossy

TokensFine == \A t \in Tabs : Lone(t) => Presentable(t)

IInv == Types /\ Table /\ Histories /\ FamiliesApart /\ LoginsFresh /\ TokensFine

-----------------------------------------------------------------------------
(* The table.                                                              *)

LEMMA NewIdUnused ==
  ASSUME Unused # {}
  PROVE  NewId \in Unused
<1> DEFINE R == OpToRel(<, Nat)
<1>1. Unused \subseteq Nat
  BY SessionsAssumption DEF Unused, Ids
<1>2. PICK x \in Unused : \A y \in Unused : ~ (<<y, x>> \in R)
  <2> HIDE DEF R
  <2>1. IsWellFoundedOn(R, Nat)
    BY NatLessThanWellFounded DEF R
  <2> QED
    BY <1>1, <2>1, WFMin
<1>3. ASSUME NEW y \in Unused PROVE x <= y
  <2>1. ~ (y < x)
    BY <1>1, <1>2 DEF OpToRel
  <2> QED
    BY <1>1, <2>1
<1> QED
  BY <1>3 DEF NewId

LEMMA IdsAreNumbers == Ids \subseteq Nat /\ None \notin Ids /\ Keep \notin Ids /\ None # Keep
BY SessionsAssumption DEF Ids, None, Keep

\* What a row is after the statements that write the table.
LEMMA RowsInserted ==
  ASSUME Types, NEW n \in Ids, NEW f \in Ids \cup {None}, NEW i \in Ids
  PROVE  /\ Insert(n, f) \in [Ids -> Row]
         /\ Insert(n, f)[i] = IF i = n THEN [family |-> f, live |-> TRUE, born |-> password]
                                       ELSE rows[i]
BY DEF Insert, Types, Row

LEMMA RowsReplaced ==
  ASSUME Types, NEW n \in Ids, NEW k \in Ids, NEW i \in Ids, n # k
  PROVE  /\ Replaced(k, n) \in [Ids -> Row]
         /\ Replaced(k, n)[i].family = IF i = n THEN rows[k].family ELSE rows[i].family
         /\ Replaced(k, n)[i].live <=> ((i = n) \/ (i # k /\ rows[i].live))
         /\ Replaced(k, n)[i].born = IF i = n THEN password ELSE rows[i].born
<1> DEFINE new == Insert(n, rows[k].family)
<1>1. rows[k].family \in Ids \cup {None}
  BY DEF Types, Row
<1>2. new \in [Ids -> Row]
  BY <1>1, RowsInserted
<1>3. new[i] = IF i = n THEN [family |-> rows[k].family, live |-> TRUE, born |-> password]
                        ELSE rows[i]
  BY <1>1, RowsInserted
<1>4. Replaced(k, n) = [new EXCEPT ![k].live = FALSE]
  BY DEF Replaced
<1> HIDE DEF new
<1>5. new[k] \in Row /\ [new[k] EXCEPT !.live = FALSE] \in Row
  BY <1>2 DEF Row
<1>6. Replaced(k, n) = [new EXCEPT ![k] = [new[k] EXCEPT !.live = FALSE]]
  BY <1>2, <1>4
<1>7. Replaced(k, n) \in [Ids -> Row]
  BY <1>2, <1>5, <1>6
<1>8. Replaced(k, n)[i] = IF i = k THEN [new[k] EXCEPT !.live = FALSE] ELSE new[i]
  BY <1>2, <1>6
<1>9. [new[k] EXCEPT !.live = FALSE].family = new[k].family
  BY <1>5 DEF Row
<1>10. [new[k] EXCEPT !.live = FALSE].born = new[k].born
  BY <1>5 DEF Row
<1>11. [new[k] EXCEPT !.live = FALSE].live = FALSE
  BY <1>5 DEF Row
<1>12. Replaced(k, n)[i].family = new[i].family /\ Replaced(k, n)[i].born = new[i].born
  BY <1>8, <1>9, <1>10
<1>13. new[i].live <=> (i = n \/ rows[i].live)
  BY <1>3
<1>14. Replaced(k, n)[i].live <=> (i # k /\ new[i].live)
  <2>1. CASE i = k
    BY <1>8, <1>11, <2>1
  <2>2. CASE i # k
    BY <1>8, <2>2
  <2> QED
    BY <2>1, <2>2
<1>15. Replaced(k, n)[i].live <=> ((i = n) \/ (i # k /\ rows[i].live))
  BY <1>13, <1>14
<1> QED
  BY <1>3, <1>15, <1>7, <1>12

LEMMA RowsRevoked ==
  ASSUME Types, NEW S, NEW i \in Ids
  PROVE  /\ Revoked(S) \in [Ids -> Row]
         /\ Revoked(S)[i].family = rows[i].family
         /\ Revoked(S)[i].live <=> (i \notin S /\ rows[i].live)
         /\ Revoked(S)[i].born = rows[i].born
BY DEF Revoked, Types, Row

-----------------------------------------------------------------------------
(* The fields keep their types.                                            *)

LEMMA TypesInit == Init => Types
BY SessionsAssumption, IdsAreNumbers
DEF Init, Types, NoRow, Row, Jar, NoRenew, NoCall, Renewal, Request, Ops

LEMMA TypesServed ==
  ASSUME Types, NEW c \in Calls, NEW ok \in BOOLEAN, NEW sets \in Ids \cup {None, Keep},
         Served(c, ok, sets)
  PROVE  call' \in [Calls -> Request]
<1>1. call[c] \in Request
  BY DEF Types
<1>2. [call[c] EXCEPT !.at = "served", !.ok = ok, !.sets = sets] \in Request
  BY <1>1 DEF Request
<1>3. call' = [call EXCEPT ![c] = [call[c] EXCEPT !.at = "served", !.ok = ok, !.sets = sets]]
  BY DEF Served, Types
<1> QED
  BY <1>2, <1>3 DEF Types

LEMMA TypesRenewServed ==
  ASSUME Types, NEW t \in Tabs, NEW ok \in BOOLEAN, NEW sets \in Ids \cup {None, Keep},
         RenewServed(t, ok, sets)
  PROVE  renew' \in [Tabs -> Renewal]
<1>1. renew[t] \in Renewal
  BY DEF Types
<1>2. [renew[t] EXCEPT !.at = "served", !.ok = ok, !.sets = sets] \in Renewal
  BY <1>1 DEF Renewal
<1>3. renew' = [renew EXCEPT ![t] = [renew[t] EXCEPT !.at = "served", !.ok = ok, !.sets = sets]]
  BY DEF RenewServed, Types
<1> QED
  BY <1>2, <1>3 DEF Types

LEMMA TypesSent ==
  ASSUME Types, NEW c \in Calls, NEW op \in Ops, NEW again \in BOOLEAN
  PROVE  Sent(c, op, again) \in Request
<1>1. jar[BrowserOf[TabOf[c]]] \in Jar
  BY SessionsAssumption DEF Types
<1> QED
  BY <1>1 DEF Sent, NoCall, Request, Jar

LEMMA TypesStored ==
  ASSUME Types, NEW b \in Browsers, NEW sets \in Ids \cup {None, Keep}, Store(b, sets)
  PROVE  jar' \in [Browsers -> Jar]
BY DEF Store, Types, Jar

LEMMA TypesRefreshOnce ==
  ASSUME Types, NEW t \in Tabs, RefreshOnce(t)
  PROVE  renew' \in [Tabs -> Renewal]
<1>1. jar[BrowserOf[t]].refresh \in Ids \cup {None}
  BY SessionsAssumption DEF Types, Jar
<1>2. [NoRenew EXCEPT !.at = "sent", !.id = jar[BrowserOf[t]].refresh] \in Renewal
  BY <1>1 DEF NoRenew, Renewal
<1> QED
  BY <1>2 DEF RefreshOnce, Types

LEMMA NoCallIsRequest == NoCall \in Request /\ NoRenew \in Renewal
BY DEF NoCall, Request, NoRenew, Renewal, Ops

LEMMA TypesServeCall ==
  ASSUME Types, Table, NEW c \in Calls, ServeCall(c)
  PROVE  Types'
<1>1. CASE Refused(c)
  BY <1>1, TypesServed DEF Refused, Types
<1>2. CASE ServePlain(c)
  BY <1>2, TypesServed DEF ServePlain, Types
<1>3. CASE ReadHash(c)
  <2>1. call' \in [Calls -> Request]
    BY <1>3 DEF ReadHash, Types, Request
  <2> QED
    BY <1>3, <2>1 DEF ReadHash, Types
<1>4. CASE Login(c)
  <2>1. NewId \in Ids
    BY <1>4, NewIdUnused DEF Login, Unused
  <2>2. rows' \in [Ids -> Row]
    BY <1>4, <2>1, RowsInserted DEF Login
  <2>3. call' \in [Calls -> Request]
    BY <1>4, <2>1, TypesServed DEF Login
  <2> QED
    BY <1>4, <2>2, <2>3 DEF Login, Types
<1> DEFINE all == closed \cup Began
<1>5. Began \in SUBSET Ids
  BY DEF Began, Unused, Types, Row
<1>6. \A S : Revoked(S) \in [Ids -> Row]
  BY DEF Revoked, Types, Row
<1>7. CASE ChangePassword(c)
  <2>1. call' \in [Calls -> Request]
    BY <1>7, TypesServed DEF ChangePassword
  <2> QED
    BY <1>5, <1>6, <1>7, <2>1 DEF ChangePassword, RevokeAll, Types
<1>8. CASE LogoutAll(c)
  <2>1. call' \in [Calls -> Request]
    BY <1>8, TypesServed DEF LogoutAll
  <2> QED
    BY <1>5, <1>6, <1>8, <2>1 DEF LogoutAll, RevokeAll, Types
<1>9. CASE Logout(c)
  <2>1. call' \in [Calls -> Request]
    BY <1>9, TypesServed DEF Logout
  <2>2. rows' \in [Ids -> Row]
    BY <1>6, <1>9 DEF Logout, Types
  <2>3. call[c].id \in Ids \cup {None}
    BY DEF Types, Request
  <2>4. closed' \in SUBSET Ids
    BY <1>9, <2>3 DEF Logout, Live, Table, Types, Row
  <2> QED
    BY <1>9, <2>1, <2>2, <2>4 DEF Logout, Types
<1> QED
  BY <1>1, <1>2, <1>3, <1>4, <1>7, <1>8, <1>9 DEF ServeCall

LEMMA TypesCallStep ==
  ASSUME Types, Table, NEW c \in Calls, CallStep(c)
  PROVE  Types'
<1>0. TabOf[c] \in Tabs /\ BrowserOf[TabOf[c]] \in Browsers
  BY SessionsAssumption
<1>1. CASE ServeCall(c)
  BY <1>1, TypesServeCall
<1>2. CASE Answer(c)
  <2>1. call[c].sets \in Ids \cup {None, Keep}
    BY DEF Types, Request
  <2>2. jar' \in [Browsers -> Jar]
    BY <1>0, <1>2, <2>1, TypesStored DEF Answer
  <2> QED
    BY <1>2, <2>2, NoCallIsRequest DEF Answer, Types
<1>3. CASE AnswerRefused(c)
  <2>1. renew' \in [Tabs -> Renewal]
    BY <1>0, <1>3, TypesRefreshOnce DEF AnswerRefused
  <2>2. call' \in [Calls -> Request]
    BY <1>3 DEF AnswerRefused, Types, Request
  <2> QED
    BY <1>3, <2>1, <2>2 DEF AnswerRefused, Types
<1>4. CASE Lost(c)
  BY <1>4, NoCallIsRequest DEF Lost, Types
<1> QED
  BY <1>1, <1>2, <1>3, <1>4 DEF CallStep

LEMMA TypesRenewStep ==
  ASSUME Types, NEW t \in Tabs, RenewStep(t)
  PROVE  Types'
<1>0. BrowserOf[t] \in Browsers /\ renew[t] \in Renewal
  BY SessionsAssumption DEF Types
<1>1. CASE RenewWithout(t)
  BY <1>1, TypesRenewServed DEF RenewWithout, Types
<1>2. CASE Reuse(t)
  <2>1. Revoked(Family(rows[renew[t].id].family)) \in [Ids -> Row]
    BY DEF Revoked, Types, Row
  <2>2. renew' \in [Tabs -> Renewal]
    BY <1>2, TypesRenewServed DEF Reuse
  <2> QED
    BY <1>2, <2>1, <2>2 DEF Reuse, Types
<1>3. CASE RenewExpired(t)
  BY <1>3, TypesRenewServed DEF RenewExpired, Types
<1>4. CASE RenewFails(t)
  BY <1>4, TypesRenewServed DEF RenewFails, Types
<1>5. CASE Refresh(t)
  <2>1. NewId \in Ids
    BY <1>5, NewIdUnused DEF Refresh, Unused
  <2>2. renew[t].id \in Ids
    BY <1>0, <1>5 DEF Refresh, Renewal
  <2>3. rows' = Replaced(renew[t].id, NewId)
    BY <1>5 DEF Refresh
  <2>4. rows[renew[t].id].family \in Ids \cup {None}
    BY <2>2 DEF Types, Row
  <2>5. rows' \in [Ids -> Row]
    <3>1. Insert(NewId, rows[renew[t].id].family) \in [Ids -> Row]
      BY <2>1, <2>4, RowsInserted
    <3> QED
      BY <2>2, <2>3, <3>1 DEF Replaced, Row
  <2>6. renew' \in [Tabs -> Renewal]
    BY <1>5, <2>1, TypesRenewServed DEF Refresh
  <2> QED
    BY <1>5, <2>5, <2>6 DEF Refresh, Types
<1>6. CASE RenewAnswered(t)
  <2>1. jar' \in [Browsers -> Jar]
    BY <1>0, <1>6, TypesStored DEF RenewAnswered, Renewal
  <2>2. jar'[BrowserOf[t]] \in Jar
    BY <1>0, <2>1
  <2>3. renew' \in [Tabs -> Renewal]
    BY <1>6, NoCallIsRequest DEF RenewAnswered, Types
  <2>4. ASSUME NEW c \in Calls PROVE call'[c] \in Request
    <3>1. call[c] \in Request
      BY DEF Types
    <3>2. [NoCall EXCEPT !.at = "sent", !.op = call[c].op, !.again = TRUE,
                         !.id = jar'[BrowserOf[t]].refresh,
                         !.access = jar'[BrowserOf[t]].access] \in Request
      BY <2>2, <3>1 DEF NoCall, Request, Jar
    <3> QED
      BY <1>6, <3>1, <3>2, NoCallIsRequest DEF RenewAnswered
  <2>5. call' \in [Calls -> Request]
    BY <1>6, <2>4 DEF RenewAnswered
  <2> QED
    BY <1>6, <2>1, <2>3, <2>5 DEF RenewAnswered, Types
<1>7. CASE RenewLost(t)
  BY <1>7, NoCallIsRequest DEF RenewLost, Types
<1> QED
  BY <1>1, <1>2, <1>3, <1>4, <1>5, <1>6, <1>7 DEF RenewStep

LEMMA TypesKept ==
  ASSUME Types, Table, [Next]_vars
  PROVE  Types'
<1>0. Began \in SUBSET Ids
  BY DEF Began, Unused, Types, Row
<1>1. ASSUME NEW c \in Calls, CallStep(c) PROVE Types'
  BY <1>1, TypesCallStep
<1>2. ASSUME NEW c \in Calls, NEW op \in Ops, Ask(c, op) PROVE Types'
  <2>1. call' \in [Calls -> Request]
    BY <1>2, TypesSent DEF Ask, Types
  <2>2. requests' \in 0 .. MaxRequests
    BY <1>2, SessionsAssumption DEF Ask, Types
  <2> QED
    BY <1>2, <2>1, <2>2 DEF Ask, Types
<1>3. ASSUME NEW t \in Tabs, RenewStep(t) PROVE Types'
  BY <1>3, TypesRenewStep
<1>4. ASSUME NEW b \in Browsers, AccessExpires(b) PROVE Types'
  BY <1>4 DEF AccessExpires, Types, Jar
<1>5. ASSUME NEW f \in Ids, RefreshExpires(f) PROVE Types'
  <2>1. jar' \in [Browsers -> Jar]
    BY <1>5 DEF RefreshExpires, Types, Jar
  <2> QED
    BY <1>5, <2>1 DEF RefreshExpires, Types
<1>6. CASE ResetPassword
  <2>1. rows' \in [Ids -> Row]
    BY <1>6 DEF ResetPassword, Revoked, Types, Row
  <2> QED
    BY <1>0, <1>6, <2>1, SessionsAssumption DEF ResetPassword, Types
<1>7. CASE UNCHANGED vars
  BY <1>7 DEF vars, Types
<1> QED
  BY <1>1, <1>2, <1>3, <1>4, <1>5, <1>6, <1>7 DEF Next

-----------------------------------------------------------------------------
(* What a step does to the table: nothing, a sign-in, a rotation or an end. *)

Begins  == \E n \in Unused : rows' = Insert(n, n) /\ password' = password
Rotates == \E k \in Ids, n \in Unused :
               Live(k) /\ rows' = Replaced(k, n) /\ password' = password
Ends    == \E S \in SUBSET Ids : rows' = Revoked(S) /\ (S = Ids \/ password' = password)

LEMMA TableMoves ==
  ASSUME Types, [Next]_vars
  PROVE  \/ UNCHANGED <<rows, password>> \/ Begins \/ Rotates \/ Ends
<1>1. ASSUME NEW c \in Calls, CallStep(c)
      PROVE  UNCHANGED <<rows, password>> \/ Begins \/ Ends
  <2>1. CASE Login(c)
    BY <2>1, NewIdUnused DEF Login, Begins
  <2>2. CASE ChangePassword(c)
    BY <2>2 DEF ChangePassword, RevokeAll, Ends
  <2>3. CASE LogoutAll(c)
    BY <2>3 DEF LogoutAll, RevokeAll, Ends
  <2>4. CASE Logout(c)
    <3>1. CASE call[c].id = None
      BY <2>4, <3>1 DEF Logout
    <3>2. CASE call[c].id # None
      <4>1. {call[c].id} \in SUBSET Ids
        BY <3>2 DEF Types, Request
      <4> QED
        BY <2>4, <3>2, <4>1 DEF Logout, Ends
    <3> QED
      BY <3>1, <3>2
  <2> QED
    BY <1>1, <2>1, <2>2, <2>3, <2>4
    DEF CallStep, ServeCall, Refused, ServePlain, ReadHash, Answer, AnswerRefused, Lost
<1>2. ASSUME NEW t \in Tabs, RenewStep(t)
      PROVE  UNCHANGED <<rows, password>> \/ Rotates \/ Ends
  <2>1. CASE Reuse(t)
    <3>1. Family(rows[renew[t].id].family) \in SUBSET Ids
      BY DEF Family
    <3> QED
      BY <2>1, <3>1 DEF Reuse, Ends
  <2>2. CASE Refresh(t)
    <3>1. renew[t].id \in Ids
      BY <2>2 DEF Refresh, Types, Renewal
    <3> QED
      BY <2>2, <3>1, NewIdUnused DEF Refresh, Rotates
  <2> QED
    BY <1>2, <2>1, <2>2
    DEF RenewStep, RenewWithout, RenewExpired, RenewFails, RenewAnswered, RenewLost
<1>3. ASSUME NEW c \in Calls, NEW op \in Ops, Ask(c, op)
      PROVE  UNCHANGED <<rows, password>>
  BY <1>3 DEF Ask
<1>4. ASSUME NEW b \in Browsers, AccessExpires(b) PROVE UNCHANGED <<rows, password>>
  BY <1>4 DEF AccessExpires
<1>5. ASSUME NEW f \in Ids, RefreshExpires(f) PROVE UNCHANGED <<rows, password>>
  BY <1>5 DEF RefreshExpires
<1>6. CASE ResetPassword
  BY <1>6 DEF ResetPassword, Ends
<1>7. CASE UNCHANGED vars
  BY <1>7 DEF vars
<1> QED
  BY <1>1, <1>2, <1>3, <1>4, <1>5, <1>6, <1>7 DEF Next

\* The rows that each of them leaves.
LEMMA RowsBegun ==
  ASSUME Types, Table, NEW n \in Unused, rows' = Insert(n, n)
  PROVE  /\ n \in Ids /\ rows[n].family = None /\ \A i \in Ids : rows[i].family # n
         /\ \A i \in Ids : rows'[i].family = IF i = n THEN n ELSE rows[i].family
         /\ \A i \in Ids : rows'[i].live <=> (i = n \/ rows[i].live)
         /\ \A i \in Ids : rows'[i].born = IF i = n THEN password ELSE rows[i].born
<1>1. n \in Ids /\ rows[n].family = None
  BY DEF Unused
<1>2. \A i \in Ids : rows[i].family # n
  BY <1>1, IdsAreNumbers DEF Table
<1>3. ASSUME NEW i \in Ids
      PROVE  /\ rows'[i].family = IF i = n THEN n ELSE rows[i].family
             /\ rows'[i].live <=> (i = n \/ rows[i].live)
             /\ rows'[i].born = IF i = n THEN password ELSE rows[i].born
  <2>1. rows'[i] = IF i = n THEN [family |-> n, live |-> TRUE, born |-> password] ELSE rows[i]
    BY <1>1, RowsInserted
  <2>2. CASE i = n
    BY <2>1, <2>2
  <2>3. CASE i # n
    BY <2>1, <2>3
  <2> QED
    BY <2>2, <2>3
<1> QED
  BY <1>1, <1>2, <1>3

LEMMA RowsRotated ==
  ASSUME Types, Table, NEW k \in Ids, NEW n \in Unused, Live(k), rows' = Replaced(k, n)
  PROVE  /\ n \in Ids /\ rows[n].family = None /\ \A i \in Ids : rows[i].family # n
         /\ n # k /\ rows[k].family \in Ids
         /\ \A i \in Ids : rows'[i].family = IF i = n THEN rows[k].family ELSE rows[i].family
         /\ \A i \in Ids : rows'[i].live <=> (i = n \/ (i # k /\ rows[i].live))
         /\ \A i \in Ids : rows'[i].born = IF i = n THEN password ELSE rows[i].born
<1>1. n \in Ids /\ rows[n].family = None
  BY DEF Unused
<1>2. \A i \in Ids : rows[i].family # n
  BY <1>1, IdsAreNumbers DEF Table
<1>3. n # k /\ rows[k].family \in Ids
  BY <1>1 DEF Table, Live, Types, Row
<1>4. ASSUME NEW i \in Ids
      PROVE  /\ rows'[i].family = IF i = n THEN rows[k].family ELSE rows[i].family
             /\ rows'[i].live <=> (i = n \/ (i # k /\ rows[i].live))
             /\ rows'[i].born = IF i = n THEN password ELSE rows[i].born
  BY <1>1, <1>3, RowsReplaced
<1> QED
  BY <1>1, <1>2, <1>3, <1>4

LEMMA RowsEnded ==
  ASSUME Types, NEW S, rows' = Revoked(S)
  PROVE  /\ \A i \in Ids : rows'[i].family = rows[i].family
         /\ \A i \in Ids : rows'[i].live <=> (i \notin S /\ rows[i].live)
         /\ \A i \in Ids : rows'[i].born = rows[i].born
BY RowsRevoked

LEMMA TableKept ==
  ASSUME Types, Table, [Next]_vars
  PROVE  Table'
<1>0. \A i \in Ids : rows[i].family \in Ids \cup {None}
  BY DEF Types, Row
<1>1. CASE UNCHANGED <<rows, password>>
  BY <1>1 DEF Table
<1>2. CASE Begins
  <2>1. PICK n \in Unused : rows' = Insert(n, n) /\ password' = password
    BY <1>2 DEF Begins
  <2>2. /\ n \in Ids /\ rows[n].family = None /\ \A i \in Ids : rows[i].family # n
        /\ \A i \in Ids : rows'[i].family = IF i = n THEN n ELSE rows[i].family
        /\ \A i \in Ids : rows'[i].live <=> (i = n \/ rows[i].live)
        /\ \A i \in Ids : rows'[i].born = IF i = n THEN password ELSE rows[i].born
    BY <2>1, RowsBegun
  <2>3. ASSUME NEW i \in Ids, rows'[i].live
        PROVE  rows'[i].family # None /\ rows'[i].born = password'
    BY <2>1, <2>2, <2>3, IdsAreNumbers DEF Table
  <2>4. ASSUME NEW i \in Ids, rows'[i].family # None
        PROVE  rows'[rows'[i].family].family = rows'[i].family
    <3>1. CASE i = n
      BY <2>2, <3>1
    <3>2. CASE i # n
      <4>1. rows'[i].family = rows[i].family /\ rows[i].family \in Ids /\ rows[i].family # n
        BY <1>0, <2>2, <2>4, <3>2
      <4>2. rows[rows[i].family].family = rows[i].family
        BY <2>4, <4>1 DEF Table
      <4> QED
        BY <2>2, <4>1, <4>2
    <3> QED
      BY <3>1, <3>2
  <2>5. ASSUME NEW i \in Ids, NEW j \in Ids, rows'[i].live, rows'[j].live,
               rows'[i].family = rows'[j].family
        PROVE  i = j
    BY <2>2, <2>5 DEF Table
  <2> QED
    BY <2>3, <2>4, <2>5 DEF Table
<1>3. CASE Rotates
  <2>1. PICK k \in Ids, n \in Unused :
            Live(k) /\ rows' = Replaced(k, n) /\ password' = password
    BY <1>3 DEF Rotates
  <2>2. /\ n \in Ids /\ rows[n].family = None /\ \A i \in Ids : rows[i].family # n
        /\ n # k /\ rows[k].family \in Ids
        /\ \A i \in Ids : rows'[i].family = IF i = n THEN rows[k].family ELSE rows[i].family
        /\ \A i \in Ids : rows'[i].live <=> (i = n \/ (i # k /\ rows[i].live))
        /\ \A i \in Ids : rows'[i].born = IF i = n THEN password ELSE rows[i].born
    BY <2>1, RowsRotated
  <2>3. ASSUME NEW i \in Ids, rows'[i].live
        PROVE  rows'[i].family # None /\ rows'[i].born = password'
    BY <2>1, <2>2, <2>3, IdsAreNumbers DEF Table
  <2>4. ASSUME NEW i \in Ids, rows'[i].family # None
        PROVE  rows'[rows'[i].family].family = rows'[i].family
    <3>1. PICK j \in Ids : rows'[i].family = rows[j].family /\ rows[j].family \in Ids
      BY <1>0, <2>2, <2>4
    <3>2. rows[rows[j].family].family = rows[j].family /\ rows[j].family # n
      BY <2>2, <3>1, IdsAreNumbers DEF Table
    <3> QED
      BY <2>2, <3>1, <3>2
  <2>5. ASSUME NEW i \in Ids, NEW j \in Ids, rows'[i].live, rows'[j].live,
               rows'[i].family = rows'[j].family
        PROVE  i = j
    <3>1. rows[k].live
      BY <2>1 DEF Live
    <3> QED
      BY <2>2, <2>5, <3>1 DEF Table
  <2> QED
    BY <2>3, <2>4, <2>5 DEF Table
<1>4. CASE Ends
  <2>1. PICK S \in SUBSET Ids : rows' = Revoked(S) /\ (S = Ids \/ password' = password)
    BY <1>4 DEF Ends
  <2>2. /\ \A i \in Ids : rows'[i].family = rows[i].family
        /\ \A i \in Ids : rows'[i].live <=> (i \notin S /\ rows[i].live)
        /\ \A i \in Ids : rows'[i].born = rows[i].born
    BY <2>1, RowsEnded
  <2>3. ASSUME NEW i \in Ids, rows'[i].live
        PROVE  rows'[i].family # None /\ rows'[i].born = password'
    BY <2>1, <2>2, <2>3 DEF Table
  <2>4. ASSUME NEW i \in Ids, rows'[i].family # None
        PROVE  rows'[rows'[i].family].family = rows'[i].family
    <3>1. rows[i].family \in Ids
      BY <1>0, <2>2, <2>4
    <3>2. rows[rows[i].family].family = rows[i].family
      BY <2>2, <2>4 DEF Table
    <3> QED
      BY <2>2, <3>1, <3>2
  <2>5. ASSUME NEW i \in Ids, NEW j \in Ids, rows'[i].live, rows'[j].live,
               rows'[i].family = rows'[j].family
        PROVE  i = j
    BY <2>2, <2>5 DEF Table
  <2> QED
    BY <2>3, <2>4, <2>5 DEF Table
<1> QED
  BY <1>1, <1>2, <1>3, <1>4, TableMoves

\* A row that was inserted keeps its family.
LEMMA FamiliesStay ==
  ASSUME Types, Table, [Next]_vars, NEW i \in Ids, rows[i].family # None
  PROVE  rows'[i].family = rows[i].family
<1>1. CASE UNCHANGED <<rows, password>>
  BY <1>1
<1>2. CASE Begins
  BY <1>2, RowsBegun DEF Begins
<1>3. CASE Rotates
  BY <1>3, RowsRotated DEF Rotates
<1>4. CASE Ends
  BY <1>4, RowsEnded DEF Ends
<1> QED
  BY <1>1, <1>2, <1>3, <1>4, TableMoves

LEMMA BeganIs ==
  ASSUME Types, Table
  PROVE  Began = {f \in Ids : rows[f].family = f}
<1>1. ASSUME NEW f \in Began PROVE f \in Ids /\ rows[f].family = f
  BY DEF Began, Unused, Types, Row, Table
<1>2. ASSUME NEW f \in Ids, rows[f].family = f PROVE f \in Began
  BY <1>2, IdsAreNumbers DEF Began, Unused
<1> QED
  BY <1>1, <1>2

LEMMA RenewedTo ==
  ASSUME Types, NEW t \in Tabs, NEW ok, NEW sets, RenewServed(t, ok, sets)
  PROVE  /\ renew'[t].at = "served" /\ renew'[t].id = renew[t].id
         /\ renew'[t].ok = ok /\ renew'[t].sets = sets
         /\ \A u \in Tabs : u # t => renew'[u] = renew[u]
<1>1. renew[t] \in Renewal
  BY DEF Types
<1> DEFINE new == [renew[t] EXCEPT !.at = "served", !.ok = ok, !.sets = sets]
<1>2. new.at = "served" /\ new.id = renew[t].id /\ new.ok = ok /\ new.sets = sets
  BY <1>1 DEF Renewal
<1>3. renew' = [renew EXCEPT ![t] = [renew[t] EXCEPT !.at = "served", !.ok = ok, !.sets = sets]]
  BY DEF RenewServed, Types
<1> HIDE DEF new
<1>4. renew'[t] = new /\ \A u \in Tabs : u # t => renew'[u] = renew[u]
  BY <1>3 DEF Types, new
<1> QED
  BY <1>2, <1>4

LEMMA SentAgain ==
  ASSUME NEW t, RenewAnswered(t), NEW c \in Calls
  PROVE  /\ c \notin Waiting(t) => call'[c] = call[c]
         /\ c \in Waiting(t) => call'[c].at \in {"idle", "sent"} /\ call'[c].sets = Keep
<1>1. NoCall.at = "idle" /\ NoCall.sets = Keep
  BY DEF NoCall
<1>2. \A op, id, access :
         LET again == [NoCall EXCEPT !.at = "sent", !.op = op, !.again = TRUE, !.id = id,
                                     !.access = access]
         IN  again.at = "sent" /\ again.sets = Keep
  BY DEF NoCall
<1>3. call'[c] = IF c \notin Waiting(t) THEN call[c]
                 ELSE IF ~renew[t].ok THEN NoCall
                 ELSE [NoCall EXCEPT !.at = "sent", !.op = call[c].op, !.again = TRUE,
                                     !.id = jar'[BrowserOf[t]].refresh,
                                     !.access = jar'[BrowserOf[t]].access]
  BY DEF RenewAnswered
<1> HIDE DEF NoCall
<1>4. CASE c \notin Waiting(t)
  BY <1>3, <1>4
<1>5. CASE c \in Waiting(t) /\ ~renew[t].ok
  BY <1>1, <1>3, <1>5
<1>6. CASE c \in Waiting(t) /\ renew[t].ok
  <2>1. call'[c] = [NoCall EXCEPT !.at = "sent", !.op = call[c].op, !.again = TRUE,
                                  !.id = jar'[BrowserOf[t]].refresh,
                                  !.access = jar'[BrowserOf[t]].access]
    BY <1>3, <1>6
  <2> QED
    BY <1>2, <1>6, <2>1
<1> QED
  BY <1>4, <1>5, <1>6

LEMMA HistoriesKept ==
  ASSUME Types, Table, Histories, [Next]_vars
  PROVE  Histories'
<1>1. ASSUME NEW f \in expired' \cup closed'
      PROVE  f \in expired \cup closed \cup Began
  <2>1. ASSUME NEW c \in Calls, Logout(c) PROVE f \in expired \cup closed \cup Began
    <3>1. CASE call[c].id # None /\ Live(call[c].id)
      <4>1. call[c].id \in Ids \ Unused
        BY <3>1 DEF Types, Request, Table, Live, Unused
      <4> QED
        BY <2>1, <3>1, <4>1 DEF Logout, Began
    <3> QED
      BY <2>1, <3>1 DEF Logout
  <2> QED
    BY <2>1
    DEF Next, CallStep, ServeCall, Refused, ServePlain, ReadHash, Login, ChangePassword, RevokeAll,
        LogoutAll, Answer, AnswerRefused, Lost, Ask, RenewStep, RenewWithout, Reuse, RenewExpired,
        RenewFails, Refresh, RenewAnswered, RenewLost, AccessExpires, RefreshExpires,
        ResetPassword, vars
<1>2. ASSUME NEW f \in expired' \cup closed' PROVE rows'[f].family = f
  <2>1. f \in Ids /\ rows[f].family = f
    BY <1>1, BeganIs DEF Histories, Types
  <2> QED
    BY <2>1, FamiliesStay, IdsAreNumbers
<1>3. ASSUME NEW c \in Calls, call'[c].at = "waiting" PROVE renew'[TabOf[c]].at # "idle"
  <2>0. TabOf[c] \in Tabs /\ call[c] \in Request /\ renew[TabOf[c]] \in Renewal
    BY SessionsAssumption DEF Types
  <2>1. ASSUME NEW d \in Calls, ServeCall(d) PROVE renew'[TabOf[c]].at # "idle"
    <3>1. UNCHANGED renew
      BY <2>1 DEF ServeCall, Refused, ServePlain, ReadHash, Login, ChangePassword, LogoutAll, Logout
    <3>2. call[c].at = "waiting"
      BY <1>3, <2>1
      DEF ServeCall, Refused, ServePlain, ReadHash, Login, ChangePassword, LogoutAll, Logout,
          Served, Types, Request
    <3> QED
      BY <3>1, <3>2 DEF Histories
  <2>2. ASSUME NEW d \in Calls, Answer(d) \/ Lost(d) PROVE renew'[TabOf[c]].at # "idle"
    <3>1. UNCHANGED renew
      BY <2>2 DEF Answer, Lost
    <3>2. call[c].at = "waiting"
      BY <1>3, <2>2 DEF Answer, Lost, NoCall, Types, Request
    <3> QED
      BY <3>1, <3>2 DEF Histories
  <2>3. ASSUME NEW d \in Calls, AnswerRefused(d) PROVE renew'[TabOf[c]].at # "idle"
    <3>1. d = c \/ call[c].at = "waiting"
      BY <1>3, <2>3 DEF AnswerRefused, Types, Request
    <3>2. TabOf[d] \in Tabs
      BY SessionsAssumption
    <3>3. renew'[TabOf[d]].at # "idle"
      BY <2>3, <3>2, ZenonT(40) DEF AnswerRefused, RefreshOnce, NoRenew, Types, Renewal
    <3>4. TabOf[c] # TabOf[d] => renew'[TabOf[c]] = renew[TabOf[c]]
      BY <2>0, <2>3, <3>2 DEF AnswerRefused, RefreshOnce, Types
    <3> QED
      BY <3>1, <3>3, <3>4 DEF Histories
  <2>4. ASSUME NEW d \in Calls, NEW op \in Ops, Ask(d, op) PROVE renew'[TabOf[c]].at # "idle"
    <3>1. call[c].at = "waiting"
      BY <1>3, <2>4 DEF Ask, Sent, NoCall, Types, Request
    <3> QED
      BY <2>4, <3>1 DEF Ask, Histories
  <2>5. ASSUME NEW t \in Tabs, RenewAnswered(t) \/ RenewLost(t)
        PROVE  renew'[TabOf[c]].at # "idle"
    <3>1. c \notin Waiting(t)
      BY <1>3, <2>5, SentAgain DEF RenewLost, NoCall
    <3>0. call[c].at = "waiting"
      BY <1>3, <2>5, <3>1 DEF RenewAnswered, RenewLost
    <3>2. TabOf[c] # t
      BY <3>0, <3>1 DEF Waiting
    <3>3. renew'[TabOf[c]] = renew[TabOf[c]]
      BY <2>0, <2>5, <3>2 DEF RenewAnswered, RenewLost, Types
    <3> QED
      BY <3>0, <3>3 DEF Histories
  <2>6. ASSUME NEW t \in Tabs,
               \/ RenewWithout(t) \/ Reuse(t) \/ RenewExpired(t) \/ RenewFails(t) \/ Refresh(t)
        PROVE  renew'[TabOf[c]].at # "idle"
    <3>1. UNCHANGED call
      BY <2>6 DEF RenewWithout, Reuse, RenewExpired, RenewFails, Refresh
    <3>2. renew[TabOf[c]].at # "idle"
      BY <1>3, <3>1 DEF Histories
    <3>3. PICK ok, sets : RenewServed(t, ok, sets)
      BY ONLY <2>6 DEF RenewWithout, Reuse, RenewExpired, RenewFails, Refresh
    <3>4. renew'[t].at = "served"
      BY <3>3, RenewedTo
    <3>5. TabOf[c] # t => renew'[TabOf[c]] = renew[TabOf[c]]
      BY <2>0, <3>3, RenewedTo
    <3> QED
      BY <3>2, <3>4, <3>5
  <2>7. CASE UNCHANGED <<renew, call>>
    BY <1>3, <2>7 DEF Histories
  <2> QED
    BY <2>1, <2>2, <2>3, <2>4, <2>5, <2>6, <2>7
    DEF Next, CallStep, RenewStep, AccessExpires, RefreshExpires, ResetPassword, vars
<1> QED
  BY <1>2, <1>3 DEF Histories

-----------------------------------------------------------------------------
(* The first theorems.                                                     *)

TableInv == Types /\ Table /\ Histories

LEMMA TableInvInit == Init => TableInv
<1> SUFFICES ASSUME Init PROVE TableInv
  OBVIOUS
<1>1. Types
  BY TypesInit
<1>2. Table
  BY DEF Init, Table, NoRow
<1>3. Histories
  BY SessionsAssumption DEF Init, Histories, NoCall
<1> QED
  BY <1>1, <1>2, <1>3 DEF TableInv

LEMMA TableInvKept == TableInv /\ [Next]_vars => TableInv'
BY TypesKept, TableKept, HistoriesKept DEF TableInv

LEMMA TableInvAlways == Spec => []TableInv
BY TableInvInit, TableInvKept, PTL DEF Spec

\* The table, the cookies, the requests and the refreshes have their shape,
\* families expire or end only after they began, and a page that waits has a
\* refresh under way.
THEOREM TypeCorrect == Spec => []TypeOK
<1>1. TableInv => TypeOK
  <2> SUFFICES ASSUME TableInv PROVE TypeOK
    OBVIOUS
  <2>1. expired \subseteq Began /\ closed \subseteq Began
    BY BeganIs DEF TableInv, Types, Histories
  <2> QED
    BY <2>1 DEF TableInv, Types, Histories, Renewal, Request, TypeOK
<1> QED
  BY <1>1, TableInvAlways, PTL

\* What is good in the table was inserted since the last change of the password,
\* whatever login, refresh, change and reset cross each other.
THEOREM LiveSinceChangeAlways == Spec => []LiveSinceChange
<1>1. TableInv => LiveSinceChange
  BY DEF TableInv, Table, LiveSinceChange, Live
<1> QED
  BY <1>1, TableInvAlways, PTL

-----------------------------------------------------------------------------
(* The table implements the families of tokens.                            *)

LEMMA GoodOnlyOne ==
  ASSUME Table, NEW k \in Ids, Live(k)
  PROVE  Good(rows[k].family) = {k}
BY DEF Good, Family, Live, Table

LEMMA BeginsIsBegin ==
  ASSUME Types, Table, Begins
  PROVE  \E f \in Ids : Promise!Begin(f)
<1>1. PICK n \in Unused : rows' = Insert(n, n) /\ password' = password
  BY DEF Begins
<1>2. /\ n \in Ids /\ rows[n].family = None /\ \A i \in Ids : rows[i].family # n
      /\ \A i \in Ids : rows'[i].family = IF i = n THEN n ELSE rows[i].family
      /\ \A i \in Ids : rows'[i].live <=> (i = n \/ rows[i].live)
  BY <1>1, RowsBegun
<1>3. Good(n)' = {n}
  BY <1>2 DEF Good, Family, Live
<1>4. \A f \in Ids : f # n => Good(f)' = Good(f)
  BY <1>2 DEF Good, Family, Live, Table
<1>5. (Ids \ Unused)' = (Ids \ Unused) \cup {n}
  BY <1>2, IdsAreNumbers DEF Unused
<1>6. n \notin Ids \ Unused
  OBVIOUS
<1>7. Promise!Begin(n)
  BY <1>2, <1>3, <1>4, <1>5, <1>6 DEF Promise!Begin, Promise!Families
<1> QED
  BY <1>2, <1>7

LEMMA RotatesIsRotate ==
  ASSUME Types, Table, Rotates
  PROVE  \E f \in Ids : Promise!Rotate(f)
<1>1. PICK k \in Ids, n \in Unused :
          Live(k) /\ rows' = Replaced(k, n) /\ password' = password
  BY DEF Rotates
<1>0. PICK f \in Ids : f = rows[k].family
  BY <1>1, RowsRotated
<1>2. /\ n \in Ids /\ rows[n].family = None /\ \A i \in Ids : rows[i].family # n
      /\ n # k
      /\ \A i \in Ids : rows'[i].family = IF i = n THEN f ELSE rows[i].family
      /\ \A i \in Ids : rows'[i].live <=> (i = n \/ (i # k /\ rows[i].live))
  BY <1>0, <1>1, RowsRotated
<1>3. Good(f) = {k}
  BY <1>0, <1>1, GoodOnlyOne
<1>4. \A i \in Ids : rows[i].live /\ rows[i].family = f => i = k
  BY <1>0, <1>1 DEF Table, Live
<1>5. Good(f)' = {n}
  BY <1>2, <1>4 DEF Good, Family, Live
<1>6. k \notin Unused /\ \A g \in Ids : g # f => k \notin Family(g)
  BY <1>0, IdsAreNumbers DEF Unused, Family
<1>7. \A g \in Ids : g # f => Good(g)' = Good(g)
  BY <1>2, <1>6, IdsAreNumbers DEF Good, Family, Live
<1>8. (Ids \ Unused)' = (Ids \ Unused) \cup {n}
  BY <1>2, IdsAreNumbers DEF Unused
<1>9. n \in Ids \ (Ids \ Unused)
  BY <1>2
<1>10. Promise!Rotate(f)
  BY <1>2, <1>3, <1>5, <1>7, <1>8, <1>9, ZenonT(40) DEF Promise!Rotate, Promise!Families
<1> QED
  BY <1>2, <1>10

LEMMA EndsIsEnd ==
  ASSUME Types, Table, Ends
  PROVE  \E ended \in SUBSET Ids : Promise!End(ended)
<1>1. PICK S \in SUBSET Ids : rows' = Revoked(S)
  BY DEF Ends
<1>2. /\ \A i \in Ids : rows'[i].family = rows[i].family
      /\ \A i \in Ids : rows'[i].live <=> (i \notin S /\ rows[i].live)
  BY <1>1, RowsEnded
<1> DEFINE ended == {f \in Ids : Good(f) \cap S # {}}
<1>3. ASSUME NEW f \in Ids PROVE Good(f)' = Good(f) \ S
  BY <1>2 DEF Good, Family, Live
<1>4. ASSUME NEW f \in Ids, NEW i \in Good(f), NEW j \in Good(f) PROVE i = j
  BY DEF Good, Family, Live, Table
<1>5. ASSUME NEW f \in Ids PROVE Good(f)' = IF f \in ended THEN {} ELSE Good(f)
  <2>1. CASE f \in ended
    <3>1. PICK i \in Good(f) : i \in S
      BY <2>1
    <3>2. \A j \in Good(f) : j = i
      BY <1>4
    <3> QED
      BY <1>3, <2>1, <3>1, <3>2
  <2>2. CASE f \notin ended
    BY <1>3, <2>2
  <2> QED
    BY <2>1, <2>2
<1>6. UNCHANGED (Ids \ Unused)
  BY <1>2 DEF Unused
<1> HIDE DEF ended
<1>7. Promise!End(ended)
  BY <1>5, <1>6 DEF Promise!End, Promise!Families
<1>8. ended \in SUBSET Ids
  BY DEF ended
<1> QED
  BY <1>7, <1>8

\* The table of refresh sessions implements the families of tokens: each
\* statement of a sign-in, a refresh, a logout, a password change or a reset is
\* a beginning, a rotation, an end or nothing.
THEOREM PromiseKeptAlways == Spec => PromiseKept
<1>1. Init => Promise!Init
  <2> SUFFICES ASSUME Init PROVE Promise!Init
    OBVIOUS
  <2>1. \A i \in Ids : rows[i].family = None /\ ~ rows[i].live
    BY DEF Init, NoRow
  <2>2. \A f \in Ids : Good(f) = {}
    BY <2>1 DEF Good, Family, Live
  <2>3. Ids \ Unused = {}
    BY <2>1 DEF Unused
  <2> QED
    BY <2>2, <2>3 DEF Promise!Init, Promise!Families
<1>2. TableInv /\ [Next]_vars => [Promise!Next]_(Promise!vars)
  <2> SUFFICES ASSUME TableInv, [Next]_vars PROVE [Promise!Next]_(Promise!vars)
    OBVIOUS
  <2>1. CASE UNCHANGED <<rows, password>>
    <3>1. UNCHANGED rows
      BY <2>1
    <3>2. UNCHANGED (Ids \ Unused)
      BY <3>1 DEF Unused
    <3>3. UNCHANGED [f \in Ids |-> Good(f)]
      BY <3>1 DEF Good, Family, Live
    <3> QED
      BY <3>2, <3>3 DEF Promise!vars
  <2>2. CASE Begins
    BY <2>2, BeginsIsBegin DEF TableInv, Promise!Next, Promise!Families
  <2>3. CASE Rotates
    BY <2>3, RotatesIsRotate DEF TableInv, Promise!Next, Promise!Families
  <2>4. CASE Ends
    BY <2>4, EndsIsEnd DEF TableInv, Promise!Next, Promise!Families
  <2> QED
    BY <2>1, <2>2, <2>3, <2>4, TableMoves DEF TableInv
<1> QED
  BY <1>1, <1>2, TableInvAlways, PTL DEF Spec, PromiseKept, Promise!Spec

-----------------------------------------------------------------------------
(* Who holds which tokens.                                                 *)

\* Tokens move within a browser: from an answer or a refresh to the cookie, and
\* from the cookie to a refresh.
Flows ==
    /\ \A c \in Calls : call'[c].sets \in {call[c].sets, Keep, None}
    /\ \A b \in Browsers : jar'[b].refresh \in Ids =>
          \/ jar'[b].refresh = jar[b].refresh
          \/ \E t \in Tabs : BrowserOf[t] = b /\ renew[t].sets = jar'[b].refresh
          \/ \E c \in Calls : /\ BrowserOf[TabOf[c]] = b
                              /\ call[c].sets = jar'[b].refresh
                              /\ call'[c].sets = Keep
    /\ \A t \in Tabs : /\ renew'[t].id \in {renew[t].id, jar[BrowserOf[t]].refresh, None}
                       /\ renew'[t].sets \in {renew[t].sets, Keep, None}

LEMMA ServedTo ==
  ASSUME Types, NEW c \in Calls, NEW ok, NEW sets, Served(c, ok, sets)
  PROVE  /\ call'[c].at = "served" /\ call'[c].op = call[c].op
         /\ call'[c].ok = ok /\ call'[c].sets = sets
         /\ \A d \in Calls : d # c => call'[d] = call[d]
<1>1. call[c] \in Request
  BY DEF Types
<1> DEFINE new == [call[c] EXCEPT !.at = "served", !.ok = ok, !.sets = sets]
<1>2. new.at = "served" /\ new.op = call[c].op /\ new.ok = ok /\ new.sets = sets
  BY <1>1 DEF Request
<1>3. call' = [call EXCEPT ![c] = [call[c] EXCEPT !.at = "served", !.ok = ok, !.sets = sets]]
  BY DEF Served, Types
<1> HIDE DEF new
<1>4. call'[c] = new /\ \A d \in Calls : d # c => call'[d] = call[d]
  BY <1>3 DEF Types, new
<1> QED
  BY <1>2, <1>4

LEMMA StoredTo ==
  ASSUME Types, NEW b \in Browsers, NEW sets \in Ids \cup {None, Keep}, Store(b, sets)
  PROVE  /\ sets = Keep => jar'[b].refresh = jar[b].refresh
         /\ sets = None => jar'[b].refresh = None
         /\ sets \in Ids => jar'[b].refresh \in {sets, None}
         /\ \A a \in Browsers : a # b => jar'[a] = jar[a]
<1>1. CASE sets = Keep
  BY <1>1, IdsAreNumbers DEF Store, Types
<1>2. CASE sets = None
  BY <1>2, IdsAreNumbers DEF Store, Types
<1>3. CASE sets \in Ids
  <2>1. jar' = [jar EXCEPT ![b] =
                  [refresh |-> IF rows[sets].family \in expired THEN None ELSE sets,
                   access |-> TRUE]]
    BY <1>3, IdsAreNumbers DEF Store
  <2> QED
    BY <1>3, <2>1, IdsAreNumbers DEF Types
<1> QED
  BY <1>1, <1>2, <1>3

LEMMA RefreshOnceTo ==
  ASSUME Types, NEW t \in Tabs, RefreshOnce(t)
  PROVE  /\ \/ renew'[t] = renew[t] /\ renew[t].at # "idle"
            \/ /\ renew[t].at = "idle" /\ renew'[t].at = "sent" /\ renew'[t].sets = Keep
               /\ renew'[t].id = jar[BrowserOf[t]].refresh
         /\ \A u \in Tabs : u # t => renew'[u] = renew[u]
<1>1. CASE renew[t].at # "idle"
  BY <1>1 DEF RefreshOnce
<1>2. CASE renew[t].at = "idle"
  <2> DEFINE new == [NoRenew EXCEPT !.at = "sent", !.id = jar[BrowserOf[t]].refresh]
  <2>1. new.at = "sent" /\ new.sets = Keep /\ new.id = jar[BrowserOf[t]].refresh
    BY DEF NoRenew
  <2>2. renew' = [renew EXCEPT ![t] = new]
    BY <1>2 DEF RefreshOnce
  <2> HIDE DEF new
  <2>3. renew'[t] = new /\ \A u \in Tabs : u # t => renew'[u] = renew[u]
    BY <2>2 DEF Types
  <2> QED
    BY <1>2, <2>1, <2>3
<1> QED
  BY <1>1, <1>2

\* Steps that leave the refreshes alone and take tokens away from others, if
\* anything.
Fades ==
    /\ UNCHANGED renew
    /\ \A b \in Browsers : jar'[b].refresh \in {jar[b].refresh, None}
    /\ \A c \in Calls : call'[c].sets \in {call[c].sets, Keep, None}

LEMMA FadesSteps ==
  ASSUME Types, [Next]_vars
  PROVE  \/ Fades
         \/ \E c \in Calls : Login(c) \/ Answer(c) \/ AnswerRefused(c)
         \/ \E t \in Tabs : RenewStep(t)
<1>1. ASSUME NEW c \in Calls,
             \/ Refused(c) \/ ServePlain(c) \/ ChangePassword(c) \/ LogoutAll(c) \/ Logout(c)
      PROVE  Fades
  <2>1. UNCHANGED <<renew, jar>>
    BY <1>1 DEF Refused, ServePlain, ChangePassword, LogoutAll, Logout
  <2>2. \E ok \in BOOLEAN, sets \in {Keep, None} : Served(c, ok, sets)
    BY <1>1 DEF Refused, ServePlain, ChangePassword, LogoutAll, Logout
  <2> QED
    BY <2>1, <2>2, ServedTo DEF Fades
<1>2. ASSUME NEW c \in Calls, ReadHash(c) PROVE Fades
  BY <1>2 DEF ReadHash, Fades, Types, Request
<1>3. ASSUME NEW c \in Calls, Lost(c) PROVE Fades
  BY <1>3 DEF Lost, Fades, Types, NoCall
<1>4. ASSUME NEW c \in Calls, NEW op \in Ops, Ask(c, op) PROVE Fades
  <2>1. Sent(c, op, FALSE).sets = Keep
    BY DEF Sent, NoCall
  <2>2. \A d \in Calls : call'[d] = IF d = c THEN Sent(c, op, FALSE) ELSE call[d]
    BY <1>4 DEF Ask, Types
  <2> QED
    BY <1>4, <2>1, <2>2 DEF Ask, Fades
<1>5. ASSUME NEW b \in Browsers, AccessExpires(b) PROVE Fades
  BY <1>5 DEF AccessExpires, Fades, Types, Jar
<1>6. ASSUME NEW f \in Ids, RefreshExpires(f) PROVE Fades
  <2>1. \A b \in Browsers : jar'[b].refresh \in {jar[b].refresh, None}
    BY <1>6 DEF RefreshExpires, Types, Jar
  <2> QED
    BY <1>6, <2>1 DEF RefreshExpires, Fades
<1>7. CASE ResetPassword
  BY <1>7 DEF ResetPassword, Fades
<1>8. CASE UNCHANGED vars
  BY <1>8 DEF vars, Fades
<1> QED
  BY <1>1, <1>2, <1>3, <1>4, <1>5, <1>6, <1>7, <1>8 DEF Next, CallStep, ServeCall

\* Answers to a refresh that bring no token.
Denied(t) ==
    /\ renew[t].at = "sent"
    /\ \E sets \in {None, Keep} :
          /\ RenewServed(t, FALSE, sets)
          /\ sets = Keep => renew[t].id = None
    /\ UNCHANGED <<jar, call>>

LEMMA DeniedSteps ==
  ASSUME NEW t \in Tabs, RenewWithout(t) \/ Reuse(t) \/ RenewExpired(t) \/ RenewFails(t)
  PROVE  Denied(t)
<1>1. CASE RenewWithout(t)
  BY <1>1 DEF RenewWithout, Denied
<1>2. CASE Reuse(t)
  BY <1>2, IdsAreNumbers DEF Reuse, Denied
<1>3. CASE RenewExpired(t)
  BY <1>3, IdsAreNumbers DEF RenewExpired, Denied
<1>4. CASE RenewFails(t)
  BY <1>4, IdsAreNumbers DEF RenewFails, Denied
<1> QED
  BY <1>1, <1>2, <1>3, <1>4

LEMMA AnsweredTo ==
  ASSUME Types, NEW t \in Tabs, RenewAnswered(t) \/ RenewLost(t)
  PROVE  /\ renew'[t].at = "idle" /\ renew'[t].id = None /\ renew'[t].sets = Keep
         /\ \A u \in Tabs : u # t => renew'[u] = renew[u]
         /\ \A c \in Calls : call'[c].sets \in {call[c].sets, Keep}
<1>1. renew' = [renew EXCEPT ![t] = NoRenew]
  BY DEF RenewAnswered, RenewLost
<1>2. \A c \in Calls : call'[c].sets \in {call[c].sets, Keep}
  BY SentAgain DEF RenewLost, NoCall
<1> QED
  BY <1>1, <1>2 DEF Types, NoRenew

LEMMA FlowsSteps ==
  ASSUME Types, [Next]_vars
  PROVE  Flows \/ (\E c \in Calls : Login(c)) \/ (\E t \in Tabs : Refresh(t))
<1> USE SessionsAssumption
<1>1. CASE Fades
  BY <1>1, IdsAreNumbers DEF Fades, Flows
<1>2. ASSUME NEW c \in Calls, Answer(c) PROVE Flows
  <2>1. call[c].sets \in Ids \cup {None, Keep} /\ BrowserOf[TabOf[c]] \in Browsers
    BY DEF Types, Request
  <2>2. call'[c].sets = Keep /\ \A d \in Calls : d # c => call'[d] = call[d]
    BY <1>2 DEF Answer, NoCall, Types
  <2>3. Store(BrowserOf[TabOf[c]], call[c].sets) /\ UNCHANGED renew
    BY <1>2 DEF Answer
  <2>4. \A b \in Browsers : jar'[b].refresh \in Ids =>
           \/ jar'[b].refresh = jar[b].refresh
           \/ BrowserOf[TabOf[c]] = b /\ call[c].sets = jar'[b].refresh
    BY <2>1, <2>3, StoredTo, IdsAreNumbers
  <2> QED
    BY <2>2, <2>3, <2>4 DEF Flows
<1>3. ASSUME NEW c \in Calls, AnswerRefused(c) PROVE Flows
  <2>1. TabOf[c] \in Tabs /\ RefreshOnce(TabOf[c]) /\ UNCHANGED jar
    BY <1>3 DEF AnswerRefused
  <2>2. \A d \in Calls : call'[d].sets = call[d].sets
    BY <1>3 DEF AnswerRefused, Types, Request
  <2> QED
    BY <2>1, <2>2, RefreshOnceTo DEF Flows
<1>4. ASSUME NEW t \in Tabs, Denied(t) PROVE Flows
  BY <1>4, RenewedTo, ZenonT(40) DEF Denied, Flows
<1>5. ASSUME NEW t \in Tabs, RenewAnswered(t) PROVE Flows
  <2>1. renew[t].sets \in Ids \cup {None, Keep} /\ BrowserOf[t] \in Browsers
    BY DEF Types, Renewal
  <2>2. \A b \in Browsers : jar'[b].refresh \in Ids =>
           \/ jar'[b].refresh = jar[b].refresh
           \/ BrowserOf[t] = b /\ renew[t].sets = jar'[b].refresh
    <3>1. Store(BrowserOf[t], renew[t].sets)
      BY <1>5 DEF RenewAnswered
    <3>2. /\ renew[t].sets = Keep => jar'[BrowserOf[t]].refresh = jar[BrowserOf[t]].refresh
          /\ renew[t].sets = None => jar'[BrowserOf[t]].refresh = None
          /\ renew[t].sets \in Ids => jar'[BrowserOf[t]].refresh \in {renew[t].sets, None}
          /\ \A a \in Browsers : a # BrowserOf[t] => jar'[a] = jar[a]
      BY <2>1, <3>1, StoredTo
    <3> QED
      BY <2>1, <3>2, IdsAreNumbers
  <2> QED
    BY <1>5, <2>2, AnsweredTo DEF Flows
<1>6. ASSUME NEW t \in Tabs, RenewLost(t) PROVE Flows
  <2>1. UNCHANGED jar
    BY <1>6 DEF RenewLost
  <2> QED
    BY <1>6, <2>1, AnsweredTo DEF Flows
<1> QED
  BY <1>1, <1>2, <1>3, <1>4, <1>5, <1>6, DeniedSteps, FadesSteps DEF RenewStep

LEMMA FlowsHeld ==
  ASSUME Types, Flows, NEW b \in Browsers, NEW x \in Ids, HeldBy(b, x)'
  PROVE  HeldBy(b, x)
<1> USE IdsAreNumbers
<1>1. CASE jar'[b].refresh = x
  BY <1>1 DEF Flows, HeldBy
<1>2. ASSUME NEW t \in Tabs, BrowserOf[t] = b, x \in {renew'[t].id, renew'[t].sets}
      PROVE  HeldBy(b, x)
  BY <1>2 DEF Flows, HeldBy
<1>3. ASSUME NEW c \in Calls, BrowserOf[TabOf[c]] = b, call'[c].sets = x
      PROVE  HeldBy(b, x)
  BY <1>3 DEF Flows, HeldBy
<1> QED
  BY <1>1, <1>2, <1>3 DEF HeldBy

LEMMA ApartFlows ==
  ASSUME Types, Table, FamiliesApart, [Next]_vars, Flows
  PROVE  FamiliesApart'
<1>1. \A b \in Browsers, x \in Ids : HeldBy(b, x)' => HeldBy(b, x)
  BY FlowsHeld
<1>2. \A b \in Browsers, x \in Ids : HeldBy(b, x)' => /\ rows[x].family # None
                                                      /\ rows'[x].family = rows[x].family
  BY <1>1, FamiliesStay DEF FamiliesApart
<1> QED
  BY <1>1, <1>2 DEF FamiliesApart

\* The holders that LoginsFresh speaks of.
LEMMA FreshFlows ==
  ASSUME Types, Table, FamiliesApart, LoginsFresh, [Next]_vars, Flows
  PROVE  LoginsFresh'
<1> USE IdsAreNumbers, SessionsAssumption
<1> SUFFICES ASSUME NEW c \in Calls, NEW y \in Ids, call'[c].sets \in Ids,
                    rows'[y].family = rows'[call'[c].sets].family
             PROVE  /\ \A b \in Browsers : jar'[b].refresh # y
                    /\ \A t \in Tabs : renew'[t].id # y /\ renew'[t].sets # y
                    /\ \A d \in Calls : call'[d].sets = y => d = c
  BY DEF LoginsFresh
<1>1. call'[c].sets = call[c].sets /\ HeldBy(BrowserOf[TabOf[c]], call[c].sets)
  BY DEF Flows, HeldBy
<1>2. rows'[call[c].sets].family = rows[call[c].sets].family
  BY <1>1, FamiliesStay DEF FamiliesApart
<1>3. ASSUME rows[y].family # None
      PROVE  /\ \A b \in Browsers : jar[b].refresh # y
             /\ \A t \in Tabs : renew[t].id # y /\ renew[t].sets # y
             /\ \A d \in Calls : call[d].sets = y => d = c
  <2>1. rows[y].family = rows[call[c].sets].family
    BY <1>1, <1>2, <1>3, FamiliesStay
  <2> QED
    BY <1>1, <2>1 DEF LoginsFresh
<1>4. ASSUME NEW b \in Browsers, HeldBy(b, y) PROVE rows[y].family # None
  BY <1>4 DEF FamiliesApart
<1>5. ASSUME NEW b \in Browsers, jar'[b].refresh = y PROVE FALSE
  <2>1. rows[y].family # None
    BY <1>4, <1>5, FlowsHeld DEF HeldBy
  <2>2. PICK d \in Calls : call[d].sets = y /\ call'[d].sets = Keep
    BY <1>3, <1>5, <2>1 DEF Flows
  <2> QED
    BY <1>1, <1>3, <2>1, <2>2
<1>6. ASSUME NEW t \in Tabs, renew'[t].id = y \/ renew'[t].sets = y PROVE FALSE
  <2>1. HeldBy(BrowserOf[t], y)'
    BY <1>6 DEF HeldBy
  <2>2. rows[y].family # None
    BY <1>4, <2>1, FlowsHeld
  <2> QED
    BY <1>3, <1>6, <2>2 DEF Flows
<1>7. ASSUME NEW d \in Calls, call'[d].sets = y PROVE d = c
  <2>1. HeldBy(BrowserOf[TabOf[d]], y)'
    BY <1>7 DEF HeldBy
  <2>2. rows[y].family # None
    BY <1>4, <2>1, FlowsHeld
  <2> QED
    BY <1>3, <1>7, <2>2 DEF Flows
<1> QED
  BY <1>5, <1>6, <1>7

\* What a login and a refresh bring.
LoginGives(c, n) ==
    /\ n \in Ids /\ rows[n].family = None /\ \A i \in Ids : rows[i].family # n
    /\ \A i \in Ids : rows'[i].family = IF i = n THEN n ELSE rows[i].family
    /\ \A i \in Ids : rows'[i].live <=> (i = n \/ rows[i].live)
    /\ call'[c].sets = n /\ \A d \in Calls : d # c => call'[d] = call[d]
    /\ UNCHANGED <<closed, jar, renew>>

RefreshGives(t, k, n) ==
    /\ n \in Ids /\ rows[n].family = None /\ \A i \in Ids : rows[i].family # n
    /\ n # k /\ rows[k].family \in Ids
    /\ k \in Ids /\ k = renew[t].id
    /\ \A i \in Ids : rows'[i].family = IF i = n THEN rows[k].family ELSE rows[i].family
    /\ \A i \in Ids : rows'[i].live <=> (i = n \/ (i # k /\ rows[i].live))
    /\ renew[t].at = "sent" /\ renew'[t].at = "served"
    /\ renew'[t].id = k /\ renew'[t].sets = n
    /\ \A u \in Tabs : u # t => renew'[u] = renew[u]
    /\ UNCHANGED <<closed, jar, call>>

LEMMA LoginBrings ==
  ASSUME Types, Table, NEW c \in Calls, Login(c)
  PROVE  \E n \in Ids : LoginGives(c, n)
<1>1. NewId \in Unused /\ rows' = Insert(NewId, NewId) /\ Served(c, TRUE, NewId)
  BY NewIdUnused DEF Login
<1>2. UNCHANGED <<closed, jar, renew>>
  BY DEF Login
<1>3. PICK n \in Unused : n = NewId
  BY <1>1
<1>4. call'[c].sets = n /\ \A d \in Calls : d # c => call'[d] = call[d]
  BY <1>1, <1>3, ServedTo
<1>5. /\ n \in Ids /\ rows[n].family = None /\ \A i \in Ids : rows[i].family # n
      /\ \A i \in Ids : rows'[i].family = IF i = n THEN n ELSE rows[i].family
      /\ \A i \in Ids : rows'[i].live <=> (i = n \/ rows[i].live)
  BY <1>1, <1>3, RowsBegun
<1>6. LoginGives(c, n)
  BY <1>2, <1>4, <1>5 DEF LoginGives
<1> QED
  BY <1>5, <1>6

LEMMA RefreshBrings ==
  ASSUME Types, Table, NEW t \in Tabs, Refresh(t)
  PROVE  \E n, k \in Ids : RefreshGives(t, k, n)
<1>1. renew[t].id \in Ids
  BY DEF Refresh, Types, Renewal
<1>2. /\ NewId \in Unused /\ Live(renew[t].id) /\ rows' = Replaced(renew[t].id, NewId)
      /\ RenewServed(t, TRUE, NewId) /\ renew[t].at = "sent"
  BY NewIdUnused DEF Refresh
<1>3. UNCHANGED <<closed, jar, call>>
  BY DEF Refresh
<1>4. PICK n \in Unused, k \in Ids : n = NewId /\ k = renew[t].id
  BY <1>1, <1>2
<1>5. /\ n \in Ids /\ rows[n].family = None /\ \A i \in Ids : rows[i].family # n
      /\ n # k /\ rows[k].family \in Ids
      /\ \A i \in Ids : rows'[i].family = IF i = n THEN rows[k].family ELSE rows[i].family
      /\ \A i \in Ids : rows'[i].live <=> (i = n \/ (i # k /\ rows[i].live))
  BY <1>2, <1>4, RowsRotated
<1>6. /\ renew'[t].at = "served" /\ renew'[t].id = k /\ renew'[t].sets = n
      /\ \A u \in Tabs : u # t => renew'[u] = renew[u]
  BY <1>2, <1>4, RenewedTo
<1>7. RefreshGives(t, k, n)
  BY <1>2, <1>3, <1>4, <1>5, <1>6 DEF RefreshGives
<1> QED
  BY <1>5, <1>7

LEMMA ApartLogin ==
  ASSUME Types, Table, FamiliesApart, LoginsFresh, NEW c \in Calls, Login(c)
  PROVE  FamiliesApart' /\ LoginsFresh'
<1> USE IdsAreNumbers, SessionsAssumption
<1>0. PICK n \in Ids : LoginGives(c, n)
  BY LoginBrings
<1>1. /\ n \in Ids /\ rows[n].family = None /\ \A i \in Ids : rows[i].family # n
      /\ \A i \in Ids : rows'[i].family = IF i = n THEN n ELSE rows[i].family
      /\ call'[c].sets = n /\ \A d \in Calls : d # c => call'[d] = call[d]
      /\ UNCHANGED <<closed, jar, renew>>
  BY <1>0 DEF LoginGives
<1>2. ASSUME NEW b \in Browsers, NEW x \in Ids, HeldBy(b, x)'
      PROVE  (x = n /\ b = BrowserOf[TabOf[c]]) \/ HeldBy(b, x)
  BY <1>1, <1>2 DEF HeldBy
<1>3. \A b \in Browsers : ~ HeldBy(b, n)
  BY <1>1 DEF FamiliesApart
<1>4. ASSUME NEW b \in Browsers, NEW x \in Ids, HeldBy(b, x)'
      PROVE  /\ rows'[x].family # None
             /\ \/ x = n /\ b = BrowserOf[TabOf[c]] /\ rows'[x].family = n
                \/ HeldBy(b, x) /\ rows'[x].family = rows[x].family /\ rows'[x].family # n
  BY <1>1, <1>2, <1>3, <1>4 DEF FamiliesApart
<1>5. FamiliesApart'
  BY <1>4 DEF FamiliesApart
<1>6. ASSUME NEW d \in Calls, NEW y \in Ids, call'[d].sets \in Ids,
             rows'[y].family = rows'[call'[d].sets].family
      PROVE  /\ \A b \in Browsers : jar'[b].refresh # y
             /\ \A t \in Tabs : renew'[t].id # y /\ renew'[t].sets # y
             /\ \A e \in Calls : call'[e].sets = y => e = d
  <2>0. /\ \A b \in Browsers : jar[b].refresh # n
        /\ \A t \in Tabs : renew[t].id # n /\ renew[t].sets # n
        /\ \A e \in Calls : call[e].sets # n
    BY <1>3 DEF HeldBy
  <2>1. CASE d = c
    <3>1. y = n
      BY <1>1, <1>6, <2>1
    <3> QED
      BY <1>1, <2>0, <2>1, <3>1
  <2>2. CASE d # c
    <3>1. call'[d].sets = call[d].sets /\ HeldBy(BrowserOf[TabOf[d]], call[d].sets)
      BY <1>1, <2>2 DEF HeldBy
    <3>2. call[d].sets # n /\ rows'[call[d].sets].family = rows[call[d].sets].family
      BY <1>1, <1>6, <2>0, <3>1
    <3>3. y # n /\ rows[y].family = rows[call[d].sets].family
      BY <1>1, <1>6, <3>1, <3>2
    <3> QED
      BY <1>1, <1>6, <3>1, <3>3 DEF LoginsFresh
  <2> QED
    BY <2>1, <2>2
<1>7. LoginsFresh'
  BY <1>6 DEF LoginsFresh
<1> QED
  BY <1>5, <1>7

LEMMA ApartRefresh ==
  ASSUME Types, Table, FamiliesApart, LoginsFresh, NEW t \in Tabs, Refresh(t)
  PROVE  FamiliesApart' /\ LoginsFresh'
<1> USE IdsAreNumbers, SessionsAssumption
<1>0. PICK n, k \in Ids : RefreshGives(t, k, n)
  BY RefreshBrings
<1>1. /\ n \in Ids /\ rows[n].family = None
      /\ n # k /\ k = renew[t].id
      /\ \A i \in Ids : rows'[i].family = IF i = n THEN rows[k].family ELSE rows[i].family
      /\ renew'[t].id = k /\ renew'[t].sets = n
      /\ \A u \in Tabs : u # t => renew'[u] = renew[u]
      /\ UNCHANGED <<closed, jar, call>>
  BY <1>0 DEF RefreshGives
<1>2. ASSUME NEW b \in Browsers, NEW x \in Ids, HeldBy(b, x)'
      PROVE  (x = n /\ b = BrowserOf[t]) \/ HeldBy(b, x)
  BY <1>1, <1>2 DEF HeldBy
<1>3. (\A b \in Browsers : ~ HeldBy(b, n)) /\ HeldBy(BrowserOf[t], k)
  BY <1>1 DEF FamiliesApart, HeldBy
<1>4. ASSUME NEW b \in Browsers, NEW x \in Ids, HeldBy(b, x)'
      PROVE  \E y \in Ids : HeldBy(b, y) /\ rows'[x].family = rows[y].family
  BY <1>1, <1>2, <1>3, <1>4
<1>5. FamiliesApart'
  BY <1>4 DEF FamiliesApart
<1>6. ASSUME NEW d \in Calls, NEW y \in Ids, call'[d].sets \in Ids,
             rows'[y].family = rows'[call'[d].sets].family
      PROVE  /\ \A b \in Browsers : jar'[b].refresh # y
             /\ \A u \in Tabs : renew'[u].id # y /\ renew'[u].sets # y
             /\ \A e \in Calls : call'[e].sets = y => e = d
  <2>1. call'[d].sets = call[d].sets /\ HeldBy(BrowserOf[TabOf[d]], call[d].sets)
    BY <1>1 DEF HeldBy
  <2>2. rows[k].family # rows[call[d].sets].family
    BY <1>1, <1>6, <2>1 DEF LoginsFresh
  <2>3. rows'[call[d].sets].family = rows[call[d].sets].family
    BY <1>1, <1>3, <1>6, <2>1
  <2>4. y # n /\ rows[y].family = rows[call[d].sets].family
    BY <1>1, <1>6, <2>1, <2>2, <2>3
  <2>5. /\ \A b \in Browsers : jar[b].refresh # y
        /\ \A u \in Tabs : renew[u].id # y /\ renew[u].sets # y
        /\ \A e \in Calls : call[e].sets = y => e = d
    BY <1>6, <2>1, <2>4 DEF LoginsFresh
  <2> QED
    BY <1>1, <2>4, <2>5
<1>7. LoginsFresh'
  BY <1>6 DEF LoginsFresh
<1> QED
  BY <1>5, <1>7

LEMMA HoldersKept ==
  ASSUME Types, Table, FamiliesApart, LoginsFresh, [Next]_vars
  PROVE  FamiliesApart' /\ LoginsFresh'
BY FlowsSteps, ApartFlows, FreshFlows, ApartLogin, ApartRefresh

-----------------------------------------------------------------------------
(* What a lone tab's browser will present is good.                         *)

\* Only a refresh and a reuse make a token worthless without ending its family.
LEMMA FineStays ==
  ASSUME Types, Table, Histories, [Next]_vars, NEW x, x \in Ids => rows[x].family # None,
         x \in Fine, \A t \in Tabs : ~ Reuse(t) /\ ~ Refresh(t)
  PROVE  x \in Fine'
<1> SUFFICES ASSUME x \in Ids, rows'[x].family \notin closed' PROVE rows'[x].live
  BY DEF Fine, Live
<1>1. rows'[x].family = rows[x].family /\ rows[x].family \in Began
  BY FamiliesStay DEF Began, Unused
<1>2. CASE UNCHANGED <<rows, closed>>
  BY <1>2 DEF Fine, Live
<1>3. CASE closed' = closed \cup Began
  BY <1>1, <1>3
<1>4. ASSUME NEW c \in Calls, Login(c) PROVE rows'[x].live
  <2>1. PICK n \in Ids : LoginGives(c, n)
    BY <1>4, LoginBrings
  <2> QED
    BY <1>1, <2>1 DEF LoginGives, Fine, Live
<1>5. ASSUME NEW c \in Calls, Logout(c), call[c].id # None PROVE rows'[x].live
  <2>1. rows' = Revoked({call[c].id})
    BY <1>5 DEF Logout
  <2>2. rows[x].family \notin closed /\ (call[c].id = x => ~ Live(x))
    BY <1>1, <1>5 DEF Logout
  <2>3. rows[x].live /\ call[c].id # x
    BY <2>2 DEF Fine, Live
  <2> QED
    BY <2>1, <2>3, RowsEnded
<1> QED
  BY <1>2, <1>3, <1>4, <1>5
  DEF Next, CallStep, ServeCall, Refused, ServePlain, ReadHash, ChangePassword, RevokeAll,
      LogoutAll, Logout, Answer, AnswerRefused, Lost, Ask, RenewStep, RenewWithout, RenewExpired,
      RenewFails, RenewAnswered, RenewLost, AccessExpires, RefreshExpires, ResetPassword, vars

\* A reuse ends a family that was ended already, unless the token that it
\* presents was replaced under it.
LEMMA FineReuse ==
  ASSUME Types, NEW t \in Tabs, Reuse(t), NEW x, x \in Fine,
         x \in Ids => rows[x].family # rows[renew[t].id].family \/ renew[t].id \in Fine
  PROVE  x \in Fine'
<1> SUFFICES ASSUME x \in Ids, rows'[x].family \notin closed' PROVE rows'[x].live
  BY DEF Fine, Live
<1>1. /\ renew[t].id \in Ids /\ ~ Live(renew[t].id) /\ closed' = closed
      /\ rows' = Revoked(Family(rows[renew[t].id].family))
  BY DEF Reuse, Types, Renewal
<1>2. rows'[x].family = rows[x].family
  BY <1>1, RowsEnded
<1>3. rows[x].live
  BY <1>1, <1>2 DEF Fine, Live
<1>4. rows[x].family # rows[renew[t].id].family
  BY <1>1, <1>2 DEF Fine
<1>5. x \notin Family(rows[renew[t].id].family)
  BY <1>4 DEF Family
<1> QED
  BY <1>1, <1>3, <1>5, RowsEnded

LEMMA FineRefresh ==
  ASSUME NEW t, NEW k, NEW n, RefreshGives(t, k, n), NEW x, x \in Fine, x # k
  PROVE  x \in Fine' /\ n \in Fine'
BY DEF RefreshGives, Fine, Live

\* The tokens that Presentable speaks of are held in the tab's browser.
LEMMA PresentableHeld ==
  ASSUME FamiliesApart, NEW t \in Tabs
  PROVE  LET b == BrowserOf[t] IN
         /\ HeldBy(b, jar[b].refresh) /\ HeldBy(b, renew[t].id) /\ HeldBy(b, renew[t].sets)
         /\ \A c \in Calls : TabOf[c] = t => HeldBy(b, call[c].sets)
         /\ \A x \in Ids : HeldBy(b, x) => rows[x].family # None
BY SessionsAssumption DEF HeldBy, FamiliesApart

LEMMA NoFine == None \in Fine /\ Keep \in Fine /\ None \in Fine' /\ Keep \in Fine'
BY IdsAreNumbers DEF Fine

\* A step that takes no token's worth away from the tab's browser.
Spares(t) == \A x \in Fine : HeldBy(BrowserOf[t], x) => x \in Fine'

LEMMA SparesSteps ==
  ASSUME IInv, [Next]_vars, NEW t \in Tabs, Lone(t), \A u \in Tabs : ~ Refresh(u)
  PROVE  Spares(t)
<1>1. CASE \A u \in Tabs : ~ Reuse(u)
  BY <1>1, FineStays, PresentableHeld DEF IInv, Spares
<1>2. ASSUME NEW u \in Tabs, Reuse(u) PROVE Spares(t)
  <2> SUFFICES ASSUME NEW x \in Fine, HeldBy(BrowserOf[t], x), x \in Ids PROVE x \in Fine'
    BY NoFine DEF Spares, Fine
  <2>1. CASE u = t
    <3>1. renew[u].id \in Fine
      BY <1>2, <2>1 DEF IInv, TokensFine, Lone, Presentable, Reuse
    <3> QED
      BY <1>2, <3>1, FineReuse DEF IInv
  <2>2. CASE u # t
    <3>1. BrowserOf[u] # BrowserOf[t] /\ BrowserOf[u] \in Browsers /\ BrowserOf[t] \in Browsers
      BY <2>2, SessionsAssumption DEF Lone, Alone
    <3>2. renew[u].id \in Ids /\ HeldBy(BrowserOf[u], renew[u].id)
      BY <1>2 DEF Reuse, IInv, Types, Renewal, HeldBy
    <3>3. rows[x].family # rows[renew[u].id].family
      BY <3>1, <3>2 DEF IInv, FamiliesApart
    <3> QED
      BY <1>2, <3>3, FineReuse DEF IInv
  <2> QED
    BY <2>1, <2>2
<1> QED
  BY <1>1, <1>2

\* Hence what Presentable says of the old values holds of them still.
LEMMA StillFine ==
  ASSUME IInv, NEW t \in Tabs, Lone(t), Spares(t)
  PROVE  LET b == BrowserOf[t] IN
         /\ renew[t].at = "idle" => jar[b].refresh \in Fine'
         /\ renew[t].at = "sent" => renew[t].id \in Fine'
         /\ renew[t].at = "sent" /\ renew[t].id = None => jar[b].refresh \in Fine'
         /\ renew[t].at = "served" => renew[t].sets \in Fine'
         /\ renew[t].at = "served" /\ renew[t].sets = Keep => jar[b].refresh \in Fine'
         /\ \A c \in Calls : TabOf[c] = t => call[c].sets \in Fine'
<1>1. Presentable(t)
  BY DEF IInv, TokensFine
<1> QED
  BY <1>1, PresentableHeld DEF IInv, Spares, Presentable

LEMMA PresentableFades ==
  ASSUME IInv, NEW t \in Tabs, Lone(t), Spares(t), Fades
  PROVE  Presentable(t)'
<1> DEFINE b == BrowserOf[t]
<1>1. UNCHANGED renew /\ jar'[b].refresh \in {jar[b].refresh, None}
  BY SessionsAssumption DEF Fades
<1>2. \A c \in Calls : TabOf[c] = t => call'[c].sets \in Fine'
  BY StillFine, NoFine DEF Fades
<1> QED
  BY <1>1, <1>2, StillFine, NoFine DEF Presentable

LEMMA PresentableLogin ==
  ASSUME IInv, NEW t \in Tabs, Lone(t), Spares(t), NEW c \in Calls, Login(c)
  PROVE  Presentable(t)'
<1>1. PICK n \in Ids : LoginGives(c, n)
  BY LoginBrings DEF IInv
<1>2. n \in Fine'
  BY <1>1 DEF LoginGives, Fine, Live
<1>3. \A d \in Calls : TabOf[d] = t => call'[d].sets \in Fine'
  BY <1>1, <1>2, StillFine DEF LoginGives
<1> QED
  BY <1>1, <1>3, StillFine DEF LoginGives, Presentable

LEMMA PresentableAnswer ==
  ASSUME IInv, NEW t \in Tabs, Lone(t), Spares(t), NEW c \in Calls, Answer(c)
  PROVE  Presentable(t)'
<1> DEFINE b == BrowserOf[t]
<1>0. TabOf[c] \in Tabs /\ BrowserOf[TabOf[c]] \in Browsers /\ b \in Browsers
      /\ call[c].sets \in Ids \cup {None, Keep}
  BY SessionsAssumption DEF IInv, Types, Request
<1>1. UNCHANGED renew /\ call'[c].sets = Keep /\ \A d \in Calls : d # c => call'[d] = call[d]
  BY DEF Answer, NoCall, IInv, Types
<1>2. \A d \in Calls : TabOf[d] = t => call'[d].sets \in Fine'
  BY <1>1, StillFine, NoFine
<1>3. Store(BrowserOf[TabOf[c]], call[c].sets)
  BY DEF Answer
<1>4. jar'[b].refresh = jar[b].refresh \/ jar'[b].refresh \in Fine'
  <2>1. CASE TabOf[c] = t
    <3>1. /\ call[c].sets = Keep => jar'[b].refresh = jar[b].refresh
          /\ call[c].sets = None => jar'[b].refresh = None
          /\ call[c].sets \in Ids => jar'[b].refresh \in {call[c].sets, None}
      BY <1>0, <1>3, <2>1, StoredTo DEF IInv
    <3> QED
      BY <1>0, <2>1, <3>1, StillFine, NoFine
  <2>2. CASE TabOf[c] # t
    <3>1. BrowserOf[TabOf[c]] # b
      BY <1>0, <2>2 DEF Lone, Alone
    <3>2. jar'[b] = jar[b]
      BY <1>0, <1>3, <3>1, StoredTo DEF IInv
    <3> QED
      BY <3>2
  <2> QED
    BY <2>1, <2>2
<1> QED
  BY <1>1, <1>2, <1>4, StillFine DEF Presentable

LEMMA PresentableRefused ==
  ASSUME IInv, NEW t \in Tabs, Lone(t), Spares(t), NEW c \in Calls, AnswerRefused(c)
  PROVE  Presentable(t)'
<1> DEFINE b == BrowserOf[t]
<1>1. TabOf[c] \in Tabs /\ RefreshOnce(TabOf[c]) /\ UNCHANGED jar
  BY SessionsAssumption DEF AnswerRefused
<1>2. \A d \in Calls : call'[d].sets = call[d].sets
  BY DEF AnswerRefused, IInv, Types, Request
<1>3. \A d \in Calls : TabOf[d] = t => call'[d].sets \in Fine'
  BY <1>2, StillFine
<1>4. \/ renew'[t] = renew[t]
      \/ /\ renew[t].at = "idle" /\ renew'[t].at = "sent" /\ renew'[t].sets = Keep
         /\ renew'[t].id = jar[b].refresh
  BY <1>1, RefreshOnceTo DEF IInv
<1>5. CASE renew'[t] = renew[t]
  BY <1>1, <1>3, <1>5, StillFine DEF Presentable
<1>6. CASE /\ renew[t].at = "idle" /\ renew'[t].at = "sent"
           /\ renew'[t].id = jar[b].refresh
  BY <1>1, <1>3, <1>6, StillFine DEF Presentable
<1> QED
  BY <1>4, <1>5, <1>6

LEMMA PresentableDenied ==
  ASSUME IInv, NEW t \in Tabs, Lone(t), Spares(t), NEW u \in Tabs, Denied(u)
  PROVE  Presentable(t)'
<1>1. UNCHANGED <<jar, call>>
  BY DEF Denied
<1>2. CASE u = t
  <2>1. PICK sets \in {None, Keep} :
            RenewServed(t, FALSE, sets) /\ (sets = Keep => renew[t].id = None)
    BY <1>2 DEF Denied
  <2>2. renew[t].at = "sent" /\ renew'[t].at = "served" /\ renew'[t].sets = sets
    BY <1>2, <2>1, RenewedTo DEF Denied, IInv
  <2> QED
    BY <1>1, <2>1, <2>2, StillFine, NoFine DEF Presentable
<1>3. CASE u # t
  <2>1. renew'[t] = renew[t]
    BY <1>3, RenewedTo DEF Denied, IInv
  <2> QED
    BY <1>1, <2>1, StillFine DEF Presentable
<1> QED
  BY <1>2, <1>3

LEMMA PresentableAnswered ==
  ASSUME IInv, NEW t \in Tabs, Lone(t), Spares(t), NEW u \in Tabs,
         RenewAnswered(u) \/ RenewLost(u)
  PROVE  Presentable(t)'
<1> DEFINE b == BrowserOf[t]
<1>0. /\ BrowserOf[u] \in Browsers /\ b \in Browsers
      /\ renew[u].sets \in Ids \cup {None, Keep}
  BY SessionsAssumption DEF IInv, Types, Renewal
<1>1. /\ renew'[u].at = "idle"
      /\ \A v \in Tabs : v # u => renew'[v] = renew[v]
      /\ \A c \in Calls : call'[c].sets \in {call[c].sets, Keep}
  BY AnsweredTo DEF IInv
<1>2. \A d \in Calls : TabOf[d] = t => call'[d].sets \in Fine'
  BY <1>1, StillFine, NoFine
<1>3. CASE u = t
  <2>1. RenewAnswered(t) /\ renew[t].at = "served" /\ Store(b, renew[t].sets)
    BY <1>3 DEF RenewLost, RenewAnswered, Lone
  <2>2. /\ renew[t].sets = Keep => jar'[b].refresh = jar[b].refresh
        /\ renew[t].sets = None => jar'[b].refresh = None
        /\ renew[t].sets \in Ids => jar'[b].refresh \in {renew[t].sets, None}
    BY <1>0, <1>3, <2>1, StoredTo DEF IInv
  <2>3. jar'[b].refresh \in Fine'
    BY <1>0, <1>3, <2>1, <2>2, StillFine, NoFine
  <2> QED
    BY <1>1, <1>2, <1>3, <2>3 DEF Presentable
<1>4. CASE u # t
  <2>1. BrowserOf[u] # b
    BY <1>4 DEF Lone, Alone
  <2>2. CASE RenewAnswered(u)
    <3>1. Store(BrowserOf[u], renew[u].sets)
      BY <2>2 DEF RenewAnswered
    <3>2. jar'[b] = jar[b]
      BY <1>0, <2>1, <3>1, StoredTo DEF IInv
    <3> QED
      BY <1>1, <1>2, <1>4, <3>2, StillFine DEF Presentable
  <2>3. CASE RenewLost(u)
    <3>1. jar' = jar
      BY <2>3 DEF RenewLost
    <3> QED
      BY <1>1, <1>2, <1>4, <3>1, StillFine DEF Presentable
  <2> QED
    BY <2>2, <2>3
<1> QED
  BY <1>3, <1>4

\* The token that a refresh replaces is of use to nobody else in the browser.
LEMMA PresentableRefresh ==
  ASSUME IInv, NEW t \in Tabs, Lone(t), NEW u \in Tabs, Refresh(u)
  PROVE  Presentable(t)'
<1> DEFINE b == BrowserOf[t]
<1>0. BrowserOf[u] \in Browsers /\ b \in Browsers
  BY SessionsAssumption
<1>1. PICK n, k \in Ids : RefreshGives(u, k, n)
  BY RefreshBrings DEF IInv
<1>2. \A x \in Fine : x # k => x \in Fine' /\ n \in Fine'
  BY <1>1, FineRefresh
<1>3. n \in Fine'
  BY <1>2, NoFine, IdsAreNumbers
<1>4. Presentable(t)
  BY DEF IInv, TokensFine
<1>5. ASSUME NEW d \in Calls, TabOf[d] = t PROVE call'[d].sets \in Fine'
  <2>1. call[d].sets # k
    BY <1>1, IdsAreNumbers DEF IInv, LoginsFresh, RefreshGives
  <2>2. call[d].sets \in Fine
    BY <1>4, <1>5 DEF Presentable
  <2> QED
    BY <1>1, <1>2, <2>1, <2>2 DEF RefreshGives
<1>6. CASE u = t
  BY <1>1, <1>3, <1>5, <1>6, IdsAreNumbers DEF RefreshGives, Presentable
<1>7. CASE u # t
  <2>1. BrowserOf[u] # b
    BY <1>7 DEF Lone, Alone
  <2>2. HeldBy(BrowserOf[u], k)
    BY <1>1 DEF RefreshGives, HeldBy
  <2>3. ~ HeldBy(b, k)
    BY <1>0, <1>1, <2>1, <2>2 DEF IInv, FamiliesApart
  <2>4. jar[b].refresh # k /\ renew[t].id # k /\ renew[t].sets # k
    BY <2>3 DEF HeldBy
  <2>5. renew'[t] = renew[t] /\ jar' = jar
    BY <1>1, <1>7 DEF RefreshGives
  <2> QED
    BY <1>2, <1>4, <1>5, <2>4, <2>5 DEF Presentable
<1> QED
  BY <1>6, <1>7

LEMMA TokensFineKept ==
  ASSUME IInv, [Next]_vars
  PROVE  TokensFine'
<1> SUFFICES ASSUME NEW t \in Tabs, Lone(t) PROVE Presentable(t)'
  BY DEF TokensFine, Lone, Alone
<1>1. ASSUME NEW u \in Tabs, Refresh(u) PROVE Presentable(t)'
  BY <1>1, PresentableRefresh
<1>2. CASE \A u \in Tabs : ~ Refresh(u)
  <2>1. Spares(t)
    BY <1>2, SparesSteps
  <2> QED
    BY <1>2, <2>1, FadesSteps, DeniedSteps, PresentableFades, PresentableLogin, PresentableAnswer,
       PresentableRefused, PresentableDenied, PresentableAnswered
    DEF RenewStep, IInv
<1> QED
  BY <1>1, <1>2

-----------------------------------------------------------------------------
(* The invariant, and the last theorem.                                    *)

LEMMA InvariantInit == Init => IInv
<1> SUFFICES ASSUME Init PROVE IInv
  OBVIOUS
<1> USE IdsAreNumbers
<1>1. TableInv
  BY TableInvInit
<1>2. \A b \in Browsers : jar[b].refresh = None
  BY DEF Init
<1>3. \A t \in Tabs : renew[t].at = "idle" /\ renew[t].id = None /\ renew[t].sets = Keep
  BY DEF Init, NoRenew
<1>4. \A c \in Calls : call[c].sets = Keep
  BY DEF Init, NoCall
<1>5. \A b \in Browsers, x \in Ids : ~ HeldBy(b, x)
  BY <1>2, <1>3, <1>4 DEF HeldBy
<1>6. FamiliesApart /\ LoginsFresh
  BY <1>4, <1>5 DEF FamiliesApart, LoginsFresh
<1>7. TokensFine
  BY <1>2, <1>3, <1>4, NoFine, SessionsAssumption DEF TokensFine, Presentable
<1> QED
  BY <1>1, <1>6, <1>7 DEF TableInv, IInv

LEMMA InvariantKept == IInv /\ [Next]_vars => IInv'
BY TypesKept, TableKept, HistoriesKept, HoldersKept, TokensFineKept DEF IInv

LEMMA InvariantAlways == Spec => []IInv
BY InvariantInit, InvariantKept, PTL DEF Spec

\* A browser with one tab that gets its answers is not signed out by its own
\* refreshes, whatever the other browsers, their lost answers and their reuses
\* of old tokens do: what it presents is good unless somebody ended the session.
THEOREM OwnTokensGoodAlways == Spec => []OwnTokensGood
<1>1. IInv => OwnTokensGood
  <2> SUFFICES ASSUME IInv, NEW t \in Tabs, Alone(t), BrowserOf[t] \notin Lossy,
                      NEW token,
                      token = IF renew[t].at = "idle" THEN jar[BrowserOf[t]].refresh
                                                      ELSE renew[t].id,
                      renew[t].at # "served", token # None,
                      rows[token].family \notin closed
               PROVE  Live(token)
    BY DEF OwnTokensGood
  <2>1. Presentable(t) /\ renew[t].at \in {"idle", "sent"}
    BY DEF IInv, TokensFine, Lone, Types, Renewal
  <2>2. token \in Fine
    BY <2>1 DEF Presentable
  <2>3. token \in Ids
    BY SessionsAssumption DEF IInv, Types, Jar, Renewal
  <2> QED
    BY <2>2, <2>3 DEF Fine
<1> QED
  BY <1>1, InvariantAlways, PTL
=============================================================================

---------------------------- MODULE AccountsProofs ----------------------------
(***************************************************************************)
(* Theorems about Accounts, for all identities, browsers and requests, and *)
(* whether or not statements fail.  SessionInOwnAccount is not inductive:  *)
(* what it says of a saved session must be known of a callback before it   *)
(* saves (CallbackInv), and ScopeHasItsToken needs to know that EVE gives  *)
(* out each refresh token once (GrantInv).  The tokens of getAdminToken,   *)
(* the toons of sessions and the states of logins rest on these and on an  *)
(* invariant of their own each: OneToken, CallbackHasToon, FreshStates.    *)
(***************************************************************************)
EXTENDS Accounts, TLAPS

(* What a callback knows at each of its locations. *)
Carries(r) ==
    /\ call[r].state # 0
    /\ pc[r] \in {"find", "user"} => call[r].kind = "login"
    /\ pc[r] \notin {"find", "user"} => User(r) # None
    /\ pc[r] \in {"toon", "link"} /\ call[r].kind = "login" => User(r) = Me(r)
    /\ pc[r] \in {"scopes", "store"} =>
          call[r].kind = "scope" /\ toons[Me(r)] = User(r)
    /\ pc[r] = "save" => OwnAccount(User(r), Me(r))

CallbackInv == \A r \in Requests : pc[r] # "idle" => Carries(r)

(* A token that was not handed out is nobody's; that of a callback is its  *)
(* own.                                                                    *)
GrantInv ==
    /\ \A g \in 1 .. MaxGrants : g > grants => grantee[g] = None
    /\ \A r \in Requests : pc[r] # "idle" /\ call[r].kind = "scope" =>
          call[r].grant \in 1 .. grants /\ grantee[call[r].grant] = Me(r)

IInv ==
    /\ TypeOK
    /\ SessionInOwnAccount
    /\ CallbackInv /\ GrantInv
    /\ ScopeHasItsToken

LEMMA InitIInv == Init => IInv
<1> SUFFICES ASSUME Init PROVE IInv
  OBVIOUS
<1> USE Constants DEF Init
<1>1. TypeOK
  BY DEF TypeOK, Locations
<1>2. SessionInOwnAccount /\ CallbackInv /\ GrantInv /\ ScopeHasItsToken
  BY DEF SessionInOwnAccount, LoggedIn, CallbackInv, GrantInv, ScopeHasItsToken
<1> QED BY <1>1, <1>2 DEF IInv
-----------------------------------------------------------------------------
(* Types. *)

LEMMA SessionFields ==
    ASSUME TypeOK, NEW b \in Browsers, sessions[b] # None
    PROVE  /\ sessions[b] \in Sessions
           /\ sessions[b].state \in 0 .. MaxLogins /\ sessions[b].kind \in Kinds
           /\ sessions[b].user \in Identities \cup {None}
           /\ sessions[b].as \in Identities \cup {None}
           /\ sessions[b].user = None <=> sessions[b].as = None
BY DEF TypeOK, Sessions

LEMMA CallFields ==
    ASSUME TypeOK, NEW r \in Requests, pc[r] # "idle"
    PROVE  /\ call[r] \in Calls /\ call[r] # None
           /\ call[r].kind \in Kinds /\ call[r].browser \in Browsers
           /\ call[r].state \in 0 .. MaxLogins /\ call[r].grant \in 0 .. MaxGrants
           /\ Me(r) \in Identities /\ User(r) \in Identities \cup {None}
<1>1. call[r] \in Calls
  BY DEF TypeOK
<1> QED BY <1>1, Constants DEF Calls, Me, User

(* The part of TypeOK about the callbacks, which every step of one keeps. *)
CallsOK ==
    /\ pc \in [Requests -> Locations]
    /\ call \in [Requests -> Calls \cup {None}]
    /\ \A r \in Requests : call[r] = None <=> pc[r] = "idle"

LEMMA GotoKeepsCalls ==
    ASSUME TypeOK, NEW r \in Requests, pc[r] # "idle",
           NEW label \in Locations, label # "idle", Goto(r, label)
    PROVE  CallsOK'
BY DEF TypeOK, CallsOK, Goto

LEMMA FinishKeepsCalls ==
    ASSUME TypeOK, NEW r \in Requests, Finish(r)
    PROVE  CallsOK'
BY DEF TypeOK, CallsOK, Finish, Locations

LEMMA PickingUserKeepsCalls ==
    ASSUME TypeOK, NEW r \in Requests, pc[r] # "idle", NEW u \in Identities,
           call' = [call EXCEPT ![r].user = u],
           NEW label \in Locations, label # "idle",
           pc' = [pc EXCEPT ![r] = label]
    PROVE  CallsOK'
<1>1. call[r] \in Calls
  BY CallFields
<1>2. [call[r] EXCEPT !.user = u] \in Calls
  BY <1>1 DEF Calls
<1>3. [call[r] EXCEPT !.user = u] # None
  BY <1>2, Constants
<1>4. call' = [call EXCEPT ![r] = [call[r] EXCEPT !.user = u]]
  OBVIOUS
<1> QED BY <1>2, <1>3, <1>4 DEF TypeOK, CallsOK

LEMMA AfterToonKeepsCalls ==
    ASSUME TypeOK, NEW r \in Requests, pc[r] # "idle", NEW found \in BOOLEAN,
           AfterToon(r, found)
    PROVE  CallsOK'
<1>1. ASSUME NEW label \in {"save", "scopes"}, Goto(r, label) PROVE CallsOK'
  BY <1>1, GotoKeepsCalls DEF Locations
<1>2. CASE Finish(r)
  BY <1>2, FinishKeepsCalls
<1> QED BY <1>1, <1>2 DEF AfterToon

LEMMA CallbackKeepsCalls ==
    ASSUME TypeOK, NEW r \in Requests, NEW b \in Browsers, NEW x \in Identities,
           Callback(r, b, x)
    PROVE  CallsOK'
<1> DEFINE new == IF sessions[b].kind = "scope" THEN grants + 1 ELSE 0
           c == [kind |-> sessions[b].kind, browser |-> b,
                 state |-> sessions[b].state, as |-> x,
                 user |-> IF sessions[b].kind = "login" THEN None
                             ELSE sessions[b].user,
                 grant |-> new]
<1>1. new \in 0 .. MaxGrants
  BY Constants DEF TypeOK, Callback
<1>2. c \in Calls
  BY <1>1, SessionFields DEF Callback, Calls
<1>3. c # None
  BY <1>2, Constants
<1>4. call' = [call EXCEPT ![r] = c]
  BY DEF Callback
<1>5. \E label \in {"find", "toon"} : pc' = [pc EXCEPT ![r] = label]
  BY DEF Callback
<1> HIDE DEF c
<1> QED BY <1>2, <1>3, <1>4, <1>5 DEF TypeOK, CallsOK, Locations

(* "scope" has EVE hand out the next refresh token, the others none. *)
NoGrant(c) == c.kind # "scope" /\ UNCHANGED eve
Grant(c, x) ==
    /\ c.kind = "scope" /\ c.grant = grants + 1 /\ grants + 1 \in 1 .. MaxGrants
    /\ grantee' = [grantee EXCEPT ![grants + 1] = x]
    /\ live' = live \cup {grants + 1}
    /\ grants' = grants + 1

LEMMA CallbackGrants ==
    ASSUME TypeOK, NEW r \in Requests, NEW b \in Browsers, NEW x \in Identities,
           Callback(r, b, x)
    PROVE  NoGrant(call'[r]) \/ Grant(call'[r], x)
<1>1. grants \in Nat /\ grants + 1 # 0 /\ r \in DOMAIN call
  BY Constants DEF TypeOK
<1>2. CASE sessions[b].kind = "scope"
  <2>1. grants + 1 <= MaxGrants
    BY <1>2 DEF Callback
  <2>2. grants + 1 \in 1 .. MaxGrants
    BY <1>1, <2>1, Constants
  <2> QED BY <1>1, <1>2, <2>2 DEF Callback, Grant
<1>3. CASE sessions[b].kind # "scope"
  BY <1>1, <1>3 DEF Callback, NoGrant, eve
<1> QED BY <1>2, <1>3

LEMMA NextTypeOK == IInv /\ [Next]_vars => TypeOK'
<1> SUFFICES ASSUME IInv, [Next]_vars PROVE TypeOK'
  OBVIOUS
<1>0. TypeOK
  BY DEF IInv
<1> USE DEF tables, eve, aux
<1>1. ASSUME NEW b \in Browsers, Logout(b) PROVE TypeOK'
  BY <1>0, <1>1 DEF Logout, TypeOK
<1>2. ASSUME NEW b \in Browsers, NEW kind \in Kinds, DoLogin(b, kind)
      PROVE  TypeOK'
  <2>1. states' \in 0 .. MaxLogins
    BY <1>0, <1>2, Constants DEF DoLogin, TypeOK
  <2>2. CASE sessions[b] = None
    <3> DEFINE s == [state |-> states', kind |-> kind, user |-> None, as |-> None]
    <3>1. s \in Sessions /\ s.user = None /\ s.as = None
      BY <2>1 DEF Sessions
    <3>2. sessions' = [sessions EXCEPT ![b] = s]
      BY <1>0, <1>2, <2>2 DEF DoLogin
    <3> HIDE DEF s
    <3> QED BY <1>0, <1>2, <2>1, <3>1, <3>2 DEF DoLogin, TypeOK
  <2>3. CASE sessions[b] # None
    <3> DEFINE s == [sessions[b] EXCEPT !.state = states', !.kind = kind]
    <3>1. s \in Sessions /\ (s.user = None <=> s.as = None)
      BY <1>0, <2>1, <2>3, SessionFields DEF Sessions
    <3>2. sessions' = [sessions EXCEPT ![b] = s]
      BY <1>0, <1>2, <2>3 DEF DoLogin
    <3> HIDE DEF s
    <3> QED BY <1>0, <1>2, <2>1, <3>1, <3>2 DEF DoLogin, TypeOK
  <2> QED BY <2>2, <2>3
<1>3. ASSUME NEW r \in Requests, NEW b \in Browsers, NEW x \in Identities,
             Callback(r, b, x)
      PROVE  TypeOK'
  <2>1. CallsOK'
    BY <1>0, <1>3, CallbackKeepsCalls
  <2>2. /\ grantee' \in [1 .. MaxGrants -> Identities \cup {None}]
        /\ live' \subseteq 1 .. MaxGrants /\ grants' \in 0 .. MaxGrants
    <3>1. CASE NoGrant(call'[r])
      BY <1>0, <3>1 DEF NoGrant, TypeOK
    <3>2. CASE Grant(call'[r], x)
      <4>1. grants + 1 \in 1 .. MaxGrants /\ grants + 1 \in 0 .. MaxGrants
        BY <3>2, Constants DEF Grant
      <4> QED BY <1>0, <3>2, <4>1 DEF Grant, TypeOK
    <3> QED BY <1>0, <1>3, <3>1, <3>2, CallbackGrants
  <2> QED BY <1>0, <1>3, <2>1, <2>2 DEF Callback, TypeOK, CallsOK
<1>4. ASSUME NEW r \in Requests, GetUserForCharacter(r) PROVE TypeOK'
  <2>1. CallsOK'
    <3>1. CASE Goto(r, "user")
      BY <1>0, <1>4, <3>1, GotoKeepsCalls DEF GetUserForCharacter, Locations
    <3>2. ASSUME NEW u \in OwnerOf(Me(r)), call' = [call EXCEPT ![r].user = u],
                 pc' = [pc EXCEPT ![r] = "save"]
          PROVE  CallsOK'
      <4>1. pc[r] # "idle"
        BY <1>0, <1>4 DEF GetUserForCharacter
      <4>2. u \in Identities
        BY <1>0, <3>2, <4>1, CallFields DEF OwnerOf, TypeOK
      <4> QED BY <1>0, <3>2, <4>1, <4>2, PickingUserKeepsCalls DEF Locations
    <3> QED BY <1>0, <1>4, <3>1, <3>2 DEF GetUserForCharacter
  <2> QED BY <1>0, <1>4, <2>1 DEF GetUserForCharacter, TypeOK, CallsOK
<1>5. ASSUME NEW r \in Requests, CreateUser(r) PROVE TypeOK'
  <2>1. pc[r] # "idle" /\ Me(r) \in Identities
    BY <1>0, <1>5, CallFields DEF CreateUser
  <2>2. CallsOK'
    <3>1. CASE Finish(r)
      BY <1>0, <3>1, FinishKeepsCalls
    <3>2. CASE /\ call' = [call EXCEPT ![r].user = Me(r)]
               /\ pc' = [pc EXCEPT ![r] = "toon"]
      BY <1>0, <2>1, <3>2, PickingUserKeepsCalls DEF Locations
    <3> QED BY <1>0, <1>5, <3>1, <3>2 DEF CreateUser
  <2> QED BY <1>0, <1>5, <2>1, <2>2 DEF CreateUser, TypeOK, CallsOK
<1>6. ASSUME NEW r \in Requests, FindToon(r) PROVE TypeOK'
  <2>1. CallsOK'
    BY <1>0, <1>6, GotoKeepsCalls, AfterToonKeepsCalls DEF FindToon, Locations
  <2> QED BY <1>0, <1>6, <2>1 DEF FindToon, TypeOK, CallsOK
<1>7. ASSUME NEW r \in Requests, CreateToon(r) PROVE TypeOK'
  <2>1. CallsOK'
    BY <1>0, <1>7, AfterToonKeepsCalls DEF CreateToon
  <2>2. toons' \in [Identities -> Identities \cup {None}]
    BY <1>0, <1>7, CallFields DEF CreateToon, TypeOK
  <2> QED BY <1>0, <1>7, <2>1, <2>2 DEF CreateToon, TypeOK, CallsOK
<1>8. ASSUME NEW r \in Requests, FindScopes(r) PROVE TypeOK'
  <2>1. CallsOK'
    BY <1>0, <1>8, GotoKeepsCalls, FinishKeepsCalls DEF FindScopes, Locations
  <2>2. Me(r) \in Identities
    BY <1>0, <1>8, CallFields DEF FindScopes
  <2> QED BY <1>0, <1>8, <2>1, <2>2 DEF FindScopes, TypeOK, CallsOK
<1>9. ASSUME NEW r \in Requests, StoreToken(r) PROVE TypeOK'
  <2>1. pc[r] # "idle"
    BY <1>0, <1>9 DEF StoreToken
  <2>2. CallsOK'
    BY <1>0, <1>9, <2>1, GotoKeepsCalls, FinishKeepsCalls DEF StoreToken, Locations
  <2>3. CASE Stores(r)
    <3>1. call[r].grant \in 0 .. MaxGrants /\ call[r].grant \in 1 .. MaxGrants
      BY <1>0, <1>9, <2>1, CallFields, Constants
         DEF IInv, CallbackInv, Carries, GrantInv, StoreToken, TypeOK
    <3> QED BY <1>0, <1>9, <2>2, <2>3, <3>1 DEF StoreToken, Stores, TypeOK, CallsOK
  <2>4. CASE UNCHANGED <<scopes, tokens>>
    BY <1>0, <1>9, <2>2, <2>4 DEF StoreToken, TypeOK, CallsOK
  <2> QED BY <1>0, <1>9, <2>3, <2>4 DEF StoreToken
<1>10. ASSUME NEW r \in Requests, SaveSession(r) PROVE TypeOK'
  <2>1. pc[r] = "save" /\ CallsOK'
    BY <1>0, <1>10, FinishKeepsCalls DEF SaveSession
  <2>2. /\ Saved(r) \in Sessions /\ Saved(r).user # None /\ Saved(r).as # None
        /\ call[r].state \in 1 .. MaxLogins /\ call[r].browser \in Browsers
    <3>1. call[r].state # 0 /\ User(r) # None
      BY <2>1 DEF IInv, CallbackInv, Carries
    <3> QED BY <1>0, <2>1, <3>1, CallFields, Constants
            DEF Saved, Sessions, Kinds
  <2> HIDE DEF tables, eve
  <2>3. /\ sessions' \in [Browsers -> Sessions \cup {None}]
        /\ \A b \in Browsers : sessions'[b] # None =>
              (sessions'[b].user = None <=> sessions'[b].as = None)
        /\ used' \subseteq 1 .. MaxLogins
    BY <1>0, <1>10, <2>2 DEF SaveSession, TypeOK
  <2> QED BY <1>0, <1>10, <2>1, <2>3 DEF SaveSession, TypeOK, CallsOK, tables, eve
<1>11. ASSUME NEW g \in 1 .. MaxGrants, Revoke(g) PROVE TypeOK'
  BY <1>0, <1>11 DEF Revoke, TypeOK
<1>12. CASE Restart
  BY <1>0, <1>12 DEF Restart, TypeOK, Locations
<1>13. CASE UNCHANGED vars
  BY <1>0, <1>13 DEF vars, TypeOK
<1> QED BY <1>0, <1>1, <1>2, <1>3, <1>4, <1>5, <1>6, <1>7, <1>8, <1>9, <1>10, <1>11, <1>12,
           <1>13
        DEF Next, Handle
-----------------------------------------------------------------------------
(* What other steps leave alone. *)

(* A toon's row never changes hands. *)
ToonsStay == \A x \in Identities : toons[x] # None => toons'[x] = toons[x]

(* Every step but CreateToon leaves toon alone, and that one inserts. *)
LEMMA NextToonsStay == TypeOK /\ [Next]_vars => ToonsStay
<1> SUFFICES ASSUME TypeOK, [Next]_vars PROVE ToonsStay
  OBVIOUS
<1>1. ASSUME NEW r \in Requests, CreateToon(r) PROVE ToonsStay
  BY <1>1, CallFields DEF CreateToon, Unclaimed, ToonsStay, TypeOK
<1>2. CASE UNCHANGED toons
  BY <1>2 DEF ToonsStay
<1> QED BY <1>1, <1>2
        DEF Next, Handle, Logout, DoLogin, Callback, Revoke, Restart, vars, tables,
            GetUserForCharacter, CreateUser, FindToon, FindScopes, StoreToken,
            SaveSession

(* A callback that does not move goes on knowing what it knows. *)
LEMMA CarriesStays ==
    ASSUME TypeOK, ToonsStay, NEW q \in Requests,
           pc'[q] = pc[q], call'[q] = call[q], pc[q] # "idle", Carries(q)
    PROVE  Carries(q)'
<1>1. Me(q) \in Identities /\ Me(q)' = Me(q) /\ User(q)' = User(q)
  BY CallFields DEF Me, User
<1>2. User(q) # None /\ toons[Me(q)] = User(q) => toons'[Me(q)] = User(q)
  BY <1>1 DEF ToonsStay
<1> QED BY <1>1, <1>2 DEF Carries, OwnAccount

(* A callback that goes to a location, or finishes, is the only one that   *)
(* moves.                                                                  *)
Moves(r) == \A q \in Requests \ {r} : pc'[q] = pc[q] /\ call'[q] = call[q]

LEMMA HandlerMoves ==
    ASSUME TypeOK, NEW r \in Requests, Handle(r)
    PROVE  Moves(r)
BY DEF Handle, GetUserForCharacter, CreateUser, FindToon, CreateToon, FindScopes,
       StoreToken, SaveSession, AfterToon, Goto, Finish, Moves, TypeOK

(* After findOrCreateToon the callback has its toon, or is a "login" that  *)
(* does without.                                                           *)
LEMMA AfterToonCarries ==
    ASSUME TypeOK, ToonsStay, NEW r \in Requests, pc[r] \in {"toon", "link"}, Carries(r),
           NEW found \in BOOLEAN, AfterToon(r, found),
           found => toons'[Me(r)] = User(r)
    PROVE  pc'[r] # "idle" => Carries(r)'
<1> SUFFICES ASSUME pc'[r] # "idle" PROVE Carries(r)'
  OBVIOUS
<1>1. r \in DOMAIN pc /\ r \in DOMAIN call /\ call[r].kind \in Kinds
  BY CallFields DEF TypeOK
<1>2. ~Finish(r)
  BY <1>1 DEF Finish
<1>3. PICK label \in {"save", "scopes"} : Goto(r, label)
  BY <1>2 DEF AfterToon
<1>4. call'[r] = call[r] /\ pc'[r] = label /\ Me(r)' = Me(r) /\ User(r)' = User(r)
  BY <1>1, <1>3 DEF Goto, Me, User
<1>5. CASE call[r].kind = "login"
  <2>1. pc'[r] = "save" /\ User(r) = Me(r)
    BY <1>1, <1>2, <1>5 DEF AfterToon, Goto, Carries
  <2> QED BY <1>4, <2>1 DEF Carries, OwnAccount
<1>6. CASE call[r].kind # "login"
  <2>1. found /\ (label = "scopes" => call[r].kind = "scope")
    BY <1>1, <1>2, <1>4, <1>6 DEF AfterToon, Goto
  <2> QED BY <1>4, <2>1 DEF Carries, OwnAccount
<1> QED BY <1>5, <1>6

LEMMA NextCallbackInv == IInv /\ [Next]_vars => CallbackInv'
<1> SUFFICES ASSUME IInv, [Next]_vars, NEW q \in Requests, pc'[q] # "idle"
             PROVE  Carries(q)'
  BY DEF CallbackInv
<1>0. TypeOK /\ ToonsStay /\ (pc[q] # "idle" => Carries(q))
  BY NextToonsStay DEF IInv, CallbackInv
<1>1. CASE pc'[q] = pc[q] /\ call'[q] = call[q]
  BY <1>0, <1>1, CarriesStays
<1>2. ASSUME NEW b \in Browsers, NEW x \in Identities, Callback(q, b, x)
      PROVE  Carries(q)'
  <2> DEFINE s == sessions[b]
  <2>1. /\ pc'[q] = IF s.kind = "login" THEN "find" ELSE "toon"
        /\ call'[q].kind = s.kind /\ call'[q].state = s.state
        /\ User(q)' = IF s.kind = "login" THEN None ELSE s.user
    BY <1>0, <1>2 DEF Callback, TypeOK, User
  <2>2. s.state # 0 /\ (s.kind # "login" => s.user # None)
    BY <1>2 DEF Callback, LoggedIn
  <2> QED BY <2>1, <2>2 DEF Carries
<1>3. ASSUME Handle(q) PROVE Carries(q)'
  <2>1. q \in DOMAIN pc /\ q \in DOMAIN call
    BY <1>0 DEF TypeOK
  <2>2. pc[q] # "idle" /\ Carries(q) /\ Me(q) \in Identities
    BY <1>0, <1>3, CallFields
       DEF Handle, GetUserForCharacter, CreateUser, FindToon, CreateToon, FindScopes,
           StoreToken, SaveSession
  <2>3. CASE GetUserForCharacter(q)
    <3>1. CASE Goto(q, "user")
      BY <2>1, <2>2, <2>3, <3>1 DEF GetUserForCharacter, Goto, Carries
    <3>2. ASSUME NEW u \in OwnerOf(Me(q)), call' = [call EXCEPT ![q].user = u],
                 pc' = [pc EXCEPT ![q] = "save"]
          PROVE  Carries(q)'
      <4>1. /\ call'[q] = [call[q] EXCEPT !.user = u] /\ pc'[q] = "save"
        BY <2>1, <3>2
      <4>2. call[q] \in Calls
        BY <1>0, <2>2, CallFields
      <4>3. User(q)' = u /\ Me(q)' = Me(q) /\ call'[q].state = call[q].state
        BY <4>1, <4>2 DEF User, Me, Calls
      <4>4. u # None /\ toons[Me(q)] = u /\ toons' = toons
        BY <2>3, <3>2 DEF OwnerOf, GetUserForCharacter, tables
      <4> QED BY <2>2, <4>1, <4>3, <4>4 DEF Carries, OwnAccount
    <3> QED BY <2>3, <3>1, <3>2 DEF GetUserForCharacter
  <2>4. CASE CreateUser(q)
    <3>1. /\ call'[q] = [call[q] EXCEPT !.user = Me(q)] /\ pc'[q] = "toon"
      BY <2>1, <2>4 DEF CreateUser, Finish
    <3>2. call[q] \in Calls
      BY <1>0, <2>2, CallFields
    <3>3. User(q)' = Me(q) /\ Me(q)' = Me(q) /\ call'[q].state = call[q].state
      BY <3>1, <3>2 DEF User, Me, Calls
    <3> QED BY <2>2, <3>1, <3>3, Constants DEF Carries
  <2>5. CASE FindToon(q)
    <3>1. CASE Goto(q, "link")
      BY <2>1, <2>2, <2>5, <3>1 DEF FindToon, Goto, Carries, Me, User
    <3>2. ASSUME NEW found \in BOOLEAN, AfterToon(q, found),
                 found => toons[Me(q)] = User(q)
          PROVE  Carries(q)'
      BY <1>0, <2>2, <2>5, <3>2, AfterToonCarries DEF FindToon, tables
    <3> QED BY <2>5, <3>1, <3>2 DEF FindToon
  <2>6. CASE CreateToon(q)
    <3>1. PICK found \in BOOLEAN :
             AfterToon(q, found) /\ (found => toons'[Me(q)] = User(q))
      BY <1>0, <2>2, <2>6 DEF CreateToon, TypeOK
    <3> QED BY <1>0, <2>2, <2>6, <3>1, AfterToonCarries DEF CreateToon
  <2>7. CASE FindScopes(q)
    BY <2>1, <2>2, <2>7
       DEF FindScopes, Goto, Finish, Carries, OwnAccount, tables, Me, User
  <2>8. CASE StoreToken(q)
    BY <2>1, <2>2, <2>8 DEF StoreToken, Goto, Finish, Carries, OwnAccount, Me, User
  <2>9. CASE SaveSession(q)
    BY <2>1, <2>9 DEF SaveSession, Finish
  <2> QED BY <1>3, <2>3, <2>4, <2>5, <2>6, <2>7, <2>8, <2>9 DEF Handle
<1>4. ASSUME NEW r \in Requests, r # q, Handle(r) PROVE Carries(q)'
  BY <1>0, <1>1, <1>4, HandlerMoves DEF Moves
<1>5. ASSUME NEW r \in Requests, r # q, NEW b \in Browsers, NEW x \in Identities,
             Callback(r, b, x)
      PROVE  Carries(q)'
  BY <1>0, <1>1, <1>5 DEF Callback, TypeOK
<1>6. CASE Restart
  BY <1>6 DEF Restart
<1>7. CASE UNCHANGED <<pc, call>>
  BY <1>1, <1>7
<1> QED BY <1>2, <1>3, <1>4, <1>5, <1>6, <1>7 DEF Next, Logout, DoLogin, Revoke, vars
-----------------------------------------------------------------------------
(* The two invariants themselves. *)

(* A session is what it was, with the user it had, or a callback's, or new *)
(* and without a user.                                                     *)
SameUser(b) ==
    /\ sessions[b] # None /\ sessions'[b] # None
    /\ sessions'[b].user = sessions[b].user /\ sessions'[b].as = sessions[b].as
SavedBy(b, r) ==
    /\ pc[r] = "save"
    /\ sessions'[b].user = User(r) /\ sessions'[b].as = Me(r)

LEMMA SessionEffect ==
    ASSUME TypeOK, [Next]_vars, NEW b \in Browsers, LoggedIn(sessions'[b])
    PROVE  SameUser(b) \/ \E r \in Requests : SavedBy(b, r)
<1>0. b \in DOMAIN sessions
  BY DEF TypeOK
<1>1. sessions' = sessions => SameUser(b)
  BY DEF SameUser, LoggedIn
<1>2. ASSUME NEW c \in Browsers, Logout(c) PROVE SameUser(b)
  BY <1>0, <1>2 DEF Logout, SameUser, LoggedIn
<1>3. ASSUME NEW c \in Browsers, NEW kind \in Kinds, DoLogin(c, kind)
      PROVE  SameUser(b)
  <2>1. CASE c # b
    BY <1>0, <1>3, <2>1 DEF DoLogin, SameUser, LoggedIn
  <2>2. CASE c = b /\ sessions[b] = None
    <3>1. sessions'[b].user = None
      BY <1>0, <1>3, <2>2 DEF DoLogin
    <3> QED BY <3>1 DEF LoggedIn
  <2>3. CASE c = b /\ sessions[b] # None
    <3>1. sessions'[b] = [sessions[b] EXCEPT !.state = states', !.kind = kind]
      BY <1>0, <1>3, <2>3 DEF DoLogin
    <3>2. sessions[b] \in Sessions
      BY <2>3, SessionFields
    <3> QED BY <2>3, <3>1, <3>2 DEF SameUser, Sessions, LoggedIn
  <2> QED BY <2>1, <2>2, <2>3
<1>4. ASSUME NEW r \in Requests, SaveSession(r)
      PROVE  SameUser(b) \/ SavedBy(b, r)
  <2>1. CASE sessions' = [sessions EXCEPT ![call[r].browser] = Saved(r)]
    BY <1>0, <1>4, <2>1 DEF SaveSession, Saved, SavedBy, SameUser, LoggedIn
  <2> QED BY <1>1, <1>4, <2>1 DEF SaveSession
<1>5. CASE Restart
  BY <1>5 DEF Restart, LoggedIn
<1> QED BY <1>1, <1>2, <1>3, <1>4, <1>5
        DEF Next, Handle, Callback, Revoke, vars, GetUserForCharacter, CreateUser,
            FindToon, CreateToon, FindScopes, StoreToken, SavedBy

LEMMA NextSessionInOwnAccount == IInv /\ [Next]_vars => SessionInOwnAccount'
<1> SUFFICES ASSUME IInv, [Next]_vars, NEW b \in Browsers, LoggedIn(sessions'[b])
             PROVE  OwnAccount(sessions[b].user, sessions[b].as)'
  BY DEF SessionInOwnAccount, LoggedIn
<1>0. TypeOK /\ ToonsStay
  BY NextToonsStay DEF IInv
<1>1. CASE SameUser(b)
  <2>1. /\ LoggedIn(sessions[b]) /\ sessions[b].user # None
        /\ OwnAccount(sessions[b].user, sessions[b].as)
    BY <1>1 DEF SameUser, LoggedIn, IInv, SessionInOwnAccount
  <2>2. sessions[b].as \in Identities
    BY <1>0, <1>1, <2>1, SessionFields DEF SameUser
  <2> QED BY <1>0, <1>1, <2>1, <2>2 DEF SameUser, OwnAccount, ToonsStay
<1>2. ASSUME NEW r \in Requests, SavedBy(b, r)
      PROVE  OwnAccount(sessions[b].user, sessions[b].as)'
  <2>1. User(r) # None /\ OwnAccount(User(r), Me(r)) /\ Me(r) \in Identities
    BY <1>0, <1>2, CallFields DEF SavedBy, IInv, CallbackInv, Carries
  <2> QED BY <1>0, <1>2, <2>1 DEF SavedBy, OwnAccount, ToonsStay
<1> QED BY <1>0, <1>1, <1>2, SessionEffect

LEMMA NextGrantInv == IInv /\ [Next]_vars => GrantInv'
<1> SUFFICES ASSUME IInv, [Next]_vars PROVE GrantInv'
  OBVIOUS
<1>0. TypeOK /\ GrantInv
  BY DEF IInv
<1>1. ASSUME NEW r \in Requests, NEW b \in Browsers, NEW x \in Identities,
             Callback(r, b, x)
      PROVE  GrantInv'
  <2>1. \A q \in Requests \ {r} : pc'[q] = pc[q] /\ call'[q] = call[q]
    BY <1>0, <1>1 DEF Callback, TypeOK
  <2>2. Me(r)' = x
    BY <1>0, <1>1 DEF Callback, TypeOK, Me
  <2>3. CASE NoGrant(call'[r])
    BY <1>0, <2>1, <2>3 DEF NoGrant, GrantInv, Me, eve
  <2>4. CASE Grant(call'[r], x)
    <3>1. grants \in Nat /\ grants' = grants + 1 /\ grants' \in 1 .. MaxGrants
      BY <1>0, <2>4 DEF Grant, TypeOK
    <3>2. \A g \in 1 .. MaxGrants : g # grants' => grantee'[g] = grantee[g]
      BY <1>0, <2>4 DEF Grant, TypeOK
    <3>3. \A g \in 1 .. MaxGrants : g > grants' => grantee'[g] = None
      BY <1>0, <3>1, <3>2 DEF GrantInv
    <3>4. call'[r].grant = grants' /\ grantee'[grants'] = x
      BY <1>0, <2>4, <3>1 DEF Grant, TypeOK
    <3>5. ASSUME NEW q \in Requests, pc'[q] # "idle", call'[q].kind = "scope"
          PROVE  /\ call'[q].grant \in 1 .. grants'
                 /\ grantee'[call'[q].grant] = Me(q)'
      <4>1. CASE q = r
        BY <2>2, <3>1, <3>4, <4>1
      <4>2. CASE q # r
        <5>1. /\ call'[q].grant = call[q].grant /\ Me(q)' = Me(q)
              /\ call[q].grant \in 1 .. grants
              /\ grantee[call[q].grant] = Me(q)
          BY <1>0, <2>1, <3>5, <4>2 DEF GrantInv, Me
        <5>2. /\ call[q].grant \in 1 .. grants' /\ call[q].grant # grants'
              /\ call[q].grant \in 1 .. MaxGrants
          BY <3>1, <5>1, Constants
        <5> QED BY <3>2, <5>1, <5>2
      <4> QED BY <4>1, <4>2
    <3> QED BY <3>3, <3>5 DEF GrantInv
  <2> QED BY <1>0, <1>1, <2>3, <2>4, CallbackGrants
<1>2. ASSUME UNCHANGED <<grantee, grants>>,
             \A q \in Requests : pc'[q] # "idle" =>
                 /\ pc[q] # "idle" /\ Me(q)' = Me(q)
                 /\ call'[q].kind = call[q].kind /\ call'[q].grant = call[q].grant
      PROVE  GrantInv'
  BY <1>0, <1>2 DEF GrantInv
<1>3. ASSUME NEW r \in Requests, Handle(r) PROVE GrantInv'
  <2>1. UNCHANGED <<grantee, grants>>
    BY <1>3 DEF Handle, GetUserForCharacter, CreateUser, FindToon, CreateToon,
                FindScopes, StoreToken, SaveSession, eve
  <2>2. pc[r] # "idle" /\ r \in DOMAIN pc /\ r \in DOMAIN call
    BY <1>0, <1>3
       DEF Handle, GetUserForCharacter, CreateUser, FindToon, CreateToon, FindScopes,
           StoreToken, SaveSession, TypeOK
  <2>3. \/ call'[r] = call[r]
        \/ \E u : call'[r] = [call[r] EXCEPT !.user = u]
        \/ pc'[r] = "idle"
    BY <1>3, <2>2
       DEF Handle, GetUserForCharacter, CreateUser, FindToon, CreateToon, FindScopes,
           StoreToken, SaveSession, AfterToon, Goto, Finish
  <2>4. call[r] \in Calls
    BY <1>0, <2>2, CallFields
  <2>5. pc'[r] # "idle" =>
           /\ Me(r)' = Me(r) /\ call'[r].kind = call[r].kind
           /\ call'[r].grant = call[r].grant
    BY <2>3, <2>4 DEF Calls, Me
  <2> QED BY <1>0, <1>2, <1>3, <2>1, <2>2, <2>5, HandlerMoves DEF Moves, Me
<1>4. CASE Restart
  BY <1>2, <1>4 DEF Restart, eve
<1>5. CASE UNCHANGED <<pc, call, grantee, grants>>
  BY <1>2, <1>5 DEF Me
<1> QED BY <1>1, <1>3, <1>4, <1>5
        DEF Next, Logout, DoLogin, Revoke, vars, eve

LEMMA NextScopeHasItsToken == IInv /\ [Next]_vars => ScopeHasItsToken'
<1> SUFFICES ASSUME IInv, [Next]_vars, NEW x \in Identities, scopes'[x] # 0
             PROVE  /\ scopes'[x] \in tokens' /\ grantee'[scopes'[x]] = x
                    /\ toons'[x] # None
  BY DEF ScopeHasItsToken
<1>0. TypeOK /\ ToonsStay /\ GrantInv /\ ScopeHasItsToken
  BY NextToonsStay DEF IInv
<1>1. CASE UNCHANGED <<scopes, tokens>>
  <2>1. scopes[x] \in tokens /\ grantee[scopes[x]] = x /\ toons[x] # None
    BY <1>0, <1>1 DEF ScopeHasItsToken
  <2>2. grantee'[scopes[x]] = grantee[scopes[x]]
    <3>1. ASSUME NEW r \in Requests, NEW b \in Browsers, NEW y \in Identities,
                 Callback(r, b, y)
          PROVE  grantee'[scopes[x]] = grantee[scopes[x]]
      <4>1. CASE Grant(call'[r], y)
        <5>1. scopes[x] # grants + 1
          <6>1. grants \in Nat /\ grants + 1 \in 1 .. MaxGrants /\ x # None
            BY <1>0, <4>1, Constants DEF Grant, TypeOK
          <6>2. grantee[grants + 1] = None
            BY <1>0, <6>1 DEF GrantInv
          <6> QED BY <2>1, <6>1, <6>2
        <5>2. scopes[x] \in DOMAIN grantee
          BY <1>0, <2>1 DEF TypeOK
        <5> QED BY <4>1, <5>1, <5>2 DEF Grant
      <4> QED BY <1>0, <3>1, <4>1, CallbackGrants DEF NoGrant, eve
    <3>2. CASE UNCHANGED grantee
      BY <3>2
    <3> QED BY <3>1, <3>2
            DEF Next, Handle, Logout, DoLogin, Revoke, Restart, vars, eve,
                GetUserForCharacter, CreateUser, FindToon, CreateToon, FindScopes,
                StoreToken, SaveSession
  <2> QED BY <1>0, <1>1, <2>1, <2>2 DEF ToonsStay
<1>2. ASSUME NEW r \in Requests, StoreToken(r), Stores(r)
      PROVE  /\ scopes'[x] \in tokens' /\ grantee'[scopes'[x]] = x
             /\ toons'[x] # None
  <2>1. /\ call[r].kind = "scope" /\ toons[Me(r)] = User(r) /\ User(r) # None
        /\ grantee[call[r].grant] = Me(r)
    BY <1>0, <1>2 DEF IInv, CallbackInv, Carries, GrantInv, StoreToken
  <2>2. UNCHANGED <<toons, grantee>>
    BY <1>2 DEF StoreToken, eve
  <2>3. CASE x = Me(r)
    <3>1. scopes'[x] = call[r].grant /\ tokens' = tokens \cup {call[r].grant}
      BY <1>0, <1>2, <2>3 DEF Stores, TypeOK
    <3> QED BY <2>1, <2>2, <2>3, <3>1
  <2>4. CASE x # Me(r)
    <3>1. scopes'[x] = scopes[x] /\ tokens \subseteq tokens'
      BY <1>0, <1>2, <2>4 DEF Stores, TypeOK
    <3> QED BY <1>0, <2>2, <3>1 DEF ScopeHasItsToken
  <2> QED BY <2>3, <2>4
<1> QED BY <1>1, <1>2
        DEF Next, Handle, Logout, DoLogin, Callback, Revoke, Restart, vars, tables,
            GetUserForCharacter, CreateUser, FindToon, CreateToon, FindScopes,
            StoreToken, SaveSession
-----------------------------------------------------------------------------
(* Callbacks while no statement fails. *)

LEMMA NextUserIsReachable ==
    ASSUME ~Faulty, IInv, UserIsReachable, [Next]_vars
    PROVE  UserIsReachable'
<1> SUFFICES ASSUME NEW x \in users', toons'[x] = None
             PROVE  \E r \in Requests : pc'[r] \in {"toon", "link"} /\ Me(r)' = x
  BY DEF UserIsReachable
<1>0. TypeOK /\ ToonsStay /\ CallbackInv
  BY NextToonsStay DEF IInv
<1>1. ASSUME NEW r \in Requests, CreateUser(r), x \notin users
      PROVE  pc'[r] \in {"toon", "link"} /\ Me(r)' = x
  <2>1. r \in DOMAIN pc /\ r \in DOMAIN call /\ call[r] \in Calls
    BY <1>0, <1>1, CallFields DEF TypeOK, CreateUser
  <2>2. /\ x = Me(r) /\ call' = [call EXCEPT ![r].user = Me(r)]
        /\ pc' = [pc EXCEPT ![r] = "toon"]
    BY <1>1 DEF CreateUser
  <2>3. call'[r] = [call[r] EXCEPT !.user = Me(r)]
    BY <2>1, <2>2
  <2> QED BY <2>1, <2>2, <2>3 DEF Me, Calls
<1>2. CASE x \in users
  <2>1. x \in Identities /\ toons[x] = None
    BY <1>0, <1>2 DEF ToonsStay, TypeOK
  <2>2. PICK r \in Requests : pc[r] \in {"toon", "link"} /\ Me(r) = x
    BY <1>2, <2>1 DEF UserIsReachable
  <2>3. User(r) # None /\ r \in DOMAIN pc
    BY <1>0, <2>2 DEF CallbackInv, Carries, TypeOK
  <2>4. CASE UNCHANGED <<pc[r], call[r]>>
    BY <2>2, <2>4 DEF Me
  <2>5. CASE FindToon(r)
    <3>1. Goto(r, "link")
      BY <2>1, <2>2, <2>3, <2>5 DEF FindToon
    <3> QED BY <2>2, <2>3, <3>1 DEF Goto, Me
  <2>6. CASE CreateToon(r)
    <3>1. toons' = [toons EXCEPT ![x] = User(r)]
      BY <2>1, <2>2, <2>6 DEF CreateToon, Unclaimed
    <3> QED BY <1>0, <2>1, <2>3, <3>1 DEF TypeOK
  <2>7. ASSUME NEW q \in Requests \ {r}, Handle(q) PROVE UNCHANGED <<pc[r], call[r]>>
    BY <1>0, <2>7, HandlerMoves DEF Moves
  <2>8. ASSUME Handle(r) PROVE FindToon(r) \/ CreateToon(r)
    BY <2>2, <2>8 DEF Handle, GetUserForCharacter, CreateUser, FindScopes, StoreToken,
       SaveSession
  <2>9. ASSUME NEW q \in Requests, NEW b \in Browsers, NEW y \in Identities,
               Callback(q, b, y)
        PROVE  UNCHANGED <<pc[r], call[r]>>
    BY <1>0, <2>2, <2>9 DEF Callback, TypeOK
  <2> QED BY <2>4, <2>5, <2>6, <2>7, <2>8, <2>9
          DEF Next, Logout, DoLogin, Revoke, Restart, vars
<1>3. CASE users' = users
  BY <1>2, <1>3
<1> QED BY <1>1, <1>2, <1>3
        DEF Next, Handle, Logout, DoLogin, Callback, Revoke, Restart, vars, tables,
            GetUserForCharacter, FindToon, CreateToon, FindScopes, StoreToken,
            SaveSession
-----------------------------------------------------------------------------
(* However many callbacks run and whatever fails, a toon gets a second     *)
(* token only if it is crossed: any other toon has no token, or the one    *)
(* its scopes name, and at most one callback is about to store one, which  *)
(* found no scopes since when nobody stored any.                           *)
AtMostNamed(x) == TokensOf(x) = IF scopes[x] = 0 THEN {} ELSE {scopes[x]}

OneStores(r) ==
    /\ scopes[Me(r)] = 0
    /\ \A q \in Requests \ {r} : ~(pc[q] = "store" /\ Me(q) = Me(r))

OneToken ==
    /\ \A x \in Identities \ crossed : AtMostNamed(x)
    /\ tokens \subseteq 1 .. grants
    /\ \A r \in Requests : pc[r] = "store" /\ Me(r) \notin crossed => OneStores(r)

LEMMA InitOneToken == Init => OneToken
BY DEF Init, OneToken, AtMostNamed, TokensOf

LEMMA CallbackOneToken ==
    ASSUME IInv, OneToken, NEW r \in Requests, NEW b \in Browsers, NEW x \in Identities,
           Callback(r, b, x)
    PROVE  OneToken'
<1>0. /\ TypeOK /\ tokens' = tokens /\ scopes' = scopes /\ crossed' = crossed
      /\ tokens \subseteq 1 .. grants
  BY DEF IInv, OneToken, Callback, tables, aux
<1>1. /\ \A y \in Identities : TokensOf(y)' = TokensOf(y)
      /\ tokens' \subseteq 1 .. grants'
  <2>1. CASE NoGrant(call'[r])
    BY <1>0, <2>1 DEF NoGrant, eve, TokensOf
  <2>2. CASE Grant(call'[r], x)
    <3>1. grants \in Nat /\ grants' = grants + 1
      BY <1>0, <2>2, Constants DEF Grant, TypeOK
    <3>2. \A g \in tokens : grantee'[g] = grantee[g]
      BY <1>0, <2>2, <3>1 DEF Grant, TypeOK
    <3>3. tokens' \subseteq 1 .. grants'
      BY <1>0, <3>1
    <3>4. ASSUME NEW y \in Identities PROVE TokensOf(y)' = TokensOf(y)
      BY <1>0, <3>2 DEF TokensOf
    <3> QED BY <3>3, <3>4
  <2> QED BY <1>0, <2>1, <2>2, CallbackGrants
<1>2. /\ \A q \in Requests \ {r} : pc'[q] = pc[q] /\ Me(q)' = Me(q)
      /\ pc'[r] # "store"
  BY <1>0 DEF Callback, TypeOK, Me
<1>3. ASSUME NEW q \in Requests, pc'[q] = "store", Me(q)' \notin crossed'
      PROVE  OneStores(q)'
  <2>1. q # r /\ OneStores(q)
    BY <1>0, <1>2, <1>3 DEF OneToken
  <2> QED BY <1>0, <1>2, <2>1 DEF OneStores
<1>4. \A y \in Identities \ crossed' : AtMostNamed(y)'
  BY <1>0, <1>1 DEF OneToken, AtMostNamed
<1> QED BY <1>1, <1>3, <1>4 DEF OneToken

LEMMA FindScopesOneToken ==
    ASSUME IInv, OneToken, NEW r \in Requests, FindScopes(r)
    PROVE  OneToken'
<1>0. /\ TypeOK /\ Me(r) \in Identities /\ UNCHANGED <<tables, eve>>
      /\ r \in DOMAIN pc /\ pc[r] = "scopes" /\ crossed \subseteq crossed'
  BY CallFields DEF IInv, TypeOK, FindScopes
<1>1. \A x \in Identities \ crossed' : AtMostNamed(x)'
  BY <1>0 DEF OneToken, AtMostNamed, TokensOf, tables, eve
<1>2. tokens' \subseteq 1 .. grants'
  BY <1>0 DEF OneToken, tables, eve
<1>3. \A q \in Requests \ {r} : pc'[q] = pc[q] /\ call'[q] = call[q]
  BY <1>0, HandlerMoves DEF Handle, Moves
<1>4. ASSUME pc'[r] = "store"
      PROVE  /\ Me(r)' = Me(r)
             /\ \/ Me(r) \in crossed'
                \/ scopes[Me(r)] = 0 /\ ~AboutToStore(Me(r))
  <2>1. PICK label \in Locations : Goto(r, label)
    BY <1>0, <1>4 DEF FindScopes, Finish, Locations
  <2>2. call' = call /\ label = "store"
    BY <1>0, <1>4, <2>1 DEF Goto
  <2>3. /\ crossed' = crossed \cup {x \in {Me(r)} : AboutToStore(x)} /\ scopes[Me(r)] = 0
        \/ crossed' = crossed \cup {Me(r)}
    BY <1>0, <1>4 DEF FindScopes, HasScopes, Goto, Finish
  <2> QED BY <2>2, <2>3 DEF Me
<1>5. ASSUME NEW q \in Requests, pc'[q] = "store", Me(q)' \notin crossed'
      PROVE  OneStores(q)'
  <2>1. CASE q = r
    <3>1. scopes'[Me(r)'] = 0 /\ Me(r)' = Me(r) /\ ~AboutToStore(Me(r))
      BY <1>0, <1>4, <1>5, <2>1 DEF tables
    <3> QED BY <1>3, <2>1, <3>1 DEF OneStores, AboutToStore, Me
  <2>2. CASE q # r
    <3>1. /\ pc[q] = "store" /\ Me(q)' = Me(q) /\ OneStores(q)
          /\ Me(q) \notin crossed'
      BY <1>0, <1>3, <1>5, <2>2 DEF OneToken, Me
    <3>2. pc'[r] = "store" => Me(r) # Me(q)
      BY <1>4, <3>1 DEF AboutToStore
    <3> QED BY <1>0, <1>3, <1>4, <3>1, <3>2 DEF OneStores, Me, tables
  <2> QED BY <2>1, <2>2
<1> QED BY <1>1, <1>2, <1>5 DEF OneToken

LEMMA StoringOneToken ==
    ASSUME IInv, OneToken, NEW r \in Requests, StoreToken(r), Stores(r)
    PROVE  OneToken'
<1> DEFINE g == call[r].grant
<1>0. /\ TypeOK /\ Me(r) \in Identities /\ UNCHANGED eve /\ crossed' = crossed
      /\ pc[r] = "store" /\ r \in DOMAIN pc
  BY CallFields DEF IInv, StoreToken, TypeOK, aux
<1>1. g \in 1 .. grants /\ grantee[g] = Me(r) /\ g # 0
  BY <1>0 DEF IInv, CallbackInv, Carries, GrantInv
<1>2. /\ scopes' = [scopes EXCEPT ![Me(r)] = g] /\ tokens' = tokens \cup {g}
      /\ grantee' = grantee /\ grants' = grants
  BY <1>0 DEF Stores, eve
<1>3. /\ \A q \in Requests \ {r} : pc'[q] = pc[q] /\ Me(q)' = Me(q)
      /\ pc'[r] # "store"
  BY <1>0, HandlerMoves DEF Handle, Moves, Me, StoreToken, Goto, Finish
<1> HIDE DEF g
<1>4. ASSUME NEW x \in Identities \ crossed' PROVE AtMostNamed(x)'
  <2>1. TokensOf(x)' = TokensOf(x) \cup (IF x = Me(r) THEN {g} ELSE {})
    BY <1>1, <1>2 DEF TokensOf
  <2>2. scopes'[x] = IF x = Me(r) THEN g ELSE scopes[x]
    BY <1>0, <1>2 DEF TypeOK
  <2>3. /\ TokensOf(x) = IF scopes[x] = 0 THEN {} ELSE {scopes[x]}
        /\ x = Me(r) => scopes[x] = 0
    BY <1>0, <1>4 DEF OneToken, AtMostNamed, OneStores
  <2> QED BY <1>1, <2>1, <2>2, <2>3 DEF AtMostNamed
<1>5. ASSUME NEW q \in Requests, pc'[q] = "store", Me(q)' \notin crossed'
      PROVE  OneStores(q)'
  <2>1. q # r /\ OneStores(q) /\ Me(q)' = Me(q)
    BY <1>0, <1>3, <1>5 DEF OneToken
  <2>2. Me(r) # Me(q)
    BY <1>0, <2>1 DEF OneStores
  <2>3. scopes'[Me(q)] = scopes[Me(q)]
    BY <1>0, <1>2, <2>2 DEF TypeOK
  <2> QED BY <1>3, <2>1, <2>3 DEF OneStores
<1>6. tokens' \subseteq 1 .. grants'
  BY <1>1, <1>2 DEF OneToken
<1> QED BY <1>4, <1>5, <1>6 DEF OneToken

LEMMA NextOneToken ==
    ASSUME IInv, OneToken, [Next]_vars
    PROVE  OneToken'
<1>0. TypeOK
  BY DEF IInv
<1>1. ASSUME UNCHANGED <<scopes, tokens, grantee, grants, crossed>>,
             \A q \in Requests : pc'[q] = "store" => pc[q] = "store" /\ Me(q)' = Me(q)
      PROVE  OneToken'
  BY <1>1 DEF OneToken, AtMostNamed, OneStores, TokensOf
<1>2. ASSUME NEW r \in Requests, Handle(r), ~FindScopes(r)
      PROVE  OneToken'
  <2>1. CASE StoreToken(r) /\ Stores(r)
    BY <2>1, StoringOneToken
  <2>2. CASE ~(StoreToken(r) /\ Stores(r))
    <3>1. UNCHANGED <<scopes, tokens, grantee, grants, crossed>>
      BY <1>2, <2>2
         DEF Handle, GetUserForCharacter, CreateUser, FindToon, CreateToon, StoreToken,
             SaveSession, tables, eve, aux
    <3>2. pc'[r] # "store"
      BY <1>0, <1>2
         DEF Handle, GetUserForCharacter, CreateUser, FindToon, CreateToon, StoreToken,
             SaveSession, AfterToon, Goto, Finish, TypeOK
    <3> QED BY <1>0, <1>1, <1>2, <3>1, <3>2, HandlerMoves DEF Moves, Me
  <2> QED BY <2>1, <2>2
<1>3. CASE Restart
  BY <1>1, <1>3 DEF Restart, tables, eve, aux
<1>4. CASE UNCHANGED <<scopes, tokens, grantee, grants, crossed, pc, call>>
  BY <1>1, <1>4 DEF Me
<1> QED BY <1>2, <1>3, <1>4, CallbackOneToken, FindScopesOneToken
        DEF Next, Logout, DoLogin, Revoke, vars, tables, eve, aux
-----------------------------------------------------------------------------
(* While no statement fails, a callback that is about to save found or     *)
(* inserted the toon, or lost the race for it in a "login" that created    *)
(* the user of that name.                                                  *)
HasToon(u, x) == (toons[x] = u) \/ (u = x /\ toons[x] # None)

CallbackHasToon == \A r \in Requests : pc[r] = "save" => HasToon(User(r), Me(r))

LEMMA NextSessionHasToon ==
    ASSUME IInv, CallbackHasToon, SessionHasToon, [Next]_vars
    PROVE  SessionHasToon'
<1> SUFFICES ASSUME NEW b \in Browsers, LoggedIn(sessions'[b])
             PROVE  HasToon(sessions[b].user, sessions[b].as)'
  BY DEF SessionHasToon, LoggedIn, HasToon
<1>0. TypeOK /\ ToonsStay
  BY NextToonsStay DEF IInv
<1>1. CASE SameUser(b)
  <2>1. /\ LoggedIn(sessions[b]) /\ sessions[b].user # None
        /\ HasToon(sessions[b].user, sessions[b].as)
    BY <1>1 DEF SameUser, LoggedIn, SessionHasToon, HasToon
  <2>2. sessions[b].as \in Identities
    BY <1>0, <1>1, <2>1, SessionFields DEF SameUser
  <2> QED BY <1>0, <1>1, <2>1, <2>2 DEF SameUser, HasToon, ToonsStay
<1>2. ASSUME NEW r \in Requests, SavedBy(b, r)
      PROVE  HasToon(sessions[b].user, sessions[b].as)'
  <2>1. User(r) # None /\ HasToon(User(r), Me(r)) /\ Me(r) \in Identities
    BY <1>0, <1>2, CallFields DEF SavedBy, IInv, CallbackInv, Carries, CallbackHasToon
  <2> QED BY <1>0, <1>2, <2>1 DEF SavedBy, HasToon, ToonsStay
<1> QED BY <1>0, <1>1, <1>2, SessionEffect

LEMMA NextCallbackHasToon ==
    ASSUME ~Faulty, IInv, CallbackHasToon, [Next]_vars
    PROVE  CallbackHasToon'
<1> SUFFICES ASSUME NEW r \in Requests, pc'[r] = "save"
             PROVE  HasToon(User(r), Me(r))'
  BY DEF CallbackHasToon
<1>0. TypeOK /\ ToonsStay /\ r \in DOMAIN pc /\ r \in DOMAIN call
  BY NextToonsStay DEF IInv, TypeOK
<1>1. CASE pc'[r] = pc[r] /\ call'[r] = call[r]
  <2>1. HasToon(User(r), Me(r)) /\ Me(r) \in Identities /\ User(r) # None
    BY <1>0, <1>1, CallFields DEF CallbackHasToon, IInv, CallbackInv, Carries
  <2> QED BY <1>0, <1>1, <2>1 DEF HasToon, ToonsStay, User, Me
<1>2. ASSUME Handle(r) PROVE HasToon(User(r), Me(r))'
  <2>1. pc[r] # "idle" /\ Carries(r) /\ Me(r) \in Identities /\ call[r] \in Calls
    BY <1>0, <1>2, CallFields
       DEF Handle, GetUserForCharacter, CreateUser, FindToon, CreateToon, FindScopes,
           StoreToken, SaveSession, IInv, CallbackInv
  <2>2. CASE GetUserForCharacter(r)
    <3>1. PICK u \in OwnerOf(Me(r)) : call' = [call EXCEPT ![r].user = u]
      BY <1>0, <2>2 DEF GetUserForCharacter, Goto
    <3>2. call'[r] = [call[r] EXCEPT !.user = u] /\ toons' = toons
      BY <1>0, <2>2, <3>1 DEF GetUserForCharacter, tables
    <3> QED BY <2>1, <3>2 DEF OwnerOf, HasToon, User, Me, Calls
  <2>3. CASE CreateUser(r)
    BY <1>0, <2>3 DEF CreateUser, Finish
  <2>4. CASE FindToon(r)
    <3>1. /\ toons' = toons /\ toons[Me(r)] = User(r) /\ User(r) # None
          /\ call' = call
      BY <1>0, <2>1, <2>4 DEF FindToon, AfterToon, Goto, Finish, tables, Carries
    <3> QED BY <3>1 DEF HasToon, User, Me
  <2>5. CASE CreateToon(r)
    <3>1. pc[r] = "link" /\ call' = call
      BY <1>0, <2>5 DEF CreateToon, AfterToon, Goto, Finish
    <3>2. CASE toons' = [toons EXCEPT ![Me(r)] = User(r)]
      BY <1>0, <2>1, <3>1, <3>2 DEF HasToon, User, Me, TypeOK
    <3>3. CASE ~Unclaimed(Me(r)) /\ toons' = toons /\ AfterToon(r, FALSE)
      <4>1. call[r].kind = "login"
        BY <1>0, <3>3 DEF AfterToon, Finish
      <4> QED BY <2>1, <3>1, <3>3, <4>1 DEF Unclaimed, Carries, HasToon, User, Me
    <3> QED BY <2>5, <3>2, <3>3 DEF CreateToon
  <2>6. CASE FindScopes(r) \/ StoreToken(r)
    <3>1. call' = call /\ toons' = toons /\ pc[r] \in {"scopes", "store"}
      BY <1>0, <2>6 DEF FindScopes, StoreToken, Goto, Finish, tables
    <3> QED BY <2>1, <3>1 DEF Carries, HasToon, User, Me
  <2>7. CASE SaveSession(r)
    BY <1>0, <2>7 DEF SaveSession, Finish
  <2> QED BY <1>2, <2>2, <2>3, <2>4, <2>5, <2>6, <2>7 DEF Handle
<1>3. ASSUME NEW q \in Requests, q # r, Handle(q)
      PROVE  pc'[r] = pc[r] /\ call'[r] = call[r]
  BY <1>0, <1>3, HandlerMoves DEF Moves
<1>4. ASSUME NEW q \in Requests, NEW b \in Browsers, NEW x \in Identities,
             Callback(q, b, x)
      PROVE  pc'[r] = pc[r] /\ call'[r] = call[r]
  BY <1>0, <1>4 DEF Callback
<1> QED BY <1>1, <1>2, <1>3, <1>4 DEF Next, Logout, DoLogin, Revoke, Restart, vars
-----------------------------------------------------------------------------
(* A state is handed out once: it is in one session, or in callbacks of    *)
(* the one browser it was given to, and no session has it after one of     *)
(* these saved.                                                            *)
Holds(b, s) == sessions[b] # None /\ sessions[b].state = s

FreshSessions ==
    \A b \in Browsers : sessions[b] # None /\ sessions[b].state # 0 =>
        /\ sessions[b].state \in (1 .. states) \ used
        /\ \A c \in Browsers \ {b} : ~Holds(c, sessions[b].state)
FreshCallbacks ==
    \A r \in Requests : pc[r] # "idle" =>
        /\ call[r].state \in 1 .. states
        /\ \A c \in Browsers \ {call[r].browser} : ~Holds(c, call[r].state)
FreshStates == used \subseteq 1 .. states /\ FreshSessions /\ FreshCallbacks

(* Whatever a callback does, its state and its browser stay. *)
LEMMA HandlerKeepsState ==
    ASSUME TypeOK, NEW r \in Requests, Handle(r)
    PROVE  /\ pc[r] # "idle"
           /\ \A q \in Requests : pc'[q] # "idle" =>
                 /\ pc[q] # "idle" /\ call'[q].state = call[q].state
                 /\ call'[q].browser = call[q].browser
<1>1. pc[r] # "idle" /\ r \in DOMAIN pc /\ r \in DOMAIN call
  BY DEF TypeOK, Handle, GetUserForCharacter, CreateUser, FindToon, CreateToon,
         FindScopes, StoreToken, SaveSession
<1>2. \/ call'[r] = call[r]
      \/ \E u : call'[r] = [call[r] EXCEPT !.user = u]
      \/ pc'[r] = "idle"
  BY <1>1 DEF Handle, GetUserForCharacter, CreateUser, FindToon, CreateToon, FindScopes,
              StoreToken, SaveSession, AfterToon, Goto, Finish
<1>3. call[r] \in Calls
  BY <1>1, CallFields
<1>4. pc'[r] # "idle" =>
         call'[r].state = call[r].state /\ call'[r].browser = call[r].browser
  BY <1>2, <1>3 DEF Calls
<1> QED BY <1>1, <1>4, HandlerMoves DEF Moves

LEMMA NextFreshStates ==
    ASSUME IInv, FreshStates, [Next]_vars
    PROVE  FreshStates'
<1>0. TypeOK /\ states \in Nat
  BY Constants DEF IInv, TypeOK
<1>1. ASSUME NEW r \in Requests, NEW b \in Browsers, NEW x \in Identities,
             Callback(r, b, x)
      PROVE  FreshStates'
  <2>1. /\ call'[r].state = sessions[b].state /\ call'[r].browser = b
        /\ sessions[b] # None /\ sessions[b].state # 0
        /\ \A q \in Requests \ {r} : pc'[q] = pc[q] /\ call'[q] = call[q]
        /\ UNCHANGED <<sessions, states, used>>
    BY <1>0, <1>1 DEF Callback, TypeOK, aux
  <2>2. used' \subseteq 1 .. states' /\ FreshSessions'
    BY <2>1 DEF FreshStates, FreshSessions, Holds
  <2>3. ASSUME NEW q \in Requests, pc'[q] # "idle"
        PROVE  /\ call'[q].state \in 1 .. states
               /\ \A c \in Browsers \ {call'[q].browser} : ~Holds(c, call'[q].state)
    BY <2>1, <2>3 DEF FreshStates, FreshSessions, FreshCallbacks
  <2> QED BY <2>1, <2>2, <2>3 DEF FreshStates, FreshCallbacks, Holds
<1>2. ASSUME NEW b \in Browsers, NEW kind \in Kinds, DoLogin(b, kind)
      PROVE  FreshStates'
  <2>1. /\ states' = states + 1 /\ sessions'[b].state = states + 1
        /\ \A c \in Browsers \ {b} : sessions'[c] = sessions[c]
        /\ UNCHANGED <<pc, call, used>>
    <3>1. sessions[b] # None => sessions[b] \in Sessions
      BY <1>0 DEF TypeOK
    <3> QED BY <1>0, <1>2, <3>1 DEF DoLogin, Sessions, TypeOK, aux
  <2>2. /\ used' \subseteq 1 .. states' /\ states + 1 \in (1 .. states') \ used'
        /\ 1 .. states \subseteq 1 .. states' /\ states + 1 # 0
        /\ states + 1 \notin 1 .. states
    BY <1>0, <2>1 DEF FreshStates
  <2>3. \A c \in Browsers \ {b} : ~Holds(c, states + 1)
    BY <2>2 DEF FreshStates, FreshSessions, Holds
  <2>4. FreshSessions'
    <3> SUFFICES ASSUME NEW c \in Browsers, sessions'[c] # None, sessions'[c].state # 0
                 PROVE  /\ sessions'[c].state \in (1 .. states') \ used'
                        /\ \A d \in Browsers \ {c} : ~Holds(d, sessions[c].state)'
      BY DEF FreshSessions, Holds
    <3>1. CASE c = b
      BY <2>1, <2>2, <2>3, <3>1 DEF Holds
    <3>2. CASE c # b
      <4>1. sessions'[c] = sessions[c] /\ sessions[c].state \in (1 .. states) \ used
        BY <2>1, <3>2 DEF FreshStates, FreshSessions
      <4> QED BY <2>1, <2>2, <4>1 DEF FreshStates, FreshSessions, Holds
    <3> QED BY <3>1, <3>2
  <2>5. FreshCallbacks'
    <3> SUFFICES ASSUME NEW q \in Requests, pc[q] # "idle"
                 PROVE  /\ call[q].state \in 1 .. states'
                        /\ \A c \in Browsers \ {call[q].browser} : ~Holds(c, call[q].state)'
      BY <2>1 DEF FreshCallbacks, Holds
    <3>1. /\ call[q].state \in 1 .. states
          /\ \A c \in Browsers \ {call[q].browser} : ~Holds(c, call[q].state)
      BY DEF FreshStates, FreshCallbacks
    <3> QED BY <2>1, <2>2, <3>1 DEF Holds
  <2> QED BY <2>2, <2>4, <2>5 DEF FreshStates
<1>3. ASSUME UNCHANGED <<states, used>>,
             \A b \in Browsers : sessions'[b] = sessions[b] \/ sessions'[b] = None,
             \A q \in Requests : pc'[q] # "idle" =>
                 /\ pc[q] # "idle" /\ call'[q].state = call[q].state
                 /\ call'[q].browser = call[q].browser
      PROVE  FreshStates'
  BY <1>3 DEF FreshStates, FreshSessions, FreshCallbacks, Holds
<1>4. ASSUME NEW r \in Requests, SaveSession(r),
             sessions' = [sessions EXCEPT ![call[r].browser] = Saved(r)],
             used' = used \cup {call[r].state}
      PROVE  FreshStates'
  <2> DEFINE b == call[r].browser
             s == call[r].state
  <2>1. /\ pc[r] # "idle" /\ b \in Browsers
        /\ sessions' = [sessions EXCEPT ![b] = Saved(r)] /\ used' = used \cup {s}
        /\ states' = states
    BY <1>0, <1>4, CallFields DEF SaveSession
  <2>2. /\ sessions'[b].state = 0
        /\ \A c \in Browsers \ {b} : sessions'[c] = sessions[c] /\ ~Holds(c, s)
        /\ s \in 1 .. states /\ 0 \notin 1 .. states
    <3>1. /\ s \in 1 .. states
          /\ \A c \in Browsers \ {b} : ~Holds(c, s)
      BY <2>1 DEF FreshStates, FreshCallbacks
    <3> QED BY <1>0, <2>1, <3>1 DEF TypeOK, Saved
  <2> HIDE DEF b, s
  <2>3. used' \subseteq 1 .. states'
    BY <2>1, <2>2 DEF FreshStates
  <2>4. \A c \in Browsers, n \in 1 .. states : Holds(c, n)' => Holds(c, n)
    BY <2>2 DEF Holds
  <2>5. FreshSessions'
    <3> SUFFICES ASSUME NEW c \in Browsers, sessions'[c] # None, sessions'[c].state # 0
                 PROVE  /\ sessions'[c].state \in (1 .. states') \ used'
                        /\ \A d \in Browsers \ {c} : ~Holds(d, sessions[c].state)'
      BY DEF FreshSessions, Holds
    <3>1. c # b /\ sessions'[c] = sessions[c] /\ ~Holds(c, s)
      BY <2>2
    <3>2. /\ sessions[c].state \in (1 .. states) \ used
          /\ \A d \in Browsers \ {c} : ~Holds(d, sessions[c].state)
      BY <3>1 DEF FreshStates, FreshSessions
    <3> DEFINE n == sessions[c].state
    <3>3. n # s
      BY <3>1 DEF Holds
    <3>4. \A d \in Browsers \ {c} : ~Holds(d, n)'
      BY <2>4, <3>1, <3>2 DEF Holds
    <3> QED BY <2>1, <3>1, <3>2, <3>3, <3>4 DEF Holds
  <2>6. FreshCallbacks'
    <3> SUFFICES ASSUME NEW q \in Requests, pc'[q] # "idle"
                 PROVE  /\ call'[q].state \in 1 .. states'
                        /\ \A c \in Browsers \ {call'[q].browser} : ~Holds(c, call[q].state)'
      BY DEF FreshCallbacks, Holds
    <3>1. /\ pc[q] # "idle" /\ call'[q].state = call[q].state
          /\ call'[q].browser = call[q].browser
      BY <1>0, <1>4, HandlerKeepsState DEF Handle
    <3>2. /\ call[q].state \in 1 .. states
          /\ \A c \in Browsers \ {call[q].browser} : ~Holds(c, call[q].state)
      BY <3>1 DEF FreshStates, FreshCallbacks
    <3> QED BY <2>1, <2>4, <3>1, <3>2 DEF Holds
  <2> QED BY <2>3, <2>5, <2>6 DEF FreshStates
<1>5. ASSUME NEW r \in Requests, Handle(r), UNCHANGED <<sessions, used>>
      PROVE  FreshStates'
  <2>1. states' = states
    BY <1>5 DEF Handle, GetUserForCharacter, CreateUser, FindToon, CreateToon, FindScopes,
                StoreToken, SaveSession
  <2> QED BY <1>0, <1>3, <1>5, <2>1, HandlerKeepsState
<1>6. ASSUME NEW b \in Browsers, Logout(b) PROVE FreshStates'
  BY <1>0, <1>3, <1>6 DEF Logout, TypeOK, aux
<1>7. CASE Restart
  BY <1>3, <1>7 DEF Restart, aux
<1>8. CASE UNCHANGED <<sessions, states, used, pc, call>>
  BY <1>3, <1>8
<1>9. ASSUME NEW r \in Requests, Handle(r) PROVE FreshStates'
  <2>1. CASE SaveSession(r)
    BY <1>4, <1>5, <1>9, <2>1 DEF SaveSession
  <2>2. CASE ~SaveSession(r)
    <3>1. UNCHANGED <<sessions, used>>
      BY <1>9, <2>2 DEF Handle, GetUserForCharacter, CreateUser, FindToon, CreateToon,
                        FindScopes, StoreToken, aux
    <3> QED BY <1>5, <1>9, <3>1
  <2> QED BY <2>1, <2>2
<1> QED BY <1>1, <1>2, <1>6, <1>7, <1>8, <1>9 DEF Next, Revoke, vars, aux
-----------------------------------------------------------------------------
LEMMA Inductive == Spec => []IInv
<1>1. IInv /\ [Next]_vars => IInv'
  BY NextTypeOK, NextCallbackInv, NextSessionInOwnAccount, NextGrantInv,
     NextScopeHasItsToken DEF IInv
<1> QED BY InitIInv, <1>1, PTL DEF Spec

(* The tables, the sessions and the locals of the callbacks keep their     *)
(* types, whatever statements fail.                                        *)
THEOREM TypeCorrect == Spec => []TypeOK
BY Inductive, PTL DEF IInv

(* Nobody's session is in an account that its identity neither created nor *)
(* is linked to, for any number of browsers, callbacks and identities.     *)
THEOREM SessionsAreInOwnAccounts == Spec => []SessionInOwnAccount
BY Inductive, PTL DEF IInv

(* A toon that has its scopes has a refresh token that EVE gave to it.     *)
THEOREM ScopesHaveTheirTokens == Spec => []ScopeHasItsToken
BY Inductive, PTL DEF IInv

(* While no statement fails, nobody is locked out of the account a login   *)
(* created for him, whatever callbacks run at once.                        *)
THEOREM UsersAreReachable == ASSUME ~Faulty PROVE Spec => []UserIsReachable
<1>1. Init => UserIsReachable
  BY DEF Init, UserIsReachable
<1>2. IInv /\ UserIsReachable /\ [Next]_vars => UserIsReachable'
  BY NextUserIsReachable
<1> QED BY <1>1, <1>2, Inductive, PTL DEF Spec

(* However many callbacks run at once and whatever statements fail, the    *)
(* join of getTokenForCharacter (dao.go:81-90) finds the token that the    *)
(* row of scope names, and of a toon that is not crossed no other.         *)
THEOREM JoinedTokensAreNamed == Spec => []TokensAreNamed
<1>1. IInv /\ OneToken /\ [Next]_vars => OneToken'
  BY NextOneToken
<1>2. IInv /\ OneToken => TokensAreNamed
  <2> SUFFICES ASSUME IInv, OneToken, NEW c
               PROVE
                 LET granting == {x \in Identities : Character[x] = c /\ scopes[x] # 0}
                 IN  /\ {scopes[x] : x \in granting} \subseteq getTokenForCharacter(c)
                     /\ \A g \in getTokenForCharacter(c) :
                           /\ g \in tokens
                           /\ \E x \in granting :
                                 grantee[g] = x /\ (x \in crossed \/ g = scopes[x])
    BY DEF TokensAreNamed
  <2> DEFINE granting == {x \in Identities : Character[x] = c /\ scopes[x] # 0}
  <2>1. ASSUME NEW x \in granting
        PROVE  /\ scopes[x] \in TokensOf(x)
               /\ x \in crossed \/ TokensOf(x) = {scopes[x]}
    BY DEF IInv, ScopeHasItsToken, TokensOf, OneToken, AtMostNamed
  <2>2. getTokenForCharacter(c) = UNION {TokensOf(x) : x \in granting}
    BY <2>1 DEF getTokenForCharacter
  <2>3. ASSUME NEW g \in getTokenForCharacter(c)
        PROVE  /\ g \in tokens
               /\ \E x \in granting :
                     grantee[g] = x /\ (x \in crossed \/ g = scopes[x])
    <3>1. PICK x \in granting : g \in TokensOf(x)
      BY <2>2
    <3> QED BY <2>1, <3>1 DEF TokensOf
  <2> QED BY <2>1, <2>2, <2>3
<1> QED BY <1>1, <1>2, InitOneToken, Inductive, PTL DEF Spec

(* While no statement fails, every session's character is linked: to its   *)
(* user, or its user is the one that the character's login created, however *)
(* many callbacks log in, link and buy characters at once.                 *)
THEOREM SessionsHaveToons == ASSUME ~Faulty PROVE Spec => []SessionHasToon
<1>1. Init => CallbackHasToon /\ SessionHasToon
  BY DEF Init, CallbackHasToon, SessionHasToon, LoggedIn
<1>2. IInv /\ CallbackHasToon /\ SessionHasToon /\ [Next]_vars =>
         CallbackHasToon' /\ SessionHasToon'
  BY NextCallbackHasToon, NextSessionHasToon
<1> QED BY <1>1, <1>2, Inductive, PTL DEF Spec

(* However many callbacks run at once, restarts and errors included: a     *)
(* callback that arrives with a state with which another one saved its     *)
(* session does not pass the comparison (auth.go:137).                     *)
THEOREM StatesAreUsedOnce == Spec => StateUsedOnce
<1>1. Init => FreshStates
  BY DEF Init, FreshStates, FreshSessions, FreshCallbacks
<1>2. IInv /\ FreshStates /\ [Next]_vars => FreshStates'
  BY NextFreshStates
<1>3. ASSUME IInv, FreshStates, [Next]_vars,
             NEW r \in Requests, pc[r] = "idle", pc'[r] # "idle"
      PROVE  call'[r].state \notin used
  <2>1. PICK b \in Browsers, x \in Identities : Callback(r, b, x)
    <3>1. TypeOK
      BY <1>3 DEF IInv
    <3>2. ASSUME NEW q \in Requests, Handle(q) PROVE FALSE
      BY <1>3, <3>1, <3>2, HandlerKeepsState
    <3>3. ASSUME NEW q \in Requests, q # r, NEW b \in Browsers, NEW x \in Identities,
                 Callback(q, b, x)
          PROVE  FALSE
      BY <1>3, <3>1, <3>3 DEF Callback, TypeOK
    <3> QED BY <1>3, <3>2, <3>3 DEF Next, Logout, DoLogin, Revoke, Restart, vars
  <2>2. call'[r].state = sessions[b].state /\ sessions[b] # None /\ sessions[b].state # 0
    BY <1>3, <2>1 DEF Callback, IInv, TypeOK
  <2> QED BY <1>3, <2>2 DEF FreshStates, FreshSessions
<1>4. IInv /\ FreshStates /\ [Next]_vars =>
         [\A r \in Requests : pc[r] = "idle" /\ pc'[r] # "idle" =>
             call'[r].state \notin used]_vars
  BY <1>3
<1> QED BY <1>1, <1>2, <1>4, Inductive, PTL DEF Spec, StateUsedOnce

(* How far the failure of GrantIsUsable goes: "scope" succeeds without a   *)
(* token that works only for a toon one of whose tokens was revoked.  Who  *)
(* never revoked any has one that is not, however many callbacks add       *)
(* scopes at once and whatever statements fail.                            *)
UsableUnlessRevoked ==
    [][\A r \in Requests :
         /\ pc[r] \in {"scopes", "store"} /\ pc'[r] = "save"
         /\ call[r].grant \in live /\ TokensOf(Me(r)) \subseteq live
         => \E g \in tokens' : grantee[g] = Me(r) /\ g \in live]_vars

(* addScopes (dao.go:253-290) ends without an error only with a token of   *)
(* the toon in the table: the one its scopes name, or the new one.  The    *)
(* scopes go wrong after a revocation, and in no other way.                *)
THEOREM GrantsAreUsableUnlessRevoked == Spec => UsableUnlessRevoked
<1>1. ASSUME IInv, [Next]_vars, NEW r \in Requests,
             pc[r] \in {"scopes", "store"}, pc'[r] = "save",
             call[r].grant \in live, TokensOf(Me(r)) \subseteq live
      PROVE  \E g \in tokens' : grantee[g] = Me(r) /\ g \in live
  <2>1. FindScopes(r) \/ StoreToken(r)
    <3>1. ASSUME NEW q \in Requests, Handle(q) PROVE q = r
      BY <1>1, <3>1, HandlerMoves DEF Moves, IInv
    <3>2. ASSUME NEW q \in Requests, NEW b \in Browsers, NEW x \in Identities,
                 Callback(q, b, x)
          PROVE  pc'[r] # "save"
      BY <1>1, <3>2 DEF Callback, IInv, TypeOK
    <3>3. Handle(r)
      BY <1>1, <3>1, <3>2 DEF Next, Logout, DoLogin, Revoke, Restart, vars
    <3> QED BY <1>1, <3>3 DEF Handle, GetUserForCharacter, CreateUser, FindToon,
              CreateToon, SaveSession
  <2>2. Me(r) \in Identities /\ pc \in [Requests -> Locations]
    BY <1>1, CallFields DEF IInv, TypeOK
  <2>3. CASE FindScopes(r)
    <3>1. scopes[Me(r)] # 0 /\ tokens' = tokens
      BY <1>1, <2>2, <2>3 DEF FindScopes, HasScopes, Goto, Finish, tables
    <3>2. scopes[Me(r)] \in TokensOf(Me(r))
      BY <1>1, <2>2, <3>1 DEF IInv, ScopeHasItsToken, TokensOf
    <3> QED BY <1>1, <3>1, <3>2 DEF TokensOf
  <2>4. CASE StoreToken(r)
    <3>1. call[r].grant \in tokens'
      BY <1>1, <2>2, <2>4 DEF StoreToken, Stores, Finish
    <3>2. grantee[call[r].grant] = Me(r)
      BY <1>1 DEF IInv, CallbackInv, Carries, GrantInv
    <3> QED BY <1>1, <3>1, <3>2
  <2> QED BY <2>1, <2>3, <2>4
<1>2. IInv /\ [Next]_vars =>
        [\A r \in Requests :
           /\ pc[r] \in {"scopes", "store"} /\ pc'[r] = "save"
           /\ call[r].grant \in live /\ TokensOf(Me(r)) \subseteq live
           => \E g \in tokens' : grantee[g] = Me(r) /\ g \in live]_vars
  BY <1>1
<1> QED BY <1>2, Inductive, PTL DEF Spec, UsableUnlessRevoked
=============================================================================

------------------------------- MODULE Accounts -------------------------------
(***************************************************************************)
(* Logins (auth.go) over the tables user, toon, token and scope (dao.go)   *)
(* and the session store.  An identity is a pair (character_id,            *)
(* owner_hash): a character that is sold gets another hash, and is another *)
(* identity.  The row of user is named by its primary_toon_hash, which is  *)
(* UNIQUE, so a user is the identity that created it.                      *)
(*                                                                         *)
(* A callback is a request of its own.  It works on the session it loaded  *)
(* when it arrived, makes one SQL statement or transaction at a time, and  *)
(* saves the session, over whatever was saved in the meantime, at its end: *)
(*                                                                         *)
(*   find     getUserForCharacter                                          *)
(*   user     createUserWithCharacter: INSERT INTO user                    *)
(*   toon     findOrCreateToon: its SELECT                                 *)
(*   link     findOrCreateToon: INSERT INTO toon                           *)
(*   scopes   addScopes: SELECT of the scopes the toon has                 *)
(*   store    addScopes: the transaction                                   *)
(*   save     session.Save                                                 *)
(*                                                                         *)
(* The only set of scopes ever asked for is that of addScopeToAccount, so  *)
(* a toon has all of them or none.  The whitelist and the level of a       *)
(* session are in Configuration: a refusal changes nothing here, and no    *)
(* action depends on the level.                                            *)
(***************************************************************************)
EXTENDS Naturals

CONSTANTS
    Identities,  \* (character, owner hash) pairs
    Character,   \* [Identities -> characters]
    Browsers,    \* who holds a session cookie
    Requests,    \* slots for callbacks in flight
    None,        \* no user, no identity, no session
    MaxLogins,   \* bound: states handed out by doLogin
    MaxGrants,   \* bound: refresh tokens handed out by EVE
    Faulty       \* statements may fail and the process may stop

VARIABLES
    users,       \* SUBSET Identities: rows of user
    toons,       \* [Identities -> Identities \cup {None}]: toon.user_id
    scopes,      \* [Identities -> 0..MaxGrants]: scope.token_id, 0 if no row
    tokens,      \* SUBSET 1..MaxGrants: rows of token
    grantee,     \* [1..MaxGrants -> Identities \cup {None}]: who got which
    live,        \* SUBSET 1..MaxGrants: not revoked at EVE
    sessions,    \* [Browsers -> Sessions \cup {None}]: the session files
    states,      \* how many states doLogin has handed out
    grants,      \* how many refresh tokens EVE has handed out
    pc,          \* [Requests -> Locations]
    call,        \* [Requests -> Calls \cup {None}]: the callback's locals
    used,        \* auxiliary: states whose callback has saved its session
    crossed      \* auxiliary: toons for which a callback went to store a
                 \* token while another was about to, or without having read
                 \* the scopes

tables == <<users, toons, scopes, tokens>>
eve == <<grantee, live, grants>>
aux == <<used, crossed>>
vars == <<tables, eve, sessions, states, pc, call, aux>>

Kinds == {"login", "add", "scope"}
Locations == {"idle", "find", "user", "toon", "link", "scopes", "store", "save"}

(* What a session holds of a login under way (state 0: none, and kind says *)
(* nothing) and of the user.                                               *)
Sessions == [state : 0 .. MaxLogins, kind : Kinds,
             user : Identities \cup {None}, as : Identities \cup {None}]
Calls == [kind : Kinds, browser : Browsers, state : 0 .. MaxLogins,
          as : Identities, user : Identities \cup {None}, grant : 0 .. MaxGrants]

ASSUME Constants ==
    /\ None \notin Identities \cup Sessions \cup Calls
    /\ MaxLogins \in Nat /\ MaxGrants \in Nat
    /\ Faulty \in BOOLEAN

TypeOK ==
    /\ users \subseteq Identities
    /\ toons \in [Identities -> Identities \cup {None}]
    /\ scopes \in [Identities -> 0 .. MaxGrants]
    /\ tokens \subseteq 1 .. MaxGrants /\ live \subseteq 1 .. MaxGrants
    /\ grantee \in [1 .. MaxGrants -> Identities \cup {None}]
    /\ sessions \in [Browsers -> Sessions \cup {None}]
    /\ \A b \in Browsers : sessions[b] # None =>
          (sessions[b].user = None <=> sessions[b].as = None)
    /\ states \in 0 .. MaxLogins /\ grants \in 0 .. MaxGrants
    /\ pc \in [Requests -> Locations]
    /\ call \in [Requests -> Calls \cup {None}]
    /\ \A r \in Requests : call[r] = None <=> pc[r] = "idle"
    /\ used \subseteq 1 .. MaxLogins /\ crossed \subseteq Identities

Init ==
    /\ users = {}
    /\ toons = [x \in Identities |-> None]
    /\ scopes = [x \in Identities |-> 0]
    /\ tokens = {}
    /\ grantee = [g \in 1 .. MaxGrants |-> None] /\ live = {} /\ grants = 0
    /\ sessions = [b \in Browsers |-> None]
    /\ states = 0
    /\ pc = [r \in Requests |-> "idle"]
    /\ call = [r \in Requests |-> None]
    /\ used = {} /\ crossed = {}
-----------------------------------------------------------------------------
Me(r) == call[r].as
User(r) == call[r].user
LoggedIn(s) == s # None /\ s.user # None

Goto(r, label) == pc' = [pc EXCEPT ![r] = label] /\ UNCHANGED call
Finish(r) ==
    /\ pc' = [pc EXCEPT ![r] = "idle"]
    /\ call' = [call EXCEPT ![r] = None]

(* doLogin without a code: the session gets a fresh state.  "add" and      *)
(* "scope" need a session, though not one that is logged in.               *)
DoLogin(b, kind) ==
    /\ states < MaxLogins
    /\ kind # "login" => sessions[b] # None
    /\ states' = states + 1
    /\ sessions' = [sessions EXCEPT ![b] =
          IF @ = None
             THEN [state |-> states', kind |-> kind, user |-> None, as |-> None]
             ELSE [@ EXCEPT !.state = states', !.kind = kind]]
    /\ UNCHANGED <<tables, eve, pc, call, aux>>

Logout(b) ==
    /\ sessions[b] # None
    /\ sessions' = [sessions EXCEPT ![b] = None]
    /\ UNCHANGED <<tables, eve, states, pc, call, aux>>

(* doLogin with a code, and callback up to its first statement: EVE sends  *)
(* the browser back with the state it was given and an authenticated       *)
(* identity.  A session without a state makes callback panic, which        *)
(* net/http recovers; that, another state than the session's, a refusal by *)
(* EVE or by the whitelist, and "add" or "scope" without a user change     *)
(* nothing: not even the session is saved.                                 *)
Callback(r, b, x) ==
    LET s == sessions[b]
        first == IF s.kind = "login" THEN "find" ELSE "toon"
        new == IF s.kind = "scope" THEN grants + 1 ELSE 0
    IN
    /\ pc[r] = "idle"
    /\ s # None /\ s.state # 0
    /\ s.kind # "login" => LoggedIn(s)
    /\ new <= MaxGrants
    /\ call' = [call EXCEPT ![r] =
          [kind |-> s.kind, browser |-> b, state |-> s.state, as |-> x,
           user |-> IF s.kind = "login" THEN None ELSE s.user, grant |-> new]]
    /\ pc' = [pc EXCEPT ![r] = first]
    /\ IF new = 0
          THEN UNCHANGED <<grantee, live, grants>>
          ELSE /\ grantee' = [grantee EXCEPT ![new] = x]
               /\ live' = live \cup {new}
               /\ grants' = new
    /\ UNCHANGED <<tables, sessions, states, aux>>

(* The owner, or EVE, revokes a refresh token. *)
Revoke(g) ==
    /\ g \in live
    /\ live' = live \ {g}
    /\ UNCHANGED <<tables, grantee, grants, sessions, states, pc, call, aux>>
-----------------------------------------------------------------------------
(* getUserForCharacter takes an error for "no such toon". *)
OwnerByCharacter(x) ==                  \* mutant: owner_hash is not compared
    {toons[y] : y \in {z \in Identities : /\ Character[z] = Character[x]
                                          /\ toons[z] # None}}
OwnerOf(x) == {toons[x]} \ {None}

GetUserForCharacter(r) ==
    /\ pc[r] = "find"
    /\ \/ \E u \in OwnerOf(Me(r)) :
             /\ call' = [call EXCEPT ![r].user = u]
             /\ pc' = [pc EXCEPT ![r] = "save"]
       \/ (OwnerOf(Me(r)) = {} \/ Faulty) /\ Goto(r, "user")
    /\ UNCHANGED <<tables, eve, sessions, states, aux>>

(* INSERT INTO user: primary_toon_hash is UNIQUE.  The callback gives up   *)
(* on an error, one reported after the row was inserted included.          *)
CreatesNoToon(r) ==                     \* mutant: findOrCreateToon is not called
    /\ pc[r] = "user"
    /\ \/ /\ Me(r) \notin users
          /\ users' = users \cup {Me(r)}
          /\ call' = [call EXCEPT ![r].user = Me(r)]
          /\ pc' = [pc EXCEPT ![r] = "save"]
       \/ Me(r) \in users /\ Finish(r) /\ UNCHANGED users
    /\ UNCHANGED <<toons, scopes, tokens, eve, sessions, states, aux>>

GoesOnWithoutUser(r) ==                 \* mutant: no return after the error
    /\ pc[r] = "user"
    /\ \/ /\ Me(r) \notin users
          /\ users' = users \cup {Me(r)}
          /\ call' = [call EXCEPT ![r].user = Me(r)]
          /\ pc' = [pc EXCEPT ![r] = "toon"]
       \/ (Me(r) \in users \/ Faulty) /\ Goto(r, "save") /\ UNCHANGED users
    /\ UNCHANGED <<toons, scopes, tokens, eve, sessions, states, aux>>

CreateUser(r) ==
    /\ pc[r] = "user"
    /\ \/ /\ Me(r) \notin users
          /\ users' = users \cup {Me(r)}
          /\ \/ /\ call' = [call EXCEPT ![r].user = Me(r)]
                /\ pc' = [pc EXCEPT ![r] = "toon"]
             \/ Faulty /\ Finish(r)
       \/ (Me(r) \in users \/ Faulty) /\ Finish(r) /\ UNCHANGED users
    /\ UNCHANGED <<toons, scopes, tokens, eve, sessions, states, aux>>

(* What follows findOrCreateToon: "login" ignores that there is no toon. *)
AfterToon(r, found) ==
    \/ call[r].kind = "login" /\ Goto(r, "save")
    \/ call[r].kind # "login" /\ ~found /\ Finish(r)
    \/ call[r].kind = "add" /\ found /\ Goto(r, "save")
    \/ call[r].kind = "scope" /\ found /\ Goto(r, "scopes")

FindToon(r) ==
    /\ pc[r] = "toon"
    /\ \/ toons[Me(r)] = User(r) /\ AfterToon(r, TRUE)
       \/ toons[Me(r)] # User(r) /\ Goto(r, "link")
       \/ Faulty /\ AfterToon(r, FALSE)
    /\ UNCHANGED <<tables, eve, sessions, states, aux>>

(* INSERT INTO toon: (character_id, owner_hash) is the primary key. *)
TakesOver(x) == TRUE                    \* mutant: the key includes user_id
Unclaimed(x) == toons[x] = None

CreateToon(r) ==
    /\ pc[r] = "link"
    /\ \/ /\ Unclaimed(Me(r))
          /\ toons' = [toons EXCEPT ![Me(r)] = User(r)]
          /\ AfterToon(r, TRUE) \/ (Faulty /\ AfterToon(r, FALSE))
       \/ /\ ~Unclaimed(Me(r)) \/ Faulty
          /\ UNCHANGED toons
          /\ AfterToon(r, FALSE)
    /\ UNCHANGED <<users, scopes, tokens, eve, sessions, states, aux>>

(* addScopes: with all scopes there the new token is dropped.  An error    *)
(* while the rows are read is only logged, and scopes that were not read   *)
(* are taken not to be there.                                              *)
NeverHasScopes(r) == FALSE              \* mutant: the scopes are not looked up
HasScopes(r) == scopes[Me(r)] # 0

AboutToStore(x) == \E q \in Requests : pc[q] = "store" /\ Me(q) = x

FindScopes(r) ==
    /\ pc[r] = "scopes"
    /\ \/ HasScopes(r) /\ Goto(r, "save") /\ UNCHANGED crossed
       \/ /\ ~HasScopes(r) /\ Goto(r, "store")
          /\ crossed' = crossed \cup {x \in {Me(r)} : AboutToStore(x)}
       \/ Faulty /\ Goto(r, "store") /\ crossed' = crossed \cup {Me(r)}
       \/ Faulty /\ Finish(r) /\ UNCHANGED crossed
    /\ UNCHANGED <<tables, eve, sessions, states, used>>

(* INSERT INTO token and INSERT INTO scope ... ON DUPLICATE KEY UPDATE     *)
(* token_id, in one transaction.                                           *)
StoresScopeOnly(r) ==                   \* mutant: scope before, and without, token
    scopes' = [scopes EXCEPT ![Me(r)] = call[r].grant] /\ UNCHANGED tokens
Stores(r) ==
    /\ scopes' = [scopes EXCEPT ![Me(r)] = call[r].grant]
    /\ tokens' = tokens \cup {call[r].grant}

StoreToken(r) ==
    /\ pc[r] = "store"
    /\ \/ Stores(r) /\ (Goto(r, "save") \/ (Faulty /\ Finish(r)))
       \/ Faulty /\ UNCHANGED <<scopes, tokens>> /\ Finish(r)
    /\ UNCHANGED <<users, toons, eve, sessions, states, aux>>

(* The session the callback loaded, without its state and with the user,   *)
(* replaces the one in the store.  An error leaves the store as it was.    *)
KeepsState(r) ==                        \* mutant: the state is not deleted
    [state |-> call[r].state, kind |-> "login", user |-> User(r), as |-> Me(r)]
Saved(r) == [state |-> 0, kind |-> "login", user |-> User(r), as |-> Me(r)]

SaveSession(r) ==
    /\ pc[r] = "save"
    /\ \/ /\ sessions' = [sessions EXCEPT ![call[r].browser] = Saved(r)]
          /\ used' = used \cup {call[r].state}
       \/ Faulty /\ UNCHANGED <<sessions, used>>
    /\ Finish(r)
    /\ UNCHANGED <<tables, eve, states, crossed>>

(* The process stops and starts again.  The cookie keys are random, so no  *)
(* cookie opens an old session; what is in the database stays.             *)
Restart ==
    /\ Faulty
    /\ sessions' = [b \in Browsers |-> None]
    /\ pc' = [r \in Requests |-> "idle"]
    /\ call' = [r \in Requests |-> None]
    /\ UNCHANGED <<tables, eve, states, aux>>

Handle(r) ==
    \/ GetUserForCharacter(r) \/ CreateUser(r) \/ FindToon(r) \/ CreateToon(r)
    \/ FindScopes(r) \/ StoreToken(r) \/ SaveSession(r)

Next ==
    \/ \E b \in Browsers : Logout(b) \/ \E kind \in Kinds : DoLogin(b, kind)
    \/ \E r \in Requests, b \in Browsers, x \in Identities : Callback(r, b, x)
    \/ \E r \in Requests : Handle(r)
    \/ \E g \in 1 .. MaxGrants : Revoke(g)
    \/ Restart

Spec == Init /\ [][Next]_vars
-----------------------------------------------------------------------------
(* getTokenForCharacter joins scope with toon and with token, on toon_id:  *)
(* scope.token_id plays no part.  Its rows come in no order, and           *)
(* getAdminToken takes the first.  0 is the NULL of a toon without token.  *)
TokensOf(x) == {g \in tokens : grantee[g] = x}

getTokenForCharacter(c) ==
    LET Granting == {x \in Identities : Character[x] = c /\ scopes[x] # 0}
    IN UNION {IF TokensOf(x) = {} THEN {0} ELSE TokensOf(x) : x \in Granting}
-----------------------------------------------------------------------------
(* A session is in the name of an identity, and its user is one which that *)
(* identity created, or to which it is linked: whatever logins, links,     *)
(* sales of characters, errors and restarts come together, nobody ends in  *)
(* an account that was never his.  It rests on the owner hash in           *)
(* getUserForCharacter and on both unique keys (20250108_users.sql:8,18).  *)
OwnAccount(u, x) == u = x \/ toons[x] = u

SessionInOwnAccount ==
    \A b \in Browsers : LoggedIn(sessions[b]) =>
        OwnAccount(sessions[b].user, sessions[b].as)

(* A toon that has its scopes has them with a refresh token that is in the *)
(* table and that EVE gave to this very toon, and the toon has a user:     *)
(* what getTokenForCharacter joins on toon_id exists, and is not another   *)
(* character's, although the browser may begin another login in between.   *)
ScopeHasItsToken ==
    \A x \in Identities : scopes[x] # 0 =>
        /\ scopes[x] \in tokens /\ grantee[scopes[x]] = x
        /\ toons[x] # None

(* The rows in which the admin's token is looked for (dao.go:77): of each  *)
(* toon of the character with scopes, the token that the scopes name is    *)
(* among them, and what else is among them EVE gave to one of these toons. *)
(* The named token is the toon's only one, although the join never looks   *)
(* at token_id, unless two callbacks both found no scopes or one could not *)
(* read them.                                                              *)
TokensAreNamed ==
    \A c \in {Character[x] : x \in Identities} :
        LET granting == {x \in Identities : Character[x] = c /\ scopes[x] # 0}
        IN  /\ {scopes[x] : x \in granting} \subseteq getTokenForCharacter(c)
            /\ \A g \in getTokenForCharacter(c) :
                  /\ g \in tokens
                  /\ \E x \in granting :
                        grantee[g] = x /\ (x \in crossed \/ g = scopes[x])

(* A user that was created by a login can be logged into again: its        *)
(* identity is linked to some user, or the login that created it is about  *)
(* to link it.                                                             *)
UserIsReachable ==
    \A x \in users :
        \/ toons[x] # None
        \/ \E r \in Requests : pc[r] \in {"toon", "link"} /\ Me(r) = x

(* While no statement fails, a session's character is linked to a user: to *)
(* the session's own, or, if that is the user which the character's login  *)
(* created, perhaps to another whose "add" came between the INSERTs of     *)
(* user and toon (dao.go:147-168).                                         *)
SessionHasToon ==
    \A b \in Browsers : LoggedIn(sessions[b]) =>
        LET s == sessions[b] IN
        \/ toons[s.as] = s.user
        \/ s.user = s.as /\ toons[s.as] # None

(* A state is good for one login: once a callback has saved its session,   *)
(* no callback that comes later gets past the comparison (auth.go:137)     *)
(* with the same state.  Callbacks that got past it before are all let     *)
(* through.                                                                *)
StateUsedOnce ==
    [][\A r \in Requests : pc[r] = "idle" /\ pc'[r] # "idle" =>
         call'[r].state \notin used]_vars

(* "director login", "create rows with refresh token" (auth.go:340,351):   *)
(* when "scope" is about to succeed, and the token EVE just gave is not    *)
(* revoked, the table has a token of the toon that is not revoked either.  *)
GrantIsUsable ==
    [][\A r \in Requests :
         /\ pc[r] \in {"scopes", "store"} /\ pc'[r] = "save"
         /\ call[r].grant \in live
         => \E g \in tokens' : grantee[g] = Me(r) /\ g \in live]_vars
=============================================================================

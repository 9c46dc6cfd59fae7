---------------------------- MODULE Configuration ----------------------------
(***************************************************************************)
(* The configuration (appConfig) and who it lets in: its row in the        *)
(* database, app.config in memory, postConfig (api.go), which writes one   *)
(* and then the other, and the callbacks of logins (auth.go), which read   *)
(* app.config once for every list and field they need, without a lock.     *)
(*                                                                         *)
(* A callback reads                                                        *)
(*   alliances     len(AllianceWhitelist) > 0                              *)
(*   corporations  len(CorporationWhitelist) > 0                           *)
(*   ally          Contains(AllianceWhitelist, AllianceId)                 *)
(*   colleague     Contains(CorporationWhitelist, CorporationId)           *)
(*   level         AdminCorp                                               *)
(* and saves the session (save).  postConfig is before its UPDATE (write)  *)
(* or before app.config = newConfig (assign).                              *)
(*                                                                         *)
(* app.config is one word: a read sees one configuration or another, never *)
(* half of each.  Users, toons, and the state of a login are in Accounts.  *)
(***************************************************************************)
EXTENDS Naturals

CONSTANTS
    Characters,
    Corporations,
    Alliance,    \* [Corporations -> alliances]
    Configs,     \* the configurations that may be posted
    Browsers,    \* who holds a session cookie
    Requests,    \* slots for callbacks and posts in flight
    None         \* no session, no call, no character

VARIABLES
    row,         \* what table config holds
    config,      \* app.config
    corporation, \* [Characters -> Corporations]: at EVE, at this moment
    sessions,    \* [Browsers -> Sessions \cup {None}]
    pc,          \* [Requests -> Locations]
    call,        \* [Requests -> Logins \cup Posts \cup {None}]: locals
    named,       \* auxiliary: each AdminCorp of app.config since the start
    crossed      \* auxiliary: row was written while another post was about
                 \* to assign, or by an UPDATE that was reported as failed

vars == <<row, config, corporation, sessions, pc, call, named, crossed>>

Authorized == 1
Worker == 2
Admin == 3
Levels == {Authorized, Worker, Admin}

Checks == {"alliances", "corporations", "ally", "colleague"}
Locations == Checks \cup {"idle", "level", "save", "write", "assign"}

(* corp is the corporation EVE gave when the session was made. *)
Sessions == [as : Characters, corp : Corporations, level : Levels]

(* during is auxiliary: what app.config was since the callback's first read. *)
Logins == [browser : Browsers, as : Characters, corp : Corporations,
           level : Levels, during : SUBSET Configs]
Posts == [corp : Corporations, new : Configs]

ASSUME Constants ==
    /\ Configs \subseteq
         [alliances : SUBSET {Alliance[c] : c \in Corporations},
          corporations : SUBSET Corporations, adminCorp : Corporations]
    /\ None \notin Sessions \cup Logins \cup Posts \cup Characters

TypeOK ==
    /\ row \in Configs /\ config \in Configs
    /\ corporation \in [Characters -> Corporations]
    /\ sessions \in [Browsers -> Sessions \cup {None}]
    /\ pc \in [Requests -> Locations]
    /\ \A r \in Requests :
          /\ pc[r] = "idle" => call[r] = None
          /\ pc[r] \in Checks \cup {"level", "save"} => call[r] \in Logins
          /\ pc[r] \in {"write", "assign"} => call[r] \in Posts
    /\ DOMAIN call = Requests
    /\ named \subseteq Corporations
    /\ crossed \in BOOLEAN

Goto(r, label) == pc' = [pc EXCEPT ![r] = label] /\ UNCHANGED call
Return(r) ==
    /\ pc' = [pc EXCEPT ![r] = "idle"]
    /\ call' = [call EXCEPT ![r] = None]

(* loadAppConfig: the process starts with what the row holds. *)
Init ==
    /\ row \in Configs /\ config = row
    /\ corporation \in [Characters -> Corporations]
    /\ sessions = [b \in Browsers |-> None]
    /\ pc = [r \in Requests |-> "idle"]
    /\ call = [r \in Requests |-> None]
    /\ named = {config.adminCorp}
    /\ crossed = FALSE
-----------------------------------------------------------------------------
(* VerifyTokenClaims hands over the character of a token that EVE signed   *)
(* for this application and that has a subject, a name, and an owner.  A   *)
(* subject that ends in no number is character 0, which EVE does not know. *)
Subjects == Characters \cup {"EVE:CHARACTER:"}
CharacterId(subject) == IF subject \in Characters THEN subject ELSE None

Callback(r, b, subject) ==
    LET x == CharacterId(subject) IN
    /\ pc[r] = "idle"
    /\ x # None
    /\ call' = [call EXCEPT ![r] =
                  [browser |-> b, as |-> x, corp |-> corporation[x],
                   level |-> Authorized, during |-> {config}]]
    /\ pc' = [pc EXCEPT ![r] = "alliances"]
    /\ UNCHANGED <<row, config, corporation, sessions, named, crossed>>

HasAllianceWhitelist(r) ==
    /\ pc[r] = "alliances"
    /\ Goto(r, IF config.alliances # {} THEN "ally" ELSE "corporations")
    /\ UNCHANGED <<row, config, corporation, sessions, named, crossed>>

(* "no alliance or corp whitelist has been set, let anyone login" *)
IgnoresCorporations(r) ==                \* mutant: the second list is not asked
    pc[r] = "corporations" /\ Goto(r, "level")
    /\ UNCHANGED <<row, config, corporation, sessions, named, crossed>>
HasCorporationWhitelist(r) ==
    /\ pc[r] = "corporations"
    /\ Goto(r, IF config.corporations # {} THEN "ally" ELSE "level")
    /\ UNCHANGED <<row, config, corporation, sessions, named, crossed>>

InAlliance(r) ==
    /\ pc[r] = "ally"
    /\ Goto(r, IF Alliance[call[r].corp] \in config.alliances
                  THEN "level" ELSE "colleague")
    /\ UNCHANGED <<row, config, corporation, sessions, named, crossed>>

InCorporation(r) ==
    /\ pc[r] = "colleague"
    /\ \/ call[r].corp \in config.corporations /\ Goto(r, "level")
       \/ call[r].corp \notin config.corporations /\ Return(r)
    /\ UNCHANGED <<row, config, corporation, sessions, named, crossed>>

(* The statements of Accounts come between these two reads; the callback   *)
(* may give up there. *)
NoLevel(corp) ==                         \* mutant: Level is left at zero
    IF corp = config.adminCorp THEN Admin ELSE 0
LevelOf(corp) == IF corp = config.adminCorp THEN Admin ELSE Authorized

GetLevel(r) ==
    /\ pc[r] = "level"
    /\ \/ /\ call' = [call EXCEPT ![r].level = LevelOf(call[r].corp)]
          /\ pc' = [pc EXCEPT ![r] = "save"]
       \/ Return(r)
    /\ UNCHANGED <<row, config, corporation, sessions, named, crossed>>

SaveSession(r) ==
    /\ pc[r] = "save"
    /\ \/ sessions' = [sessions EXCEPT ![call[r].browser] =
             [as |-> call[r].as, corp |-> call[r].corp, level |-> call[r].level]]
       \/ UNCHANGED sessions
    /\ Return(r)
    /\ UNCHANGED <<row, config, corporation, named, crossed>>

Logout(b) ==
    /\ sessions[b] # None
    /\ sessions' = [sessions EXCEPT ![b] = None]
    /\ UNCHANGED <<row, config, corporation, pc, call, named, crossed>>
-----------------------------------------------------------------------------
(* authMiddlewareFactory: the level is that of the session, as it was saved. *)
LoggedInOnly(b, required) == sessions[b] # None  \* mutant: the level is not compared
Permitted(b, required) == sessions[b] # None /\ sessions[b].level >= required

PostConfig(r, b, new) ==
    /\ pc[r] = "idle"
    /\ Permitted(b, Worker)
    /\ call' = [call EXCEPT ![r] = [corp |-> sessions[b].corp, new |-> new]]
    /\ pc' = [pc EXCEPT ![r] = "write"]
    /\ UNCHANGED <<row, config, corporation, sessions, named, crossed>>

(* updateConfig: an error ends the request, and the row may have changed   *)
(* all the same. *)
AssignsAnyway(r) ==                      \* mutant: no return after the error
    /\ pc[r] = "write"
    /\ \/ row' = call[r].new
       \/ UNCHANGED row
    /\ crossed' = (\E q \in Requests \ {r} : pc[q] = "assign")
    /\ Goto(r, "assign")
    /\ UNCHANGED <<config, corporation, sessions, named>>

UpdateConfig(r) ==
    /\ pc[r] = "write"
    /\ \/ /\ row' = call[r].new
          /\ \/ /\ Goto(r, "assign")
                /\ crossed' = (\E q \in Requests \ {r} : pc[q] = "assign")
             \/ Return(r) /\ crossed' = TRUE
       \/ Return(r) /\ UNCHANGED <<row, crossed>>
    /\ UNCHANGED <<config, corporation, sessions, named>>

AssignConfig(r) ==
    /\ pc[r] = "assign"
    /\ config' = call[r].new
    /\ named' = named \cup {call[r].new.adminCorp}
    /\ pc' = [pc EXCEPT ![r] = "idle"]
    /\ call' = [q \in Requests |->
                  IF q = r THEN None
                  ELSE IF pc[q] \in Checks
                  THEN [call[q] EXCEPT !.during = @ \cup {call[r].new}]
                  ELSE call[q]]
    /\ UNCHANGED <<row, corporation, sessions, crossed>>

(* A character changes its corporation. *)
Move(x, c) ==
    /\ corporation[x] # c
    /\ corporation' = [corporation EXCEPT ![x] = c]
    /\ UNCHANGED <<row, config, sessions, pc, call, named, crossed>>

(* The process stops and starts again; no cookie opens an old session. *)
Restart ==
    /\ config' = row
    /\ sessions' = [b \in Browsers |-> None]
    /\ pc' = [r \in Requests |-> "idle"]
    /\ call' = [r \in Requests |-> None]
    /\ named' = {row.adminCorp}
    /\ crossed' = FALSE
    /\ UNCHANGED <<row, corporation>>

Handle(r) ==
    \/ HasAllianceWhitelist(r) \/ HasCorporationWhitelist(r) \/ InAlliance(r)
    \/ InCorporation(r) \/ GetLevel(r) \/ SaveSession(r)
    \/ UpdateConfig(r) \/ AssignConfig(r)

Next ==
    \/ \E r \in Requests, b \in Browsers :
          \/ \E subject \in Subjects : Callback(r, b, subject)
          \/ \E new \in Configs : PostConfig(r, b, new)
    \/ \E r \in Requests : Handle(r)
    \/ \E b \in Browsers : Logout(b)
    \/ \E x \in Characters, c \in Corporations : Move(x, c)
    \/ Restart

Spec == Init /\ [][Next]_vars
-----------------------------------------------------------------------------
(* What the two lists of one configuration say of a corporation. *)
Admits(c, corp) ==
    \/ c.alliances = {} /\ c.corporations = {}
    \/ Alliance[corp] \in c.alliances
    \/ corp \in c.corporations

Admitted(r) == pc[r] \in {"level", "save"}

(* A login that gets past the whitelist while app.config stays the same is *)
(* one that configuration lets in, in whatever order its four reads come   *)
(* to it (auth.go:192-201).                                                *)
WhitelistHolds ==
    \A r \in Requests : Admitted(r) =>
        \A c \in Configs : call[r].during = {c} => Admits(c, call[r].corp)

(* After a post the database and the memory agree, so that a restart       *)
(* changes nothing, unless two posts crossed between their UPDATE and      *)
(* their assignment or an UPDATE was reported as failed (api.go:80-90).    *)
ConfigIsStored ==
    ~crossed /\ (\A r \in Requests : pc[r] # "assign") => row = config

(* Nobody becomes an admin, and nobody changes the configuration, who did  *)
(* not log in from a corporation that this process' configuration named    *)
(* then or before: levels outlive the configuration they come from, but    *)
(* not the process, and the configuration passes only from one admin       *)
(* corporation to the next.                                                *)
AdminsWereNamed ==
    /\ \A b \in Browsers : sessions[b] # None /\ sessions[b].level = Admin =>
          sessions[b].corp \in named
    /\ \A r \in Requests : pc[r] \in {"write", "assign"} => call[r].corp \in named
===============================================================================

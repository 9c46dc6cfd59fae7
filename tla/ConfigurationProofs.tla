------------------------- MODULE ConfigurationProofs -------------------------
(***************************************************************************)
(* Theorems about Configuration, for every set of characters,              *)
(* corporations, configurations, browsers and requests in flight.          *)
(***************************************************************************)
EXTENDS Configuration, TLAPS

(* Nobody is given the level of a worker. *)
NoWorkers ==
    /\ \A b \in Browsers : sessions[b] # None => sessions[b].level # Worker
    /\ \A r \in Requests : pc[r] = "save" => call[r].level # Worker

(* A callback that still checks the whitelist knows what app.config is; if *)
(* it never was anything else, what was read so far was read from it.      *)
ChecksFollow ==
    \A r \in Requests :
       /\ pc[r] \in Checks => config \in call[r].during
       /\ pc[r] = "corporations" =>
             \A c \in Configs : call[r].during = {c} => c.alliances = {}

(* If no two posts crossed there is at most one between its two writes,    *)
(* and the row is its configuration.                                       *)
OnePostAssigns ==
    ~crossed => /\ \A r, q \in Requests :
                      pc[r] = "assign" /\ pc[q] = "assign" => r = q
                /\ \A r \in Requests : pc[r] = "assign" => row = call[r].new

(* A level of admin on its way to a session comes from a configuration     *)
(* that was in force.                                                      *)
LevelsWereNamed ==
    /\ config.adminCorp \in named
    /\ \A r \in Requests :
          pc[r] = "save" /\ call[r].level = Admin => call[r].corp \in named

IInv == /\ TypeOK
        /\ NoWorkers /\ ChecksFollow /\ WhitelistHolds
        /\ OnePostAssigns /\ ConfigIsStored
        /\ LevelsWereNamed /\ AdminsWereNamed

LEMMA ConfigFields ==
    ASSUME NEW c \in Configs
    PROVE  c.adminCorp \in Corporations
BY Constants

LEMMA NoneIsNothing ==
    /\ None \notin Sessions /\ None \notin Logins /\ None \notin Posts
    /\ None \notin Characters
BY Constants

LEMMA CallTypes ==
    ASSUME TypeOK, NEW r \in Requests
    PROVE  /\ pc[r] \in Locations
           /\ pc[r] = "idle" => call[r] = None
           /\ pc[r] \in {"write", "assign"} => call[r] \in Posts
           /\ pc[r] \in Checks \cup {"level", "save"} => call[r] \in Logins
BY DEF TypeOK, Locations, Checks

LEMMA InitIInv == Init => IInv
<1> SUFFICES ASSUME Init PROVE IInv
  OBVIOUS
<1> USE DEF Init
<1>1. TypeOK
  BY ConfigFields DEF TypeOK, Locations, Checks
<1>2. NoWorkers /\ ChecksFollow /\ WhitelistHolds
  BY DEF NoWorkers, ChecksFollow, WhitelistHolds, Admitted, Checks
<1>3. OnePostAssigns /\ ConfigIsStored
  BY DEF OnePostAssigns, ConfigIsStored
<1>4. LevelsWereNamed /\ AdminsWereNamed
  BY DEF LevelsWereNamed, AdminsWereNamed
<1> QED BY <1>1, <1>2, <1>3, <1>4 DEF IInv
-----------------------------------------------------------------------------
LEMMA NextTypes == TypeOK /\ [Next]_vars => TypeOK'
<1> SUFFICES ASSUME TypeOK, [Next]_vars PROVE TypeOK'
  OBVIOUS
<1> USE DEF TypeOK
<1>1. ASSUME NEW r \in Requests, NEW b \in Browsers, NEW subject \in Subjects,
             Callback(r, b, subject)
      PROVE  TypeOK'
  <2>1. CharacterId(subject) \in Characters
    BY <1>1 DEF Callback, CharacterId
  <2>2. call'[r] \in Logins /\ pc'[r] = "alliances"
    BY <1>1, <2>1 DEF Callback, Logins, Levels
  <2>3. \A q \in Requests \ {r} : call'[q] = call[q] /\ pc'[q] = pc[q]
    BY <1>1 DEF Callback
  <2> QED BY <1>1, <2>2, <2>3 DEF Callback, Locations, Checks
<1>2. ASSUME NEW r \in Requests, NEW b \in Browsers, NEW new \in Configs,
             PostConfig(r, b, new)
      PROVE  TypeOK'
  <2>1. call'[r] \in Posts /\ pc'[r] = "write"
    BY <1>2, NoneIsNothing DEF PostConfig, Permitted, Sessions, Posts
  <2>2. \A q \in Requests \ {r} : call'[q] = call[q] /\ pc'[q] = pc[q]
    BY <1>2 DEF PostConfig
  <2> QED BY <1>2, <2>1, <2>2 DEF PostConfig, Locations, Checks
<1>3. ASSUME NEW r \in Requests, HasAllianceWhitelist(r) PROVE TypeOK'
  BY <1>3 DEF HasAllianceWhitelist, Goto, Locations, Checks
<1>4. ASSUME NEW r \in Requests, HasCorporationWhitelist(r) PROVE TypeOK'
  BY <1>4 DEF HasCorporationWhitelist, Goto, Locations, Checks
<1>5. ASSUME NEW r \in Requests, InAlliance(r) PROVE TypeOK'
  BY <1>5 DEF InAlliance, Goto, Locations, Checks
<1>6. ASSUME NEW r \in Requests, InCorporation(r) PROVE TypeOK'
  BY <1>6 DEF InCorporation, Goto, Return, Locations, Checks
<1>7. ASSUME NEW r \in Requests, GetLevel(r) PROVE TypeOK'
  <2>1. CASE Return(r)
    BY <1>7, <2>1 DEF GetLevel, Return, Locations, Checks
  <2>2. CASE ~Return(r)
    <3>1. call[r] \in Logins /\ LevelOf(call[r].corp) \in Levels
      BY <1>7, CallTypes DEF GetLevel, LevelOf, Levels
    <3>2. call'[r] \in Logins /\ pc'[r] = "save"
      BY <1>7, <2>2, <3>1 DEF GetLevel, Logins
    <3>3. \A q \in Requests \ {r} : call'[q] = call[q] /\ pc'[q] = pc[q]
      BY <1>7, <2>2 DEF GetLevel
    <3> QED BY <1>7, <2>2, <3>2, <3>3 DEF GetLevel, Locations, Checks
  <2> QED BY <2>1, <2>2
<1>8. ASSUME NEW r \in Requests, SaveSession(r) PROVE TypeOK'
  <2>1. call[r] \in Logins
    BY <1>8, CallTypes DEF SaveSession
  <2>2. sessions' \in [Browsers -> Sessions \cup {None}]
    BY <1>8, <2>1 DEF SaveSession, Logins, Sessions
  <2> QED BY <1>8, <2>2 DEF SaveSession, Return, Locations, Checks
<1>9. ASSUME NEW b \in Browsers, Logout(b) PROVE TypeOK'
  BY <1>9 DEF Logout
<1>10. ASSUME NEW r \in Requests, UpdateConfig(r) PROVE TypeOK'
  <2>1. call[r] \in Posts
    BY <1>10, CallTypes DEF UpdateConfig
  <2>2. row' \in Configs /\ crossed' \in BOOLEAN
    BY <1>10, <2>1 DEF UpdateConfig, Posts
  <2> QED BY <1>10, <2>1, <2>2 DEF UpdateConfig, Goto, Return, Locations, Checks
<1>11. ASSUME NEW r \in Requests, AssignConfig(r) PROVE TypeOK'
  <2>1. call[r].new \in Configs
    BY <1>11, CallTypes DEF AssignConfig, Posts
  <2>2. ASSUME NEW q \in Requests, pc[q] \in Checks, q # r
        PROVE  call'[q] \in Logins
    BY <1>11, <2>1, <2>2, CallTypes DEF AssignConfig, Logins
  <2>3. ASSUME NEW q \in Requests, pc[q] \notin Checks, q # r
        PROVE  call'[q] = call[q]
    BY <1>11, <2>3 DEF AssignConfig
  <2>4. call'[r] = None /\ pc'[r] = "idle"
    BY <1>11 DEF AssignConfig
  <2>5. \A q \in Requests \ {r} : pc'[q] = pc[q]
    BY <1>11 DEF AssignConfig
  <2>6. named' \subseteq Corporations /\ DOMAIN call' = Requests
    BY <1>11, <2>1, ConfigFields DEF AssignConfig
  <2> QED BY <1>11, <2>1, <2>2, <2>3, <2>4, <2>5, <2>6 DEF AssignConfig, Locations, Checks
<1>12. ASSUME NEW x \in Characters, NEW c \in Corporations, Move(x, c)
       PROVE  TypeOK'
  BY <1>12 DEF Move
<1>13. CASE Restart
  BY <1>13, ConfigFields DEF Restart, Locations, Checks
<1>14. CASE UNCHANGED vars
  BY <1>14 DEF vars
<1> QED BY <1>1, <1>2, <1>3, <1>4, <1>5, <1>6, <1>7, <1>8, <1>9, <1>10, <1>11,
           <1>12, <1>13, <1>14 DEF Next, Handle
-----------------------------------------------------------------------------
(* What is known of a login survives the steps that leave its slot and     *)
(* app.config alone.                                                       *)
LEMMA NextLogins ==
    TypeOK /\ TypeOK' /\ NoWorkers /\ ChecksFollow /\ WhitelistHolds /\ [Next]_vars
       => NoWorkers' /\ ChecksFollow' /\ WhitelistHolds'
<1> SUFFICES ASSUME TypeOK, TypeOK', NoWorkers, ChecksFollow, WhitelistHolds, [Next]_vars
             PROVE  NoWorkers' /\ ChecksFollow' /\ WhitelistHolds'
  OBVIOUS
<1> USE DEF NoWorkers, ChecksFollow, WhitelistHolds, Admitted
<1>0. DOMAIN call = Requests /\ pc \in [Requests -> Locations]
      /\ DOMAIN sessions = Browsers
  BY DEF TypeOK
<1>1. ASSUME NEW r \in Requests, NEW b \in Browsers, NEW subject \in Subjects,
             Callback(r, b, subject)
      PROVE  NoWorkers' /\ ChecksFollow' /\ WhitelistHolds'
  <2>1. config' \in call'[r].during /\ pc'[r] = "alliances"
    BY <1>1, <1>0 DEF Callback
  <2>2. \A q \in Requests \ {r} : call'[q] = call[q] /\ pc'[q] = pc[q]
    BY <1>1, <1>0 DEF Callback
  <2> QED BY <1>1, <2>1, <2>2 DEF Callback
<1>2. ASSUME NEW r \in Requests, NEW b \in Browsers, NEW new \in Configs,
             PostConfig(r, b, new)
      PROVE  NoWorkers' /\ ChecksFollow' /\ WhitelistHolds'
  <2>1. pc'[r] = "write"
    BY <1>2, <1>0 DEF PostConfig
  <2>2. \A q \in Requests \ {r} : call'[q] = call[q] /\ pc'[q] = pc[q]
    BY <1>2, <1>0 DEF PostConfig
  <2> QED BY <1>2, <2>1, <2>2 DEF PostConfig, Checks
<1>3. ASSUME NEW r \in Requests, HasAllianceWhitelist(r)
      PROVE  NoWorkers' /\ ChecksFollow' /\ WhitelistHolds'
  <2>1. pc'[r] = "corporations" => config.alliances = {}
    BY <1>3, <1>0 DEF HasAllianceWhitelist, Goto
  <2>2. pc'[r] \in {"ally", "corporations"} /\ pc[r] \in Checks
    BY <1>3, <1>0 DEF HasAllianceWhitelist, Goto, Checks
  <2>3. \A q \in Requests \ {r} : pc'[q] = pc[q]
    BY <1>3, <1>0 DEF HasAllianceWhitelist, Goto
  <2> QED BY <1>3, <2>1, <2>2, <2>3 DEF HasAllianceWhitelist, Goto, Checks
<1>4. ASSUME NEW r \in Requests, HasCorporationWhitelist(r)
      PROVE  NoWorkers' /\ ChecksFollow' /\ WhitelistHolds'
  <2>1. pc'[r] = "level" => config.corporations = {}
    BY <1>4, <1>0 DEF HasCorporationWhitelist, Goto
  <2>2. pc'[r] \in {"ally", "level"} /\ config \in call[r].during /\ pc[r] = "corporations"
    BY <1>4, <1>0 DEF HasCorporationWhitelist, Goto, Checks
  <2>3. \A q \in Requests \ {r} : pc'[q] = pc[q]
    BY <1>4, <1>0 DEF HasCorporationWhitelist, Goto
  <2> QED BY <1>4, <2>1, <2>2, <2>3 DEF HasCorporationWhitelist, Goto, Admits, Checks
<1>5. ASSUME NEW r \in Requests, InAlliance(r)
      PROVE  NoWorkers' /\ ChecksFollow' /\ WhitelistHolds'
  <2>1. pc'[r] = "level" => Alliance[call[r].corp] \in config.alliances
    BY <1>5, <1>0 DEF InAlliance, Goto
  <2>2. pc'[r] \in {"colleague", "level"} /\ config \in call[r].during
    BY <1>5, <1>0 DEF InAlliance, Goto, Checks
  <2>3. \A q \in Requests \ {r} : pc'[q] = pc[q]
    BY <1>5, <1>0 DEF InAlliance, Goto
  <2> QED BY <1>5, <2>1, <2>2, <2>3 DEF InAlliance, Goto, Admits, Checks
<1>6. ASSUME NEW r \in Requests, InCorporation(r)
      PROVE  NoWorkers' /\ ChecksFollow' /\ WhitelistHolds'
  <2>1. pc'[r] = "level" => call[r].corp \in config.corporations /\ call' = call
    BY <1>6, <1>0 DEF InCorporation, Goto, Return
  <2>2. pc'[r] \in {"idle", "level"} /\ config \in call[r].during
    BY <1>6, <1>0 DEF InCorporation, Goto, Return, Checks
  <2>3. \A q \in Requests \ {r} : call'[q] = call[q] /\ pc'[q] = pc[q]
    BY <1>6, <1>0 DEF InCorporation, Goto, Return
  <2> QED BY <1>6, <2>1, <2>2, <2>3 DEF InCorporation, Admits, Checks
<1>7. ASSUME NEW r \in Requests, GetLevel(r)
      PROVE  NoWorkers' /\ ChecksFollow' /\ WhitelistHolds'
  <2>1. LevelOf(call[r].corp) # Worker
    BY DEF LevelOf, Worker, Admin, Authorized
  <2>2. \/ pc'[r] = "idle"
        \/ /\ pc'[r] = "save" /\ call'[r].level # Worker
           /\ call'[r].during = call[r].during /\ call'[r].corp = call[r].corp
    <3>1. call[r] \in Logins
      BY <1>7, CallTypes DEF GetLevel
    <3> QED BY <1>7, <1>0, <2>1, <3>1 DEF GetLevel, Return, Logins
  <2>3. \A q \in Requests \ {r} : call'[q] = call[q] /\ pc'[q] = pc[q]
    BY <1>7, <1>0 DEF GetLevel, Return
  <2> QED BY <1>7, <2>2, <2>3 DEF GetLevel, Checks
<1>8. ASSUME NEW r \in Requests, SaveSession(r)
      PROVE  NoWorkers' /\ ChecksFollow' /\ WhitelistHolds'
  <2>1. pc'[r] = "idle" /\ \A q \in Requests \ {r} : call'[q] = call[q] /\ pc'[q] = pc[q]
    BY <1>8, <1>0 DEF SaveSession, Return
  <2>2. NoWorkers'
    BY <1>8, <1>0, <2>1 DEF SaveSession
  <2> QED BY <1>8, <2>1, <2>2 DEF SaveSession, Checks
<1>9. ASSUME NEW b \in Browsers, Logout(b)
      PROVE  NoWorkers' /\ ChecksFollow' /\ WhitelistHolds'
  BY <1>9, <1>0 DEF Logout
<1>10. ASSUME NEW r \in Requests, UpdateConfig(r)
       PROVE  NoWorkers' /\ ChecksFollow' /\ WhitelistHolds'
  <2>1. /\ pc'[r] \in {"idle", "assign"}
        /\ \A q \in Requests \ {r} : call'[q] = call[q] /\ pc'[q] = pc[q]
    BY <1>10, <1>0 DEF UpdateConfig, Goto, Return
  <2> QED BY <1>10, <2>1 DEF UpdateConfig, Checks
<1>11. ASSUME NEW r \in Requests, AssignConfig(r)
       PROVE  NoWorkers' /\ ChecksFollow' /\ WhitelistHolds'
  <2>1. pc'[r] = "idle" /\ \A q \in Requests \ {r} : pc'[q] = pc[q]
    BY <1>11, <1>0 DEF AssignConfig
  <2>2. ASSUME NEW q \in Requests \ {r}, pc[q] \in Checks
        PROVE  /\ config' \in call'[q].during
               /\ call'[q].during = call[q].during \cup {config'}
    <3>1. call[q] \in Logins
      BY <2>2, CallTypes
    <3> QED BY <1>11, <2>2, <3>1 DEF AssignConfig, Logins
  <2>3. \A q \in Requests \ {r} : pc[q] \notin Checks => call'[q] = call[q]
    BY <1>11 DEF AssignConfig
  <2>4. ChecksFollow'
    <3> SUFFICES ASSUME NEW q \in Requests
                 PROVE  /\ pc'[q] \in Checks => config' \in call'[q].during
                        /\ pc'[q] = "corporations" =>
                              \A c \in Configs : call'[q].during = {c} => c.alliances = {}
      OBVIOUS
    <3>1. CASE q = r
      BY <2>1, <3>1 DEF Checks
    <3>2. CASE q # r /\ pc[q] \in Checks
      <4>1. \A c : call'[q].during = {c} => call[q].during = {c}
        BY <2>2, <3>2
      <4> QED BY <2>1, <2>2, <3>2, <4>1
    <3>3. CASE q # r /\ pc[q] \notin Checks
      BY <2>1, <3>3 DEF Checks
    <3> QED BY <3>1, <3>2, <3>3
  <2>5. WhitelistHolds'
    BY <2>1, <2>3 DEF Checks
  <2>6. NoWorkers'
    BY <1>11, <2>1, <2>3 DEF AssignConfig, Checks
  <2> QED BY <2>4, <2>5, <2>6
<1>12. ASSUME NEW x \in Characters, NEW c \in Corporations, Move(x, c)
       PROVE  NoWorkers' /\ ChecksFollow' /\ WhitelistHolds'
  BY <1>12 DEF Move
<1>13. CASE Restart
  BY <1>13 DEF Restart, Checks
<1>14. CASE UNCHANGED vars
  BY <1>14 DEF vars
<1> QED BY <1>1, <1>2, <1>3, <1>4, <1>5, <1>6, <1>7, <1>8, <1>9, <1>10, <1>11,
           <1>12, <1>13, <1>14 DEF Next, Handle
-----------------------------------------------------------------------------
(* The two writes of a post, with no other between them. *)
LEMMA NextStored ==
    TypeOK /\ OnePostAssigns /\ ConfigIsStored /\ [Next]_vars
       => OnePostAssigns' /\ ConfigIsStored'
<1> SUFFICES ASSUME TypeOK, OnePostAssigns, ConfigIsStored, [Next]_vars
             PROVE  OnePostAssigns' /\ ConfigIsStored'
  OBVIOUS
<1> USE DEF OnePostAssigns, ConfigIsStored
<1>0. DOMAIN call = Requests /\ pc \in [Requests -> Locations]
  BY DEF TypeOK
<1>1. ASSUME NEW r \in Requests, pc[r] # "assign", pc'[r] # "assign",
             \A q \in Requests \ {r} : call'[q] = call[q] /\ pc'[q] = pc[q],
             row' = row, config' = config, crossed' = crossed
      PROVE  OnePostAssigns' /\ ConfigIsStored'
  BY <1>1
<1>2. ASSUME NEW r \in Requests, NEW b \in Browsers, NEW subject \in Subjects,
             Callback(r, b, subject)
      PROVE  OnePostAssigns' /\ ConfigIsStored'
  BY <1>0, <1>1, <1>2 DEF Callback
<1>3. ASSUME NEW r \in Requests, NEW b \in Browsers, NEW new \in Configs,
             PostConfig(r, b, new)
      PROVE  OnePostAssigns' /\ ConfigIsStored'
  BY <1>0, <1>1, <1>3 DEF PostConfig
<1>4. ASSUME NEW r \in Requests,
             \/ HasAllianceWhitelist(r) \/ HasCorporationWhitelist(r)
             \/ InAlliance(r) \/ InCorporation(r)
      PROVE  OnePostAssigns' /\ ConfigIsStored'
  <2>1. /\ pc[r] # "assign" /\ pc'[r] # "assign"
        /\ \A q \in Requests \ {r} : call'[q] = call[q] /\ pc'[q] = pc[q]
        /\ row' = row /\ config' = config /\ crossed' = crossed
    BY <1>0, <1>4 DEF HasAllianceWhitelist, HasCorporationWhitelist, InAlliance,
       InCorporation, Goto, Return
  <2> QED BY <1>1, <2>1
<1>5. ASSUME NEW r \in Requests, GetLevel(r) \/ SaveSession(r)
      PROVE  OnePostAssigns' /\ ConfigIsStored'
  <2>1. /\ pc[r] # "assign" /\ pc'[r] # "assign"
        /\ \A q \in Requests \ {r} : call'[q] = call[q] /\ pc'[q] = pc[q]
        /\ row' = row /\ config' = config /\ crossed' = crossed
    BY <1>0, <1>5 DEF GetLevel, SaveSession, Return
  <2> QED BY <1>1, <2>1
<1>6. ASSUME NEW r \in Requests, UpdateConfig(r)
      PROVE  OnePostAssigns' /\ ConfigIsStored'
  <2>1. CASE row' = call[r].new /\ Goto(r, "assign")
             /\ crossed' = (\E q \in Requests \ {r} : pc[q] = "assign")
    BY <1>0, <1>6, <2>1 DEF UpdateConfig, Goto
  <2>2. CASE crossed' = TRUE
    BY <2>2
  <2>3. CASE Return(r) /\ UNCHANGED <<row, crossed>>
    BY <1>0, <1>1, <1>6, <2>3 DEF UpdateConfig, Return
  <2> QED BY <1>6, <2>1, <2>2, <2>3 DEF UpdateConfig
<1>7. ASSUME NEW r \in Requests, AssignConfig(r)
      PROVE  OnePostAssigns' /\ ConfigIsStored'
  <2>1. CASE crossed
    BY <1>7, <2>1 DEF AssignConfig
  <2>2. CASE ~crossed
    <3>1. row' = config' /\ \A q \in Requests : pc'[q] # "assign"
      BY <1>0, <1>7, <2>2 DEF AssignConfig
    <3> QED BY <3>1
  <2> QED BY <2>1, <2>2
<1>8. CASE \/ \E b \in Browsers : Logout(b)
           \/ \E x \in Characters, c \in Corporations : Move(x, c)
           \/ UNCHANGED vars
  BY <1>8 DEF Logout, Move, vars
<1>9. CASE Restart
  BY <1>9 DEF Restart
<1> QED BY <1>2, <1>3, <1>4, <1>5, <1>6, <1>7, <1>8, <1>9 DEF Next, Handle

(* The configuration passes from one admin corporation to the next. *)
LEMMA NextNamed ==
    TypeOK /\ NoWorkers /\ LevelsWereNamed /\ AdminsWereNamed /\ [Next]_vars
       => LevelsWereNamed' /\ AdminsWereNamed'
<1> SUFFICES ASSUME TypeOK, NoWorkers, LevelsWereNamed, AdminsWereNamed, [Next]_vars
             PROVE  LevelsWereNamed' /\ AdminsWereNamed'
  OBVIOUS
<1> USE DEF LevelsWereNamed, AdminsWereNamed
<1>0. /\ DOMAIN call = Requests /\ pc \in [Requests -> Locations]
      /\ DOMAIN sessions = Browsers
  BY DEF TypeOK
<1>1. ASSUME NEW r \in Requests, pc'[r] \notin {"save", "write", "assign"},
             \A q \in Requests \ {r} : call'[q] = call[q] /\ pc'[q] = pc[q],
             sessions' = sessions, config' = config, named' = named
      PROVE  LevelsWereNamed' /\ AdminsWereNamed'
  BY <1>1
<1>2. ASSUME NEW r \in Requests, NEW b \in Browsers, NEW subject \in Subjects,
             Callback(r, b, subject)
      PROVE  LevelsWereNamed' /\ AdminsWereNamed'
  BY <1>0, <1>1, <1>2 DEF Callback
<1>3. ASSUME NEW r \in Requests, NEW b \in Browsers, NEW new \in Configs,
             PostConfig(r, b, new)
      PROVE  LevelsWereNamed' /\ AdminsWereNamed'
  <2>1. sessions[b] # None /\ sessions[b] \in Sessions /\ sessions[b].level >= Worker
    BY <1>3 DEF PostConfig, Permitted, TypeOK
  <2>2. sessions[b].level = Admin
    BY <2>1 DEF NoWorkers, Sessions, Levels, Authorized, Worker, Admin
  <2>3. call'[r].corp \in named /\ pc'[r] = "write"
    BY <1>0, <1>3, <2>1, <2>2 DEF PostConfig
  <2>4. \A q \in Requests \ {r} : call'[q] = call[q] /\ pc'[q] = pc[q]
    BY <1>0, <1>3 DEF PostConfig
  <2> QED BY <1>3, <2>3, <2>4 DEF PostConfig
<1>4. ASSUME NEW r \in Requests,
             \/ HasAllianceWhitelist(r) \/ HasCorporationWhitelist(r)
             \/ InAlliance(r) \/ InCorporation(r)
      PROVE  LevelsWereNamed' /\ AdminsWereNamed'
  <2>1. /\ pc'[r] \notin {"save", "write", "assign"}
        /\ \A q \in Requests \ {r} : call'[q] = call[q] /\ pc'[q] = pc[q]
        /\ sessions' = sessions /\ config' = config /\ named' = named
    BY <1>0, <1>4 DEF HasAllianceWhitelist, HasCorporationWhitelist, InAlliance,
       InCorporation, Goto, Return
  <2> QED BY <1>1, <2>1
<1>5. ASSUME NEW r \in Requests, GetLevel(r)
      PROVE  LevelsWereNamed' /\ AdminsWereNamed'
  <2>1. call[r] \in Logins
    BY <1>5, CallTypes DEF GetLevel
  <2>2. pc'[r] = "idle" \/ /\ pc'[r] = "save" /\ call'[r].corp = call[r].corp
                           /\ call'[r].level = LevelOf(call[r].corp)
    BY <1>0, <1>5, <2>1 DEF GetLevel, Return, Logins
  <2>3. LevelOf(call[r].corp) = Admin => call[r].corp \in named
    BY DEF LevelOf, Authorized, Admin
  <2>4. \A q \in Requests \ {r} : call'[q] = call[q] /\ pc'[q] = pc[q]
    BY <1>0, <1>5 DEF GetLevel, Return
  <2> QED BY <1>5, <2>2, <2>3, <2>4 DEF GetLevel
<1>6. ASSUME NEW r \in Requests, SaveSession(r)
      PROVE  LevelsWereNamed' /\ AdminsWereNamed'
  <2>1. pc'[r] = "idle" /\ \A q \in Requests \ {r} : call'[q] = call[q] /\ pc'[q] = pc[q]
    BY <1>0, <1>6 DEF SaveSession, Return
  <2>2. \A b \in Browsers :
           sessions'[b] = sessions[b] \/ /\ sessions'[b].corp = call[r].corp
                                         /\ sessions'[b].level = call[r].level
    BY <1>0, <1>6 DEF SaveSession
  <2>3. pc[r] = "save"
    BY <1>6 DEF SaveSession
  <2> QED BY <1>6, <2>1, <2>2, <2>3 DEF SaveSession
<1>7. ASSUME NEW b \in Browsers, Logout(b)
      PROVE  LevelsWereNamed' /\ AdminsWereNamed'
  BY <1>0, <1>7 DEF Logout
<1>8. ASSUME NEW r \in Requests, UpdateConfig(r)
      PROVE  LevelsWereNamed' /\ AdminsWereNamed'
  <2>1. \/ pc'[r] = "idle"
        \/ pc'[r] = "assign" /\ pc[r] = "write" /\ call'[r] = call[r]
    BY <1>0, <1>8 DEF UpdateConfig, Goto, Return
  <2>2. \A q \in Requests \ {r} : call'[q] = call[q] /\ pc'[q] = pc[q]
    BY <1>0, <1>8 DEF UpdateConfig, Goto, Return
  <2> QED BY <1>8, <2>1, <2>2 DEF UpdateConfig
<1>9. ASSUME NEW r \in Requests, AssignConfig(r)
      PROVE  LevelsWereNamed' /\ AdminsWereNamed'
  <2>1. \A q \in Requests :
           pc'[q] \in {"save", "write", "assign"} => pc'[q] = pc[q] /\ call'[q] = call[q]
    BY <1>0, <1>9 DEF AssignConfig, Checks
  <2>2. config'.adminCorp \in named' /\ named \subseteq named' /\ sessions' = sessions
    BY <1>9 DEF AssignConfig
  <2> QED BY <2>1, <2>2
<1>10. CASE Restart
  BY <1>10 DEF Restart
<1>11. CASE \/ \E x \in Characters, c \in Corporations : Move(x, c)
            \/ UNCHANGED vars
  BY <1>11 DEF Move, vars
<1> QED BY <1>2, <1>3, <1>4, <1>5, <1>6, <1>7, <1>8, <1>9, <1>10, <1>11 DEF Next, Handle

LEMMA NextIInv == IInv /\ [Next]_vars => IInv'
BY NextTypes, NextLogins, NextStored, NextNamed DEF IInv

LEMMA Inductive == Spec => []IInv
BY InitIInv, NextIInv, PTL DEF Spec
-----------------------------------------------------------------------------
(* The types: above all, that a slot of a login holds a login's locals and *)
(* a slot of a post a post's (auth.go:158-272, api.go:61-91).              *)
THEOREM TypeCorrect == Spec => []TypeOK
BY Inductive, PTL DEF IInv

(* Whatever the whitelists are, a login that ran under one configuration   *)
(* got past it only if that configuration lets its corporation in: the     *)
(* short cut for an instance without whitelists (auth.go:192) opens no     *)
(* other.                                                                  *)
THEOREM WhitelistCorrect == Spec => []WhitelistHolds
BY Inductive, PTL DEF IInv

(* However many posts there are, the row is what app.config is when none   *)
(* is about to assign, unless two crossed or an UPDATE was reported as     *)
(* failed (api.go:80-90).                                                  *)
THEOREM ConfigStored == Spec => []ConfigIsStored
BY Inductive, PTL DEF IInv

(* An admin's session, and so a new configuration, comes only from a       *)
(* corporation that this process' configuration has named (auth.go:249,    *)
(* middleware.go:69).                                                      *)
THEOREM AdminsNamed == Spec => []AdminsWereNamed
BY Inductive, PTL DEF IInv
=============================================================================

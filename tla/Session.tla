------------------------------- MODULE Session -------------------------------
(***************************************************************************)
(* The session of one user: the login server (loginserver.lua,             *)
(* logind.lua), the gate (msgserver.lua, gated.lua), the user's agents     *)
(* (msgagent.lua) and the count of the users online (agent_mgr.lua).       *)
(*                                                                         *)
(* A service runs one handler at a time, up to the point where the handler *)
(* calls another service; what the handler does after the answer is a step *)
(* of its own.  Each service has one queue for what the others send.  When *)
(* a service has exited, its callers get an error, and messages to it are  *)
(* lost.  Users do not interact here, so there is one of them, with any    *)
(* number of clients: a client is a connection to the gate.                *)
(*                                                                         *)
(* A login is named by its subid, which stands for the username and for    *)
(* the record in user_online; an object of "users" by the subid it was     *)
(* made with.                                                              *)
(***************************************************************************)
EXTENDS Naturals, Sequences, FiniteSets, SequencesExt

CONSTANTS Agents,      \* agents the gate can start
          MaxLogins,   \* bound on the logins the gate accepts
          MaxFds,      \* bound on the connections
          MaxExtras,   \* bound on requests to log out, forbidden logins and heartbeat exits
          None

Subids == 1..MaxLogins
Fds    == 1..MaxFds

ASSUME SessionAssumption ==
    /\ MaxLogins \in Nat \ {0} /\ MaxFds \in Nat \ {0}
    /\ MaxExtras \in Nat /\ None \notin Agents

VARIABLES
    accept,        \* loginserver.lua, accept: "idle", or waiting for the gate's "kick" or "login"
    online,        \* logind.lua, user_online: the subid, or 0
    internal_id,   \* gated.lua
    users,         \* users[uid]: an object, or 0
    obj,           \* the objects: subid, agent, islogout
    username_map,  \* for each subid its object, or 0
    user_online,   \* msgserver.lua: the subids it knows
    fdOf,          \* for each subid u.fd, or 0
    connection,    \* for each fd the subid, or 0
    sock,          \* the sockets: "none", "open", "closing" until the gate hears of it, "closed"
    auth,          \* do_auth for each fd: where it is, for which subid, object and agent
    kicked,        \* the object a kick without an agent is about
    agent,         \* the agents: life, isLogin, online, subid, beat (the heartbeat timer runs)
    login,         \* CMD.login for each fd: where it is
    logout,        \* _logoutComplete for each caller: where it is, and in which agent
    players,       \* agent_mgr.lua: players[id]
    onlineNum,     \* agent_mgr.lua
    extras,        \* counts what MaxExtras bounds
    toLogin,       \* the queue of the login server
    toGate,        \* the queue of the gate
    inbox          \* the queues of the agents

loginVars  == <<accept, online>>
tableVars  == <<internal_id, users, obj, username_map, user_online, kicked>>
clientVars == <<fdOf, connection, sock, auth>>
agentVars  == <<agent, login, logout>>
mgrVars    == <<players, onlineNum>>
vars       == <<loginVars, tableVars, clientVars, agentVars, mgrVars, toLogin, toGate, inbox, extras>>

\* Who runs _logoutComplete: a kick, the client's request, the heartbeat of an agent (exit),
\* or the fork that follows a forbidden login of a connection.
Kick      == <<"kick", 0>>
ByClient  == <<"client", 0>>
Exit(a)   == <<"exit", a>>
Forbid(f) == <<"forbid", f>>

Callers == {Kick, ByClient} \cup {Exit(a) : a \in Agents} \cup {Forbid(f) : f \in Fds}

NoObject == [subid |-> 0, agent |-> None, islogout |-> FALSE]
NoAuth   == [at |-> "none", subid |-> 0, obj |-> 0, agent |-> None]
NoLogout == [at |-> "none", agent |-> None]
Unborn   == [life |-> "unborn", isLogin |-> FALSE, online |-> "unknown", subid |-> 0, beat |-> FALSE]

Init ==
    /\ accept = "idle" /\ online = 0
    /\ internal_id = 0 /\ users = 0 /\ kicked = 0
    /\ obj = [s \in Subids |-> NoObject]
    /\ username_map = [s \in Subids |-> 0]
    /\ user_online = {}
    /\ fdOf = [s \in Subids |-> 0]
    /\ connection = [f \in Fds |-> 0]
    /\ sock = [f \in Fds |-> "none"]
    /\ auth = [f \in Fds |-> NoAuth]
    /\ agent = [a \in Agents |-> Unborn]
    /\ login = [f \in Fds |-> "none"]
    /\ logout = [c \in Callers |-> NoLogout]
    /\ players = None /\ onlineNum = 0 /\ extras = 0
    /\ toLogin = <<>> /\ toGate = <<>> /\ inbox = [a \in Agents |-> <<>>]

Alive(a) == agent[a].life = "alive"

\* The next message of a queue has type t.
Next1(queue, t) == queue # <<>> /\ Head(queue).type = t

ToLogin(m) == toLogin' = Append(toLogin, m)
ToGate(m)  == toGate' = Append(toGate, m)
Send(a, m) == inbox' = IF Alive(a) THEN [inbox EXCEPT ![a] = Append(@, m)] ELSE inbox

----------------------------------------------------------------------------
(* The login server *)

\* accept: user_login is the lock, so that one login is under way at a time; the session
\* that is online is kicked first.
Accept ==
    /\ accept = "idle" /\ internal_id < MaxLogins
    /\ accept' = IF online # 0 THEN "kick" ELSE "login"
    /\ ToGate([type |-> accept', subid |-> online])
    /\ UNCHANGED <<online, tableVars, clientVars, agentVars, mgrVars, toLogin, inbox>>

\* CMD.logout, whatever the subid.
LogindLogout ==
    /\ Next1(toLogin, "logout") /\ toLogin' = Tail(toLogin)
    /\ online' = 0
    /\ ToGate([Head(toLogin) EXCEPT !.type = "logoutDone"])
    /\ UNCHANGED <<accept, tableVars, clientVars, agentVars, mgrVars, inbox>>

\* login_handler after the kick; an error in kick ends the login.
KickAnswered ==
    /\ Next1(toLogin, "kicked") /\ toLogin' = Tail(toLogin)
    /\ IF Head(toLogin).ok
       THEN accept' = "login" /\ ToGate([type |-> "login", subid |-> 0])
       ELSE accept' = "idle" /\ UNCHANGED toGate
    /\ UNCHANGED <<online, tableVars, clientVars, agentVars, mgrVars, inbox>>

\* login_handler after the gate's login; subid 0 is an error.
LoginAnswered ==
    /\ Next1(toLogin, "loggedIn") /\ toLogin' = Tail(toLogin)
    /\ accept' = "idle"
    /\ online' = IF Head(toLogin).subid # 0 THEN Head(toLogin).subid ELSE online
    /\ UNCHANGED <<tableVars, clientVars, agentVars, mgrVars, toGate, inbox>>

----------------------------------------------------------------------------
(* The gate: commands of the login server *)

\* Mutant: the object that is used again keeps its subid.
LoginKeepsSubid ==
    /\ Next1(toGate, "login") /\ toGate' = Tail(toGate)
    /\ IF users # 0 /\ ~obj[users].islogout
       THEN ToLogin([type |-> "loggedIn", subid |-> 0]) /\ UNCHANGED tableVars
       ELSE /\ internal_id' = internal_id + 1
            /\ users' = IF users = 0 THEN internal_id' ELSE users
            /\ obj' = [obj EXCEPT ![users'].subid = users', ![users'].islogout = TRUE]
            /\ username_map' = [username_map EXCEPT ![internal_id'] = users']
            /\ user_online' = user_online \cup {internal_id'}
            /\ ToLogin([type |-> "loggedIn", subid |-> internal_id'])
            /\ UNCHANGED kicked
    /\ UNCHANGED <<loginVars, clientVars, agentVars, mgrVars, inbox>>

\* login_handler and msgserver.login
GateLogin ==
    /\ Next1(toGate, "login") /\ toGate' = Tail(toGate)
    /\ IF users # 0 /\ ~obj[users].islogout
       THEN ToLogin([type |-> "loggedIn", subid |-> 0]) /\ UNCHANGED tableVars
       ELSE /\ internal_id' = internal_id + 1
            /\ users' = IF users = 0 THEN internal_id' ELSE users
            /\ obj' = [obj EXCEPT ![users'].subid = internal_id', ![users'].islogout = TRUE]
            /\ username_map' = [username_map EXCEPT ![internal_id'] = users']
            /\ user_online' = user_online \cup {internal_id'}
            /\ ToLogin([type |-> "loggedIn", subid |-> internal_id'])
            /\ UNCHANGED kicked
    /\ UNCHANGED <<loginVars, clientVars, agentVars, mgrVars, inbox>>

\* logout_handler up to its call of the login server, for the subid of users[uid]:
\* msgserver.logout closes the connection the record names.
LogoutHere(s) ==
    /\ user_online' = user_online \ {s}
    /\ LET shut == {f \in Fds : s \in user_online /\ f = fdOf[s]} IN
       /\ sock' = [f \in Fds |-> IF f \in shut /\ sock[f] = "open" THEN "closing" ELSE sock[f]]
       /\ connection' = [f \in Fds |-> IF f \in shut THEN 0 ELSE connection[f]]
    /\ obj' = [obj EXCEPT ![users].islogout = TRUE]
    /\ username_map' = [username_map EXCEPT ![s] = 0]
    /\ UNCHANGED <<internal_id, users, fdOf, auth>>

\* skynet.call(a, "lua", "logout") in a pcall: without an agent it fails at once.
KickAgent(a) ==
    IF a # None /\ Alive(a)
    THEN Send(a, [type |-> "logout"]) /\ UNCHANGED toLogin
    ELSE ToLogin([type |-> "kicked", ok |-> TRUE]) /\ UNCHANGED inbox

\* kick_handler
GateKick ==
    /\ Next1(toGate, "kick") /\ toGate' = Tail(toGate)
    /\ LET s == Head(toGate).subid IN
       IF users = 0
       THEN /\ ToLogin([type |-> "logout", caller |-> Kick, agent |-> None])
            /\ UNCHANGED <<tableVars, clientVars, inbox>>
       ELSE IF obj[users].subid # s
       THEN /\ ToLogin([type |-> "kicked", ok |-> FALSE])
            /\ UNCHANGED <<tableVars, clientVars, inbox>>
       ELSE IF obj[users].agent = None
       THEN /\ LogoutHere(s)
            /\ ToLogin([type |-> "logout", caller |-> Kick, agent |-> None])
            /\ kicked' = users
            /\ UNCHANGED inbox
       ELSE KickAgent(obj[users].agent) /\ UNCHANGED <<tableVars, clientVars>>
    /\ UNCHANGED <<loginVars, agentVars, mgrVars>>

\* logout_handler after its call.  The answer goes on to the agent that called, or to
\* kick_handler, which reads u.agent again.
GateLogoutDone ==
    /\ Next1(toGate, "logoutDone") /\ toGate' = Tail(toGate)
    /\ LET m == Head(toGate) IN
       IF m.agent = None
       THEN /\ KickAgent(IF kicked = 0 THEN None ELSE obj[kicked].agent)
            /\ kicked' = 0
       ELSE /\ Send(m.agent, [type |-> "logoutDone", caller |-> m.caller, ok |-> TRUE])
            /\ UNCHANGED <<toLogin, kicked>>
    /\ UNCHANGED <<loginVars, internal_id, users, obj, username_map, user_online, clientVars,
                   agentVars, mgrVars>>

----------------------------------------------------------------------------
(* The gate: clients *)

\* do_auth has failed or is refused: the connection is closed.
Refuse(f) ==
    /\ auth' = [auth EXCEPT ![f] = [NoAuth EXCEPT !.at = "over"]]
    /\ sock' = [sock EXCEPT ![f] = IF @ = "closed" THEN @ ELSE "closing"]
    /\ UNCHANGED <<fdOf, connection>>

\* The rest of do_auth after create_msgagent_handler, which may be long after the start:
\* neither the socket nor the record is looked at again.
Establish(f, s) ==
    /\ auth' = [auth EXCEPT ![f] = [NoAuth EXCEPT !.at = "over"]]
    /\ fdOf' = [fdOf EXCEPT ![s] = f]
    /\ connection' = [connection EXCEPT ![f] = s]
    /\ sock' = [sock EXCEPT ![f] = IF @ = "none" THEN "open" ELSE @]

\* do_auth yields, at place l.
Await(f, l, s, o, a) ==
    /\ auth' = [auth EXCEPT ![f] = [at |-> l, subid |-> s, obj |-> o, agent |-> a]]
    /\ sock' = [sock EXCEPT ![f] = IF @ = "none" THEN "open" ELSE @]
    /\ UNCHANGED <<fdOf, connection>>

\* create_msgagent_handler with agent a for object o: islogout is cleared before the call,
\* which is an error when the agent has exited.
CallLogin(f, s, o, a) ==
    /\ obj' = [obj EXCEPT ![o].agent = a, ![o].islogout = FALSE]
    /\ IF agent[a].life # "dead"
       THEN /\ inbox' = [inbox EXCEPT ![a] = Append(@, [type |-> "login", fd |-> f, subid |-> obj[o].subid])]
            /\ Await(f, "login", s, o, a)
       ELSE Refuse(f) /\ UNCHANGED inbox

\* The subids that clients have been told.
Told == {s \in 1..internal_id : [type |-> "loggedIn", subid |-> s] \notin Range(toLogin)}

\* A client connects and sends its handshake, with an index that is new or expired: do_auth
\* up to where it yields.
Handshake(f, s, index) ==
    /\ sock[f] = "none" /\ (f > 1 => sock[f - 1] # "none")
    /\ s \in Told
    /\ LET o == username_map[s] IN
       IF s \notin user_online \/ index = "expired"
       THEN Refuse(f) /\ UNCHANGED <<obj, inbox>>
       ELSE IF obj[o].agent = None
       THEN Await(f, "getAgent", s, o, None) /\ UNCHANGED <<obj, inbox>>
       ELSE IF obj[o].islogout
       THEN CallLogin(f, s, o, obj[o].agent)
       ELSE /\ Send(obj[o].agent, [type |-> "reconnect"])
            /\ Establish(f, s)
            /\ UNCHANGED obj
    /\ UNCHANGED <<loginVars, internal_id, users, username_map, user_online, kicked, agentVars,
                   mgrVars, toLogin, toGate>>

\* get_a_agent has answered.  Meanwhile the object may have got another agent, another
\* subid, or have been logged out.
GotAgent(f, a) ==
    /\ auth[f].at = "getAgent" /\ agent[a].life = "unborn"
    /\ agent' = [agent EXCEPT ![a].life = "alive"]
    /\ CallLogin(f, auth[f].subid, auth[f].obj, a)
    /\ UNCHANGED <<loginVars, internal_id, users, username_map, user_online, kicked, login,
                   logout, mgrVars, toLogin, toGate>>

\* The agent's login has answered do_auth: with nothing, with a time the user is forbidden
\* until, or with an error.
LoginReply ==
    /\ Next1(toGate, "loggedIn") /\ toGate' = Tail(toGate)
    /\ LET m == Head(toGate) IN IF m.ok THEN Establish(m.fd, auth[m.fd].subid) ELSE Refuse(m.fd)
    /\ UNCHANGED <<loginVars, tableVars, agentVars, mgrVars, toLogin, inbox>>

\* handler.disconnect: the client has hung up, or the gate has closed the connection.  The
\* record forgets its fd, whichever that is by now.
Disconnect(f) ==
    /\ sock[f] \in {"open", "closing"}
    /\ sock' = [sock EXCEPT ![f] = "closed"]
    /\ LET s == connection[f] IN
       /\ connection' = [connection EXCEPT ![f] = 0]
       /\ fdOf' = IF s = 0 THEN fdOf ELSE [fdOf EXCEPT ![s] = 0]
       /\ IF s # 0 /\ username_map[s] # 0
          THEN Send(obj[username_map[s]].agent, [type |-> "afk"])
          ELSE UNCHANGED inbox
    /\ UNCHANGED <<loginVars, tableVars, auth, agentVars, mgrVars, toLogin, toGate>>

\* What the client of connection f sends reaches agent a: request_handler finds the object
\* by the subid.
Serves(f, a) ==
    /\ sock[f] = "open" /\ connection[f] # 0 /\ username_map[connection[f]] # 0
    /\ obj[username_map[connection[f]]].agent = a /\ Alive(a)

\* A client sends the request logout.
RequestLogout(f, a) ==
    /\ Serves(f, a) /\ logout[ByClient].at = "none"
    /\ Send(a, [type |-> "request"])
    /\ logout' = [logout EXCEPT ![ByClient] = [at |-> "asked", agent |-> a]]
    /\ UNCHANGED <<loginVars, tableVars, clientVars, agent, login, mgrVars, toLogin, toGate>>

----------------------------------------------------------------------------
(* The gate: commands of the agents *)

\* logout_handler; a subid other than that of users[uid] is an error.
GateLogout ==
    /\ Next1(toGate, "logout") /\ toGate' = Tail(toGate)
    /\ LET m == Head(toGate) IN
       IF users # 0 /\ obj[users].subid # m.subid
       THEN /\ Send(m.agent, [type |-> "logoutDone", caller |-> m.caller, ok |-> FALSE])
            /\ UNCHANGED <<toLogin, tableVars, clientVars>>
       ELSE /\ IF users = 0 THEN UNCHANGED <<tableVars, clientVars>>
               ELSE LogoutHere(m.subid) /\ UNCHANGED kicked
            /\ ToLogin([type |-> "logout", caller |-> m.caller, agent |-> m.agent])
            /\ UNCHANGED inbox
    /\ UNCHANGED <<loginVars, agentVars, mgrVars>>

\* The agent's logout has answered kick_handler; an error is an answer too.
GateKicked ==
    /\ Next1(toGate, "kicked") /\ toGate' = Tail(toGate)
    /\ ToLogin([type |-> "kicked", ok |-> TRUE])
    /\ UNCHANGED <<loginVars, tableVars, clientVars, agentVars, mgrVars, inbox>>

\* agentexit_handler
AgentExit ==
    /\ Next1(toGate, "agentexit") /\ toGate' = Tail(toGate)
    /\ users' = IF users # 0 /\ obj[users].agent = Head(toGate).agent THEN 0 ELSE users
    /\ UNCHANGED <<loginVars, internal_id, obj, username_map, user_online, kicked, clientVars,
                   agentVars, mgrVars, toLogin, inbox>>

----------------------------------------------------------------------------
(* The agent, and agent_mgr, whose handlers only change its own table *)

Receive(a, t) == Next1(inbox[a], t) /\ inbox' = [inbox EXCEPT ![a] = Tail(@)]

PlayerLogin(a) == players' = a /\ onlineNum' = onlineNum + 1

\* Mutants: a logout that does not forget the player, or counts without looking.
LogoutKeepsPlayer == UNCHANGED players /\ onlineNum' = IF players # None THEN onlineNum - 1 ELSE onlineNum

PlayerLogout ==
    /\ players' = None
    /\ onlineNum' = IF players # None THEN onlineNum - 1 ELSE onlineNum

\* CMD.login up to its first call.
LoginStart(a) ==
    /\ Receive(a, "login")
    /\ agent' = [agent EXCEPT ![a].subid = Head(inbox[a]).subid]
    /\ login' = [login EXCEPT ![Head(inbox[a]).fd] = "shutdown"]
    /\ UNCHANGED <<loginVars, tableVars, clientVars, logout, mgrVars, toLogin, toGate>>

\* Mutant: a login does not start the heartbeat anew.
MarkedWithoutBeat(f) ==
    /\ login[f] = "shutdown"
    /\ agent' = [agent EXCEPT ![auth[f].agent].isLogin = TRUE]
    /\ login' = [login EXCEPT ![f] = "db"]
    /\ UNCHANGED <<loginVars, tableVars, clientVars, logout, mgrVars, toLogin, toGate, inbox>>

\* agent_mgr has answered get_server_shutdown; initHeartbeat, isLogin.
LoginMarked(f) ==
    /\ login[f] = "shutdown"
    /\ agent' = [agent EXCEPT ![auth[f].agent].isLogin = TRUE, ![auth[f].agent].beat = TRUE]
    /\ login' = [login EXCEPT ![f] = "db"]
    /\ UNCHANGED <<loginVars, tableVars, clientVars, logout, mgrVars, toLogin, toGate, inbox>>

\* The user's data are there; _loginHander, and the end of CMD.login.
LoginEnd(f) ==
    /\ login[f] = "db"
    /\ login' = [login EXCEPT ![f] = "none"]
    /\ agent' = [agent EXCEPT ![auth[f].agent].online = "on"]
    /\ PlayerLogin(auth[f].agent)
    /\ ToGate([type |-> "loggedIn", fd |-> f, ok |-> TRUE])
    /\ UNCHANGED <<loginVars, tableVars, clientVars, logout, toLogin, inbox>>

\* The user is forbidden to log in: that is the answer, and logout follows in a fork.
LoginForbidden(f) ==
    /\ login[f] = "db"
    /\ login' = [login EXCEPT ![f] = "none"]
    /\ agent' = [agent EXCEPT ![auth[f].agent].online = IF @ = "unknown" THEN "off" ELSE @]
    /\ logout' = [logout EXCEPT ![Forbid(f)] = [at |-> "asked", agent |-> auth[f].agent]]
    /\ ToGate([type |-> "loggedIn", fd |-> f, ok |-> FALSE])
    /\ UNCHANGED <<loginVars, tableVars, clientVars, mgrVars, toLogin, inbox>>

\* CMD.reconnect and CMD.afk; before the user's data are there both are errors.
SetOnline(a, t, value) ==
    /\ Receive(a, t)
    /\ agent' = [agent EXCEPT ![a].online = IF @ = "unknown" THEN @ ELSE value]
    /\ UNCHANGED <<loginVars, tableVars, clientVars, login, logout, mgrVars, toLogin, toGate>>

Reconnect(a) == SetOnline(a, "reconnect", "on")
Afk(a)       == SetOnline(a, "afk", "off")

\* _logoutComplete from PlayerLogout on (with an id once the data are there); the subid is
\* that of the latest login.
TellLogout(c, a) ==
    /\ logout' = [logout EXCEPT ![c] = [at |-> "gate", agent |-> a]]
    /\ IF agent[a].online = "unknown" THEN UNCHANGED mgrVars ELSE PlayerLogout
    /\ ToGate([type |-> "logout", caller |-> c, agent |-> a, subid |-> agent[a].subid])

\* The user's data are not there yet: ma_data.userInfo raises an error, which ends the
\* caller, and is the answer to a kick.
FailLogout(c) ==
    /\ logout' = [logout EXCEPT ![c] = NoLogout]
    /\ IF c = Kick THEN ToGate([type |-> "kicked"]) ELSE UNCHANGED toGate
    /\ UNCHANGED mgrVars

\* _logoutComplete, with the heartbeat timer set to beat: who is logged in goes offline
\* first, with calls to others.
LogoutComplete(c, a, beat) ==
    IF agent[a].isLogin
    THEN /\ agent' = [agent EXCEPT ![a].isLogin = FALSE, ![a].beat = beat,
                                   ![a].online = IF @ = "on" THEN "off" ELSE @]
         /\ IF agent[a].online = "unknown" THEN FailLogout(c)
            ELSE /\ logout' = [logout EXCEPT ![c] = [at |-> "offline", agent |-> a]]
                 /\ UNCHANGED <<mgrVars, toGate>>
    ELSE TellLogout(c, a) /\ agent' = [agent EXCEPT ![a].beat = beat]

\* CMD.logout for a kick, REQUEST.logout, and the logout of a forbidden user
Logout(a) ==
    /\ Receive(a, "logout")
    /\ LogoutComplete(Kick, a, agent[a].beat)
    /\ UNCHANGED <<loginVars, tableVars, clientVars, login, toLogin>>

ClientLogout(a) ==
    /\ Receive(a, "request")
    /\ LogoutComplete(ByClient, a, agent[a].beat)
    /\ UNCHANGED <<loginVars, tableVars, clientVars, login, toLogin>>

ForbiddenLogout(f) ==
    /\ logout[Forbid(f)].at = "asked"
    /\ LogoutComplete(Forbid(f), logout[Forbid(f)].agent, agent[logout[Forbid(f)].agent].beat)
    /\ UNCHANGED <<loginVars, tableVars, clientVars, login, toLogin, inbox>>

\* The heartbeat has run out: the timer is stopped, and CMD.exit begins with
\* _logoutComplete.  A login that has started the timer anew, and an exit that is under way,
\* are not five minutes old.
HeartbeatOut(a) ==
    /\ Alive(a) /\ agent[a].beat /\ agent[a].online # "unknown"
    /\ logout[Exit(a)].at = "none" /\ \A f \in Fds : auth[f].agent = a => login[f] # "db"
    /\ LogoutComplete(Exit(a), a, FALSE)
    /\ UNCHANGED <<loginVars, tableVars, clientVars, login, toLogin, inbox>>

\* afk and push_loginout have had their answers.
WentOffline(c) ==
    /\ logout[c].at = "offline"
    /\ TellLogout(c, logout[c].agent)
    /\ UNCHANGED <<loginVars, tableVars, clientVars, agent, login, toLogin, inbox>>

\* The gate has answered: a kick is answered, other callers end.
LogoutDone(a) ==
    /\ Next1(inbox[a], "logoutDone")
    /\ ~(Head(inbox[a]).caller = Exit(a) /\ Head(inbox[a]).ok)
    /\ LET c == Head(inbox[a]).caller IN
       /\ logout' = [logout EXCEPT ![c] = NoLogout]
       /\ IF c = Kick THEN ToGate([type |-> "kicked"]) ELSE UNCHANGED toGate
    /\ inbox' = [inbox EXCEPT ![a] = Tail(@)]
    /\ UNCHANGED <<loginVars, tableVars, clientVars, agent, login, mgrVars, toLogin>>

\* The connections and the kick that wait for an answer of agent a: in a coroutine that is
\* suspended, or in a message that has not been read.
Unanswered(a) ==
    {f \in Fds : auth[f].agent = a /\ (login[f] # "none" \/ \E m \in Range(inbox[a]) :
                                         m.type = "login" /\ m.fd = f)}
KickWaits(a) ==
    logout[Kick].agent = a \/ \E m \in Range(inbox[a]) : m.type = "logout"

\* Mutant: the kick is not told of the exit.
ErrorsToClientsOnly(a) == {[type |-> "loggedIn", fd |-> f, ok |-> FALSE] : f \in Unanswered(a)}

\* The errors that skynet.exit, and the queue when it is dropped, send to the callers.
Errors(a) ==
    {[type |-> "loggedIn", fd |-> f, ok |-> FALSE] : f \in Unanswered(a)}
        \cup (IF KickWaits(a) THEN {[type |-> "kicked"]} ELSE {})

\* The rest of CMD.exit.  (If the gate's answer is an error CMD.exit goes no further, and
\* the heartbeat has been stopped.)  The errors come in any order: skynet.exit goes through a
\* table with pairs.
AgentDies(a) ==
    /\ Next1(inbox[a], "logoutDone")
    /\ Head(inbox[a]).caller = Exit(a) /\ Head(inbox[a]).ok
    /\ agent' = [agent EXCEPT ![a] = [Unborn EXCEPT !.life = "dead"]]
    /\ \E errors \in SetToSeqs(Errors(a)) :
           toGate' = Append(toGate, [type |-> "agentexit", agent |-> a]) \o errors
    /\ inbox' = [inbox EXCEPT ![a] = <<>>]
    /\ login' = [f \in Fds |-> IF auth[f].agent = a THEN "none" ELSE login[f]]
    /\ logout' = [c \in Callers |-> IF logout[c].agent = a THEN NoLogout ELSE logout[c]]
    /\ UNCHANGED <<loginVars, tableVars, clientVars, mgrVars, toLogin>>

----------------------------------------------------------------------------
LoginServer == LogindLogout \/ KickAnswered \/ LoginAnswered

Gate ==
    \/ GateLogin \/ GateKick \/ GateLogoutDone \/ LoginReply
    \/ GateLogout \/ GateKicked \/ AgentExit
    \/ \E f \in Fds : Disconnect(f)

Agent(a) ==
    \/ LoginStart(a) \/ Reconnect(a) \/ Afk(a) \/ Logout(a) \/ ClientLogout(a)
    \/ LogoutDone(a) \/ AgentDies(a)

\* An answer from a service that is not modelled.
Resume ==
    \/ \E f \in Fds : \/ LoginMarked(f) \/ LoginEnd(f) \/ ForbiddenLogout(f)
                      \/ \E a \in Agents : GotAgent(f, a)
    \/ \E c \in Callers : WentOffline(c)

Client == Accept \/ \E f \in Fds, s \in Subids, index \in {"new", "expired"} : Handshake(f, s, index)

\* What MaxExtras bounds.
Extra ==
    \/ \E f \in Fds : LoginForbidden(f) \/ \E a \in Agents : RequestLogout(f, a)
    \/ \E a \in Agents : HeartbeatOut(a)

\* No handler is under way, and no message.
Quiet ==
    /\ accept = "idle" /\ toLogin = <<>> /\ toGate = <<>>
    /\ \A a \in Agents : inbox[a] = <<>>
    /\ \A f \in Fds : sock[f] # "closing" /\ auth[f].at \in {"none", "over"} /\ login[f] = "none"
    /\ \A c \in Callers : logout[c].at = "none"

\* Nothing left to do, which is not a deadlock: in any other state somebody can go on.
Rest == Quiet /\ UNCHANGED vars

Next ==
    \/ Extra /\ extras < MaxExtras /\ extras' = extras + 1
    \/ /\ Client \/ LoginServer \/ Gate \/ Resume \/ \E a \in Agents : Agent(a)
       /\ UNCHANGED extras
    \/ Rest

Spec == Init /\ [][Next]_vars

----------------------------------------------------------------------------
(* What the queues hold *)

LoginMessages ==
    [type : {"logout"}, caller : Callers, agent : Agents \cup {None}]
        \cup [type : {"kicked"}, ok : BOOLEAN]
        \cup [type : {"loggedIn"}, subid : 0..MaxLogins]

GateMessages ==
    [type : {"kick", "login"}, subid : 0..MaxLogins]
        \cup [type : {"logoutDone"}, caller : Callers, agent : Agents \cup {None}]
        \cup [type : {"loggedIn"}, fd : Fds, ok : BOOLEAN]
        \cup [type : {"logout"}, caller : Callers, agent : Agents, subid : 0..MaxLogins]
        \cup [type : {"kicked"}]
        \cup [type : {"agentexit"}, agent : Agents]

AgentMessages ==
    [type : {"login"}, fd : Fds, subid : 0..MaxLogins]
        \cup [type : {"reconnect", "afk", "request", "logout"}]
        \cup [type : {"logoutDone"}, caller : Callers, ok : BOOLEAN]

TypeOK ==
    /\ accept \in {"idle", "kick", "login"} /\ online \in 0..internal_id
    /\ internal_id \in 0..MaxLogins /\ users \in 0..internal_id /\ kicked \in 0..internal_id
    /\ obj \in [Subids -> [subid : 0..internal_id, agent : Agents \cup {None}, islogout : BOOLEAN]]
    /\ username_map \in [Subids -> 0..internal_id]
    /\ user_online \subseteq 1..internal_id
    /\ fdOf \in [Subids -> {0} \cup Fds]
    /\ connection \in [Fds -> 0..internal_id]
    /\ sock \in [Fds -> {"none", "open", "closing", "closed"}]
    /\ auth \in [Fds -> [at : {"none", "getAgent", "login", "over"}, subid : 0..internal_id,
                         obj : 0..internal_id, agent : Agents \cup {None}]]
    /\ agent \in [Agents -> [life : {"unborn", "alive", "dead"}, isLogin : BOOLEAN,
                             online : {"unknown", "on", "off"}, subid : 0..internal_id, beat : BOOLEAN]]
    /\ login \in [Fds -> {"none", "shutdown", "db"}]
    /\ logout \in [Callers -> [at : {"none", "asked", "offline", "gate"}, agent : Agents \cup {None}]]
    /\ players \in Agents \cup {None} /\ onlineNum \in Nat
    /\ toLogin \in Seq(LoginMessages) /\ toGate \in Seq(GateMessages)
    /\ inbox \in [Agents -> Seq(AgentMessages)]
    /\ \A a \in Agents : inbox[a] # <<>> => Alive(a)

\* How many messages of a queue are in a set.
Count(queue, messages) == Cardinality({i \in DOMAIN queue : queue[i] \in messages})

\* The messages that carry the call of accept, or its answer: the kick and its answers, the
\* logout of a kick without an agent, the login and its answer.
AcceptAtLogin == {m \in LoginMessages : m.type \in {"kicked", "loggedIn"} \/ (m.type = "logout" /\ m.agent = None)}
AcceptAtGate  == {m \in GateMessages : m.type \in {"kick", "login", "kicked"} \/ (m.type = "logoutDone" /\ m.agent = None)}
AcceptAtAgent == {m \in AgentMessages : m.type = "logout"}

\* The places where the answer to the call of accept can be: a message, or the handler that
\* runs for it in an agent.
AcceptTokens ==
    Count(toLogin, AcceptAtLogin) + Count(toGate, AcceptAtGate)
        + Cardinality({a \in Agents : Count(inbox[a], AcceptAtAgent) > 0})
        + (IF logout[Kick].at # "none" THEN 1 ELSE 0)

\* The same for the login of an agent that do_auth of connection f waits for.
LoginAtGate(f)  == {m \in GateMessages : m.type = "loggedIn" /\ m.fd = f}
LoginAtAgent(f) == {m \in AgentMessages : m.type = "login" /\ m.fd = f}

LoginTokens(f) ==
    Count(toGate, LoginAtGate(f))
        + Cardinality({a \in Agents : Count(inbox[a], LoginAtAgent(f)) > 0})
        + (IF login[f] # "none" THEN 1 ELSE 0)

\* The same for the logout at the gate that _logoutComplete waits for.
LogoutAtLogin(c, a) == {m \in LoginMessages : m.type = "logout" /\ m.caller = c /\ m.agent = a}
LogoutAtGate(c, a)  == {m \in GateMessages : m.type \in {"logout", "logoutDone"} /\ m.caller = c /\ m.agent = a}
LogoutAtAgent(c)    == {m \in AgentMessages : m.type = "logoutDone" /\ m.caller = c}

LogoutTokens(c, a) ==
    Count(toLogin, LogoutAtLogin(c, a)) + Count(toGate, LogoutAtGate(c, a))
        + Count(inbox[a], LogoutAtAgent(c))

\* Every call is answered exactly once: while accept, do_auth or _logoutComplete waits, there
\* is one place, a message or a running handler, from which its answer will come, also when
\* the agent that was to answer exits in between (the errors of skynet.exit); and when nobody
\* waits there is none.  Otherwise user_login would stay locked, or a late answer would be
\* taken for the next login's.
OneAnswer ==
    /\ AcceptTokens = IF accept = "idle" THEN 0 ELSE 1
    /\ \A f \in Fds : LoginTokens(f) = IF auth[f].at = "login" THEN 1 ELSE 0
    /\ \A c \in Callers : logout[c].at = "gate" => LogoutTokens(c, logout[c].agent) = 1

\* The login server's record and the gate's never name two sessions when the one kicks the
\* other: the assertion in kick_handler (u.username == username) holds whatever logouts and
\* exits are under way.  Otherwise every later login would fail in the same way.
KickFindsSession ==
    \A m \in Range(toGate) : m.type = "kick" /\ users # 0 => obj[users].subid = m.subid

\* The two records may disagree: a late logout clears the login server's record of a newer
\* session (CMD.logout does not compare the subid), or a kick comes between get_a_agent and
\* the login, and then the gate refuses each login ("already login") though nobody is online.
\* That ends by itself: the agent in the way is alive, its heartbeat runs, and it knows the
\* subid that lets its logout pass the assertion in logout_handler.
LockoutEnds ==
    Quiet /\ online = 0 /\ users # 0 /\ ~obj[users].islogout =>
        LET a == obj[users].agent IN
        Alive(a) /\ agent[a].beat /\ agent[a].subid = obj[users].subid

\* However logins, kicks and exits overlap, onlineNum of agent_mgr counts the registered
\* player at least once, so that it never falls below zero.  (It may count more: PlayerLogin
\* counts every login.)
CountNeverShort == onlineNum >= IF players = None THEN 0 ELSE 1

\* What one service does on another's word is right: the login server's kick at the gate,
\* and the agents' registrations at agent_mgr.
RecordsAgree == TypeOK /\ KickFindsSession /\ CountNeverShort

----------------------------------------------------------------------------
(* The inductive invariant *)

\* The gate's tables: who is known has an object, objects that do not exist yet are blank,
\* and an agent belongs to one object.
TablesInv ==
    /\ user_online = {s \in Subids : username_map[s] # 0}
    /\ \A o \in Subids : o > internal_id => obj[o] = NoObject
    /\ \A o \in Subids : obj[o].agent # None => agent[obj[o].agent].life # "unborn"
    /\ \A o, p \in Subids : obj[o].agent # None /\ obj[o].agent = obj[p].agent => o = p

\* What the place of a handler says of the one it waits for.
HandlersInv ==
    /\ \A f \in Fds : sock[f] = "none" => auth[f].at = "none"
    /\ \A f \in Fds : auth[f].at \in {"getAgent", "login"} => auth[f].subid # 0 /\ auth[f].obj # 0
    /\ \A f \in Fds : auth[f].agent # None <=> auth[f].at = "login"
    /\ \A f \in Fds : login[f] # "none" => auth[f].at = "login" /\ Alive(auth[f].agent)
    /\ \A a \in Agents : \A m \in Range(inbox[a]) :
          m.type = "login" => auth[m.fd].at = "login" /\ auth[m.fd].agent = a /\ m.subid <= internal_id
    /\ \A c \in Callers : logout[c].agent # None <=> logout[c].at # "none"
    /\ \A c \in Callers : logout[c].at # "none" => Alive(logout[c].agent)
    /\ \A a \in Agents : logout[Exit(a)].agent \in {None, a}

\* A logout message for an agent: the kick waits for it.
KickAsks(a) == Count(inbox[a], AcceptAtAgent)

\* accept: one place; in an agent's queue, one message in one queue.
AcceptInv ==
    /\ \A a \in Agents : KickAsks(a) <= 1
    /\ \A a, b \in Agents : KickAsks(a) > 0 /\ KickAsks(b) > 0 => a = b
    /\ Count(toLogin, AcceptAtLogin) + Count(toGate, AcceptAtGate)
           + (IF \E a \in Agents : KickAsks(a) > 0 THEN 1 ELSE 0)
           + (IF logout[Kick].at # "none" THEN 1 ELSE 0)
         = IF accept = "idle" THEN 0 ELSE 1

\* do_auth: one place, at the gate or in the agent it has called.
AuthInv ==
    \A f \in Fds :
        IF auth[f].at = "login"
        THEN Count(toGate, LoginAtGate(f)) + Count(inbox[auth[f].agent], LoginAtAgent(f))
                 + (IF login[f] # "none" THEN 1 ELSE 0) = 1
        ELSE Count(toGate, LoginAtGate(f)) = 0

RequestAtAgent == {m \in AgentMessages : m.type = "request"}

\* _logoutComplete: one place while it waits for the gate, none otherwise; a client's request
\* and a forbidden login are under way once.
LogoutInv ==
    /\ \A c \in Callers, a \in Agents : agent[a].life # "dead" =>
          LogoutTokens(c, a) = IF logout[c].at = "gate" /\ logout[c].agent = a THEN 1 ELSE 0
    /\ \A a \in Agents : Count(inbox[a], RequestAtAgent) <= 1
    /\ \A a \in Agents : Count(inbox[a], RequestAtAgent) > 0 =>
          logout[ByClient].at = "asked" /\ logout[ByClient].agent = a
    /\ \A f \in Fds : logout[Forbid(f)].at # "none" =>
          auth[f].at = "over" \/ Count(toGate, LoginAtGate(f)) > 0

\* The records of the login server and the gate: what the login server knows, will know, or
\* asks the gate to kick is the session the gate has, if it has one.
RecordsInv ==
    /\ accept # "idle" => internal_id < MaxLogins \/ \E m \in Range(toLogin) : m.type = "loggedIn"
    /\ \A m \in Range(toLogin) : m.type = "loggedIn" => m.subid <= internal_id
    /\ users # 0 =>
        /\ \A m \in Range(toLogin) : m.type = "loggedIn" /\ m.subid # 0 => obj[users].subid = m.subid
        /\ online # 0 /\ (\A m \in Range(toLogin) : m.type = "loggedIn" => m.subid = 0) =>
              obj[users].subid = online
        /\ \A m \in Range(toGate) : m.type = "kick" => obj[users].subid = m.subid

\* A login waits in an agent's queue.
LoginAsks(queue) == \E m \in Range(queue) : m.type = "login"

\* An agent that has the subid now will have s when it has read the queue.
WillHave(queue, now, s) ==
    /\ ~LoginAsks(queue) => now = s
    /\ \A i \in DOMAIN queue :
          queue[i].type = "login" /\ (\A j \in DOMAIN queue : j > i => queue[j].type # "login") =>
              queue[i].subid = s

\* The heartbeat of agent a runs, or will run, or has run out and the logout that follows
\* will pass for subid s.
WillBeat(a, s) ==
    \/ agent[a].beat \/ LoginAsks(inbox[a]) \/ logout[Exit(a)].at = "offline"
    \/ \E f \in Fds : login[f] = "shutdown" /\ auth[f].agent = a
    \/ [type |-> "logout", caller |-> Exit(a), agent |-> a, subid |-> s] \in Range(toGate)

\* The agent of the session: if it has exited the gate will hear of it, and while the session
\* counts as logged in the agent has, or will have, its subid and a heartbeat.
LockoutInv ==
    users # 0 =>
        LET a == obj[users].agent IN
        /\ a # None /\ agent[a].life = "dead" => [type |-> "agentexit", agent |-> a] \in Range(toGate)
        /\ ~obj[users].islogout => a # None
        /\ ~obj[users].islogout /\ Alive(a) =>
              WillHave(inbox[a], agent[a].subid, obj[users].subid) /\ WillBeat(a, obj[users].subid)

SessionInv ==
    /\ TypeOK /\ TablesInv /\ HandlersInv /\ AcceptInv /\ AuthInv /\ LogoutInv
    /\ RecordsInv /\ CountNeverShort /\ LockoutInv

=============================================================================

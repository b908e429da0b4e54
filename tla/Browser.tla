------------------------------ MODULE Browser -------------------------------
(***************************************************************************)
(* The browser's side of authentication: the API client with its single    *)
(* refresh in flight and its retry (api/client.ts), and the provider that  *)
(* restores, opens and closes the session a tab shows (AuthProvider.tsx),  *)
(* against a server that treats tokens as Sessions.tla does.               *)
(*                                                                         *)
(* The tabs of one browser share its cookies, and each has a client and a  *)
(* provider of its own.  A task is one asynchronous function in progress.  *)
(* A call takes three steps: it leaves with the cookies of that moment,    *)
(* the server serves it, and the answer arrives, replacing the cookies if  *)
(* it sets any.  Either message may be lost, which the client sees as a    *)
(* network error; answers of different calls arrive in any order.          *)
(* Access and refresh cookies are always set and cleared together.         *)
(***************************************************************************)
EXTENDS Naturals, FiniteSets

CONSTANTS
    Tabs,
    Tasks,       \* the asynchronous functions that may be in progress at once
    SessionIds,
    Placements,  \* the ways in which the tasks belong to tabs
    MaxTokens,   \* bound on the token pairs ever issued
    MaxFaults,   \* bound on lost messages, failed calls and expirations
    NoTask, NoSession

ASSUME TabsAssumption == Placements \subseteq [Tasks -> Tabs] /\ NoTask \notin Tasks
ASSUME TokensAssumption == MaxTokens \in Nat /\ MaxFaults \in Nat /\ NoSession \notin SessionIds

VARIABLES
    session,   \* session[s]: "none", "active" or "over" (revoked or expired)
    newest,    \* newest[s]: the token pair that refresh_jti_hash stands for
    issued,    \* token pairs issued so far: 1..issued
    opener,    \* opener[t]: the session that pair t belongs to
    fresh,     \* pairs whose access token has not expired
    jar,       \* the pair in the cookies, 0 for none
    status,    \* status[b]: what the provider of tab b shows
    latest,    \* latest[b]: the restoration that restoreSequence.current stands for
    tabOf,     \* tabOf[k]: the tab that task k belongs to, fixed
    task,      \* task[k]: what task k does
    outdated,  \* restorations during which the tab was signed out or restored anew
    faults,    \* messages lost, calls failed and expirations so far
    reused,    \* the server has seen a replaced refresh token
    excused    \* a refresh's answer was lost, or two tabs refreshed at once

server == <<session, newest, issued, opener, fresh>>
provider == <<status, latest, outdated>>
history == <<reused, excused>>
vars == <<server, jar, provider, tabOf, task, faults, history>>
----------------------------------------------------------------------------
Tokens == 1..MaxTokens

Shown == {"initializing", "authenticated", "unauthenticated", "recoverable-error"}

\* "user" and "workspaces" are the two requests of a restoration.
Requests == {"user", "workspaces", "page", "change", "login", "logout"}

\* step: "sent" and "answered" for the request itself, "refresh" and
\* "refreshed" for a refresh that this task runs, "wait" for another's.
TaskState == [request : Requests \cup {"none"},
              step : {"idle", "sent", "answered", "refresh", "refreshed", "wait"},
              token : 0..MaxTokens,
              outcome : {"none", "ok", "unauthorized", "failed"},
              sets : 0..MaxTokens,
              retried : BOOLEAN,
              login : BOOLEAN]

Idle == [request |-> "none", step |-> "idle", token |-> 0, outcome |-> "none",
         sets |-> 0, retried |-> FALSE, login |-> FALSE]

TypeOK ==
    /\ session \in [SessionIds -> {"none", "active", "over"}]
    /\ newest \in [SessionIds -> 0..issued]
    /\ issued \in 0..MaxTokens
    /\ opener \in [Tokens -> SessionIds \cup {NoSession}]
    /\ fresh \subseteq 1..issued
    /\ jar \in 0..issued
    /\ status \in [Tabs -> Shown]
    /\ latest \in [Tabs -> Tasks \cup {NoTask}]
    /\ tabOf \in Placements
    /\ task \in [Tasks -> TaskState]
    /\ outdated \subseteq Tasks
    /\ faults \in 0..MaxFaults
    /\ reused \in BOOLEAN /\ excused \in BOOLEAN

Init ==
    /\ session = [s \in SessionIds |-> "none"]
    /\ newest = [s \in SessionIds |-> 0]
    /\ issued = 0
    /\ opener = [t \in Tokens |-> NoSession]
    /\ fresh = {}
    /\ jar = 0
    /\ status = [b \in Tabs |-> "initializing"]
    /\ latest = [b \in Tabs |-> NoTask]
    /\ tabOf \in Placements
    /\ task = [k \in Tasks |-> Idle]
    /\ outdated = {}
    /\ faults = 0
    /\ reused = FALSE /\ excused = FALSE
----------------------------------------------------------------------------
\* execute: the request leaves with the cookies of the moment, for a task that
\* did q before; what login has begun stays part of the login.
Sent(q, request, cookies, again) ==
    [Idle EXCEPT !.request = request, !.step = "sent", !.token = cookies,
                 !.retried = again, !.login = q.login \/ request = "login"]

Restoring(k) == task[k].request \in {"user", "workspaces"}

\* clearAuthenticatedState, at the end of the tasks ended.
SignOut(b, ended) ==
    /\ status' = [status EXCEPT ![b] = "unauthenticated"]
    /\ latest' = [latest EXCEPT ![b] = NoTask]
    /\ outdated' = (outdated \cup {k \in Tasks : tabOf[k] = b /\ Restoring(k)}) \ ended

\* restoreSession begins, for task k.
BeginRestore(k) ==
    LET b == tabOf[k] IN
    /\ status' = [status EXCEPT ![b] = "initializing"]
    /\ latest' = [latest EXCEPT ![b] = k]
    /\ outdated' = outdated \cup {j \in Tasks : tabOf[j] = b /\ Restoring(j)}

\* restoreSession ends, unless something newer has happened to the tab.
AnySequence(k) == TRUE                  \* mutant: the sequence is not compared

Current(k) == latest[tabOf[k]] = k

EndRestore(k, shown) ==
    /\ status' = IF Current(k) THEN [status EXCEPT ![tabOf[k]] = shown] ELSE status
    /\ latest' = [latest EXCEPT ![tabOf[k]] = IF Current(k) THEN NoTask ELSE @]
    /\ outdated' = outdated \ {k}
----------------------------------------------------------------------------
(***************************************************************************)
(* What the user and the pages begin                                       *)
(***************************************************************************)
\* The provider mounts, or the user tries again after an error.
Restore(k) ==
    LET b == tabOf[k] IN
    /\ task[k] = Idle
    /\ \/ status[b] = "initializing" /\ latest[b] = NoTask
       \/ status[b] = "recoverable-error"
    /\ BeginRestore(k)
    /\ task' = [task EXCEPT ![k] = Sent(Idle, "user", jar, FALSE)]
    /\ UNCHANGED <<server, jar, faults, history>>

\* The login form: loginInFlight admits one attempt, which lasts until the
\* restoration that it begins has ended.
Login(k) ==
    LET b == tabOf[k] IN
    /\ task[k] = Idle
    /\ status[b] = "unauthenticated"
    /\ \A j \in Tasks : tabOf[j] = b => ~task[j].login
    /\ task' = [task EXCEPT ![k] = Sent(Idle, "login", jar, FALSE)]
    /\ UNCHANGED <<server, jar, provider, faults, history>>

\* A page loads something, or the profile page or the shell acts.
Use(k) ==
    /\ task[k] = Idle
    /\ status[tabOf[k]] = "authenticated"
    /\ \E request \in {"page", "change", "logout"} :
          task' = [task EXCEPT ![k] = Sent(Idle, request, jar, FALSE)]
    /\ UNCHANGED <<server, jar, provider, faults, history>>
----------------------------------------------------------------------------
(***************************************************************************)
(* The server                                                              *)
(***************************************************************************)
\* get_current_user
Authorized(t) == t # 0 /\ t \in fresh /\ session[opener[t]] = "active"

Unrecorded(s) ==                        \* mutant: handed out, not stored
    /\ issued < MaxTokens
    /\ opener' = [opener EXCEPT ![issued + 1] = s]
    /\ fresh' = fresh \cup {issued + 1}
    /\ UNCHANGED <<issued, newest>>

Issue(s) ==
    /\ issued < MaxTokens
    /\ issued' = issued + 1
    /\ newest' = [newest EXCEPT ![s] = issued + 1]
    /\ opener' = [opener EXCEPT ![issued + 1] = s]
    /\ fresh' = fresh \cup {issued + 1}

End(s) ==
    /\ session' = [session EXCEPT ![s] = "over"]
    /\ UNCHANGED <<newest, issued, opener, fresh>>

\* The answer arrives, or the call fails: it, or its answer, was lost.
Fault(n) == faults + n <= MaxFaults /\ faults' = faults + n

Answer(k, step, outcome, sets) ==
    \E got \in {outcome, "failed"} :
        /\ Fault(IF got = outcome THEN 0 ELSE 1)
        /\ task' = [task EXCEPT ![k].step = step, ![k].token = 0, ![k].outcome = got,
                                ![k].sets = IF got = outcome THEN sets ELSE 0]

\* The request never reached the server.
Lose(k, step) ==
    /\ Fault(1) \/ (issued = MaxTokens /\ UNCHANGED faults)
    /\ task' = [task EXCEPT ![k].step = step, ![k].token = 0, ![k].outcome = "failed"]

ServeRead(k) ==
    /\ task[k].request \in {"user", "workspaces", "page"}
    /\ Answer(k, "answered", IF Authorized(task[k].token) THEN "ok" ELSE "unauthorized", 0)
    /\ UNCHANGED server

\* The current password may be wrong, or the new one against the policy.
ServeChange(k) ==
    /\ task[k].request = "change"
    /\ \/ /\ ~Authorized(task[k].token)
          /\ Answer(k, "answered", "unauthorized", 0)
          /\ UNCHANGED server
       \/ /\ Authorized(task[k].token)
          /\ Answer(k, "answered", "failed", 0)
          /\ UNCHANGED server
       \/ /\ Authorized(task[k].token)
          /\ session' = [s \in SessionIds |-> IF session[s] = "none" THEN "none" ELSE "over"]
          /\ Answer(k, "answered", "ok", 0)
          /\ UNCHANGED <<newest, issued, opener, fresh>>

ServeLogin(k) ==
    /\ task[k].request = "login"
    /\ \/ /\ \E s \in SessionIds :
                 /\ session[s] = "none"
                 /\ session' = [session EXCEPT ![s] = "active"]
                 /\ Issue(s)
          /\ Answer(k, "answered", "ok", issued + 1)
       \/ /\ Answer(k, "answered", "failed", 0)    \* invalid credentials
          /\ UNCHANGED server

\* Without an access cookie a logout succeeds and ends nothing; an expired
\* token is refused and clears no cookie.  Whether the browser still sends an
\* expired one depends on the cookie's lifetime, which is the library's.
ServeLogout(k) ==
    LET t == task[k].token IN
    /\ task[k].request = "logout"
    /\ \/ /\ t \notin fresh
          /\ Answer(k, "answered", "ok", 0)
          /\ UNCHANGED server
       \/ /\ t # 0 /\ t \notin fresh
          /\ Answer(k, "answered", "failed", 0)
          /\ UNCHANGED server
       \/ /\ t \in fresh
          /\ End(opener[t])
          /\ Answer(k, "answered", "ok", 0)

Serve(k) ==
    /\ task[k].step = "sent"
    /\ \/ ServeRead(k) \/ ServeChange(k) \/ ServeLogin(k) \/ ServeLogout(k)
       \/ Lose(k, "answered") /\ UNCHANGED server
    /\ UNCHANGED <<jar, provider, history>>

\* POST /auth/refresh, as LoadSession and Rotate of Sessions.tla.
Usable(t) == t # 0 /\ session[opener[t]] = "active"

Newest(t) == newest[opener[t]] = t

ServeRefresh(k) ==
    LET t == task[k].token IN
    /\ task[k].step = "refresh"
    /\ \/ /\ ~Usable(t)
          /\ Answer(k, "refreshed", "unauthorized", 0)
          /\ UNCHANGED <<server, reused>>
       \/ /\ Usable(t) /\ ~Newest(t)
          /\ End(opener[t])
          /\ reused' = TRUE
          /\ Answer(k, "refreshed", "unauthorized", 0)
       \/ /\ Usable(t) /\ Newest(t)
          /\ Issue(opener[t])
          /\ Answer(k, "refreshed", "ok", issued + 1)
          /\ UNCHANGED <<session, reused>>
       \/ Lose(k, "refreshed") /\ UNCHANGED <<server, reused>>
    /\ excused' = (excused \/ (issued' # issued /\ task'[k].outcome = "failed"))
    /\ UNCHANGED <<jar, provider>>

\* Access tokens expire; sessions expire or are ended from elsewhere.
Expire ==
    /\ \/ \E t \in fresh : fresh' = fresh \ {t} /\ UNCHANGED <<session, newest, issued, opener>>
       \/ \E s \in SessionIds : session[s] = "active" /\ End(s)
    /\ Fault(1)
    /\ UNCHANGED <<jar, provider, task, history>>
----------------------------------------------------------------------------
(***************************************************************************)
(* The client, when an answer arrives                                      *)
(***************************************************************************)
\* shouldRefresh of request()
ShouldRefresh(q) ==
    q.outcome = "unauthorized" /\ ~q.retried /\ q.request \notin {"login", "logout"}

\* refresh(): share the promise in flight, or be the one who runs it.
Runs(k) == task[k].step \in {"refresh", "refreshed"}

Unshared(b) == FALSE                    \* mutant: no promise is shared

InFlight(b) == \E k \in Tasks : tabOf[k] = b /\ Runs(k)

ReceiveUnauthorized(k) ==
    /\ task[k].step = "answered" /\ ShouldRefresh(task[k])
    /\ \/ /\ InFlight(tabOf[k])
          /\ task' = [task EXCEPT ![k].step = "wait"]
          /\ UNCHANGED excused
       \/ /\ ~InFlight(tabOf[k])
          /\ task' = [task EXCEPT ![k].step = "refresh", ![k].token = jar]
          /\ excused' = (excused \/ \E j \in Tasks : tabOf[j] # tabOf[k] /\ Runs(j))
    /\ UNCHANGED <<server, jar, provider, faults, reused>>

Sharing(k) == {k} \cup {j \in Tasks : tabOf[j] = tabOf[k] /\ task[j].step = "wait"}

\* The refresh succeeded: everyone who waited repeats their request.
ReceiveRefresh(k) ==
    /\ task[k].step = "refreshed" /\ task[k].outcome = "ok"
    /\ jar' = task[k].sets
    /\ task' = [j \in Tasks |->
                    IF j \in Sharing(k) THEN Sent(task[j], task[j].request, jar', TRUE) ELSE task[j]]
    /\ UNCHANGED <<server, provider, faults, history>>

\* It failed, for whatever reason: the failure handler signs the tab out and
\* everyone who waited gets the 401 that they started from.
ReceiveRefreshFailure(k) ==
    /\ task[k].step = "refreshed" /\ task[k].outcome # "ok"
    /\ SignOut(tabOf[k], Sharing(k))
    /\ task' = [j \in Tasks |-> IF j \in Sharing(k) THEN Idle ELSE task[j]]
    /\ UNCHANGED <<server, jar, faults, history>>

\* The catch of restoreSession, for anything but a 401.
StillInitializing == "initializing"     \* mutant: only a 401 is handled

OnFailure == "recoverable-error"

\* restoreSession: the user and then the workspaces, of which there may be none.
ReceiveRestore(k) ==
    LET q == task[k] IN
    /\ q.step = "answered" /\ Restoring(k) /\ ~ShouldRefresh(q)
    /\ \/ /\ q.outcome = "ok" /\ q.request = "user"
          /\ task' = [task EXCEPT ![k] = Sent(q, "workspaces", jar, FALSE)]
          /\ UNCHANGED provider
       \/ /\ q.outcome = "ok" /\ q.request = "workspaces"
          /\ \/ EndRestore(k, "authenticated") \/ EndRestore(k, "recoverable-error")
          /\ task' = [task EXCEPT ![k] = Idle]
       \/ /\ q.outcome = "unauthorized"
          /\ EndRestore(k, "unauthenticated")
          /\ task' = [task EXCEPT ![k] = Idle]
       \/ /\ q.outcome = "failed"
          /\ EndRestore(k, OnFailure)
          /\ task' = [task EXCEPT ![k] = Idle]
    /\ UNCHANGED <<server, jar, faults, history>>

\* login goes on with a restoration of its own.
ReceiveLogin(k) ==
    LET q == task[k] IN
    /\ q.step = "answered" /\ q.request = "login"
    /\ \/ /\ q.outcome = "ok"
          /\ jar' = q.sets
          /\ BeginRestore(k)
          /\ task' = [task EXCEPT ![k] = Sent(q, "user", jar', FALSE)]
       \/ /\ q.outcome = "failed"
          /\ task' = [task EXCEPT ![k] = Idle]
          /\ UNCHANGED <<jar, provider>>
    /\ UNCHANGED <<server, faults, history>>

\* logout signs out whatever the answer; changePassword does if it succeeded.
ReceiveUse(k) ==
    LET q == task[k] IN
    /\ q.step = "answered" /\ q.request \in {"page", "change", "logout"} /\ ~ShouldRefresh(q)
    /\ task' = [task EXCEPT ![k] = Idle]
    /\ jar' = IF q.outcome = "ok" /\ q.request # "page" THEN 0 ELSE jar
    /\ IF q.request = "logout" \/ (q.request = "change" /\ q.outcome = "ok")
       THEN SignOut(tabOf[k], {k}) ELSE UNCHANGED provider
    /\ UNCHANGED <<server, faults, history>>
----------------------------------------------------------------------------
Begin(k) == Restore(k) \/ Login(k) \/ Use(k)

Receive(k) ==
    \/ ReceiveUnauthorized(k) \/ ReceiveRefresh(k) \/ ReceiveRefreshFailure(k)
    \/ ReceiveRestore(k) \/ ReceiveLogin(k) \/ ReceiveUse(k)

Proceed(k) == Serve(k) \/ ServeRefresh(k) \/ Receive(k)

Next ==
    /\ Expire \/ \E k \in Tasks : Begin(k) \/ Proceed(k)
    /\ UNCHANGED tabOf

\* Every call is answered or fails, and the event loop of a tab handles every
\* answer.
FairSpec ==
    /\ Init /\ [][Next]_vars
    /\ \A k \in Tasks : WF_vars(Proceed(k) /\ UNCHANGED tabOf)
----------------------------------------------------------------------------
\* A browser does not run into the reuse detection by itself: the server sees
\* a replaced refresh token only if the answer of a refresh got lost or two
\* tabs refreshed at the same time.
ReuseExplained == reused => excused

\* A restoration that was overtaken by a logout, a failed refresh or another
\* restoration does not sign the tab in when it ends after all.
OvertakenStaysOut ==
    [][\A b \in Tabs : status'[b] = "authenticated" /\ status[b] # "authenticated" =>
          \E k \in Tasks \ outdated : tabOf[k] = b /\ task[k].request = "workspaces"
                                      /\ task'[k] = Idle]_vars

\* No tab shows "restoring your secure session" for ever: once a restoration
\* has begun, the tab comes to show something else, however the calls end.
RestorationEnds ==
    \A k \in Tasks : Restoring(k) ~> status[tabOf[k]] # "initializing"
=============================================================================

---------------------------- MODULE BrowserProofs ----------------------------
(***************************************************************************)
(* That a browser whose refreshes are answered, and of whose tabs one      *)
(* refreshes at a time, never shows the server a replaced refresh token;   *)
(* and that a restoration which was overtaken signs nobody in.             *)
(*                                                                         *)
(* The order of the token pairs is what the invariant adds: the pairs in   *)
(* use are the newest of their sessions, or their sessions have ended, or  *)
(* the one refresh in progress is about to bring the newest.               *)
(***************************************************************************)
EXTENDS Browser, TLAPS

\* A pair in use belongs to a session that was opened, and only the answer of a login or
\* of a refresh carries one.
Owned ==
    /\ \A t \in 1..issued : opener[t] \in SessionIds /\ session[opener[t]] # "none"
    /\ \A k \in Tasks :
          /\ task[k].token <= issued /\ task[k].sets <= issued
          /\ task[k].sets # 0 =>
                /\ task[k].outcome = "ok"
                /\ Runs(k) => task[k].step = "refreshed"
                /\ ~Runs(k) => task[k].request = "login" /\ task[k].step = "answered"

Opens(k) == task[k].sets # 0 /\ ~Runs(k)

\* What a login has opened is nobody else's before its answer arrives.
Unshown(k) ==
    LET s == opener[task[k].sets] IN
    /\ newest[s] = task[k].sets
    /\ jar # 0 => opener[jar] # s
    /\ \A j \in Tasks :
          /\ task[j].step = "refresh" /\ task[j].token # 0 => opener[task[j].token] # s
          /\ j # k /\ task[j].sets # 0 => opener[task[j].sets] # s

Dead(t) == session[opener[t]] # "active"

\* Without a lost answer or a second tab one refresh runs at a time, with the newest pair,
\* and the cookies hold the newest pair or the running refresh is about to bring it.
InOrder ==
    /\ \A j, k \in Tasks : Runs(j) /\ Runs(k) => j = k
    /\ \A k \in Tasks :
          /\ task[k].step = "refresh" /\ task[k].token # 0 =>
                Newest(task[k].token) \/ Dead(task[k].token)
          /\ task[k].step = "refreshed" /\ task[k].sets # 0 => Newest(task[k].sets)
    /\ jar # 0 =>
          \/ Newest(jar) \/ Dead(jar)
          \/ \E k \in Tasks : /\ task[k].step = "refreshed" /\ task[k].sets # 0
                              /\ opener[task[k].sets] = opener[jar]

LoginsUnshown == \A k \in Tasks : Opens(k) => Unshown(k)

\* A restoration that has been overtaken is in progress, and is not the one that its tab
\* waits for.
LatestStands ==
    /\ \A k \in outdated : Restoring(k)
    /\ \A b \in Tabs : latest[b] # NoTask => tabOf[latest[b]] = b /\ latest[b] \notin outdated

BrowserInv ==
    /\ TypeOK /\ Owned /\ LoginsUnshown /\ (~excused => InOrder) /\ ReuseExplained
    /\ LatestStands

LEMMA TaskFields ==
    ASSUME NEW q \in TaskState
    PROVE  /\ q.request \in Requests \cup {"none"}
           /\ q.step \in {"idle", "sent", "answered", "refresh", "refreshed", "wait"}
           /\ q.token \in 0..MaxTokens /\ q.sets \in 0..MaxTokens
           /\ q.outcome \in {"none", "ok", "unauthorized", "failed"}
           /\ q.retried \in BOOLEAN /\ q.login \in BOOLEAN
  BY DEF TaskState

LEMMA IdleTask ==
    /\ Idle \in TaskState
    /\ Idle.request = "none" /\ Idle.step = "idle" /\ Idle.sets = 0 /\ Idle.token = 0
    /\ Idle.login = FALSE
  BY TokensAssumption DEF Idle, TaskState

LEMMA SentTask ==
    ASSUME NEW q \in TaskState, NEW request \in Requests \cup {"none"},
           NEW cookies \in 0..MaxTokens, NEW again \in BOOLEAN
    PROVE  /\ Sent(q, request, cookies, again) \in TaskState
           /\ Sent(q, request, cookies, again).request = request
           /\ Sent(q, request, cookies, again).step = "sent"
           /\ Sent(q, request, cookies, again).sets = 0
           /\ Sent(q, request, cookies, again).token = cookies
  <1> DEFINE m == q.login \/ request = "login"
  <1>1. m \in BOOLEAN
    BY TaskFields
  <1>2. Sent(q, request, cookies, again) =
            [Idle EXCEPT !.request = request, !.step = "sent", !.token = cookies,
                         !.retried = again, !.login = m]
    BY DEF Sent
  <1> HIDE DEF m
  <1>3. Sent(q, request, cookies, again) =
            [request |-> request, step |-> "sent", token |-> cookies, outcome |-> "none",
             sets |-> 0, retried |-> again, login |-> m]
    BY <1>2 DEF Idle
  <1>4. 0 \in 0..MaxTokens
    BY TokensAssumption
  <1> QED  BY <1>1, <1>3, <1>4 DEF TaskState

LEMMA SteppedTask ==
    ASSUME NEW q \in TaskState, NEW o, NEW sets \in 0..MaxTokens,
           NEW step \in {"idle", "sent", "answered", "refresh", "refreshed", "wait"},
           NEW token \in 0..MaxTokens, NEW got \in {"none", "ok", "unauthorized", "failed"},
           o = [q EXCEPT !.step = step, !.token = token, !.outcome = got, !.sets = sets]
    PROVE  /\ o \in TaskState /\ o.request = q.request /\ o.step = step /\ o.token = token
           /\ o.outcome = got /\ o.sets = sets
  BY DEF TaskState

\* What an answered or failed call leaves of its task.
LEMMA AnswerLemma ==
    ASSUME NEW k \in Tasks, task \in [Tasks -> TaskState], faults \in 0..MaxFaults,
           NEW step \in {"answered", "refreshed"},
           NEW outcome \in {"ok", "unauthorized", "failed"}, NEW sets \in 0..MaxTokens,
           Answer(k, step, outcome, sets)
    PROVE  /\ faults' \in 0..MaxFaults
           /\ task' \in [Tasks -> TaskState]
           /\ \A j \in Tasks \ {k} : task'[j] = task[j]
           /\ task'[k].request = task[k].request
           /\ task'[k].step = step /\ task'[k].token = 0
           /\ \/ task'[k].outcome = outcome /\ task'[k].sets = sets
              \/ task'[k].outcome = "failed" /\ task'[k].sets = 0
  <1>1. PICK got \in {outcome, "failed"} :
            /\ Fault(IF got = outcome THEN 0 ELSE 1)
            /\ task' = [task EXCEPT ![k].step = step, ![k].token = 0, ![k].outcome = got,
                                    ![k].sets = IF got = outcome THEN sets ELSE 0]
    BY DEF Answer
  <1> DEFINE n == IF got = outcome THEN sets ELSE 0
             o == [task[k] EXCEPT !.step = step, !.token = 0, !.outcome = got, !.sets = n]
  <1>2. n \in 0..MaxTokens /\ 0 \in 0..MaxTokens
    BY TokensAssumption
  <1>3. task' = [task EXCEPT ![k] = o]
    BY <1>1
  <1>4. /\ o \in TaskState /\ o.request = task[k].request /\ o.step = step /\ o.token = 0
        /\ o.outcome = got /\ o.sets = n
    <2> HIDE DEF n
    <2> QED  BY <1>2 DEF TaskState
  <1>5. faults' \in 0..MaxFaults
    BY <1>1, TokensAssumption DEF Fault
  <1> HIDE DEF o
  <1> QED  BY <1>3, <1>4, <1>5

LEMMA LoseLemma ==
    ASSUME NEW k \in Tasks, task \in [Tasks -> TaskState], faults \in 0..MaxFaults,
           NEW step \in {"answered", "refreshed"}, Lose(k, step)
    PROVE  /\ faults' \in 0..MaxFaults
           /\ task' \in [Tasks -> TaskState]
           /\ \A j \in Tasks \ {k} : task'[j] = task[j]
           /\ task'[k].request = task[k].request
           /\ task'[k].step = step /\ task'[k].token = 0
           /\ task'[k].outcome = "failed" /\ task'[k].sets = task[k].sets
  <1> DEFINE o == [task[k] EXCEPT !.step = step, !.token = 0, !.outcome = "failed"]
  <1>1. task' = [task EXCEPT ![k] = o]
    BY DEF Lose
  <1>2. /\ o \in TaskState /\ o.request = task[k].request /\ o.step = step /\ o.token = 0
        /\ o.outcome = "failed" /\ o.sets = task[k].sets
    <2>1. 0 \in 0..MaxTokens /\ task[k] \in TaskState
      BY TokensAssumption
    <2> QED  BY <2>1 DEF TaskState
  <1>3. faults' \in 0..MaxFaults
    BY TokensAssumption DEF Lose, Fault
  <1> HIDE DEF o
  <1> QED  BY <1>1, <1>2, <1>3

\* A task that goes on as it was, or that holds no pair but that of a request.
Steady(k) ==
    \/ task'[k] = task[k]
    \/ /\ ~(task[k].step = "refreshed" /\ task[k].sets # 0)
       /\ task'[k].sets = 0 /\ task'[k].token <= issued /\ task'[k].step # "refresh"
       /\ task'[k].step = "refreshed" => Runs(k)

\* Where no pair is issued, taken out of an answer or sent to be replaced, the order of the
\* pairs stays.
LEMMA CalmLemma ==
    ASSUME TypeOK, Owned, LoginsUnshown, ~excused => InOrder,
           UNCHANGED <<newest, issued, opener>>,
           session' \in [SessionIds -> {"none", "active", "over"}],
           \A s \in SessionIds : \/ session'[s] = session[s]
                                 \/ session[s] # "none" /\ session'[s] = "over",
           jar' = jar \/ jar' = 0, excused => excused',
           \A k \in Tasks : Steady(k)
    PROVE  Owned' /\ LoginsUnshown' /\ (~excused' => InOrder')
  <1>1. Owned'
    <2>1. \A t \in 1..issued : opener'[t] \in SessionIds /\ session'[opener'[t]] # "none"
      BY DEF Owned
    <2>2. ASSUME NEW k \in Tasks
          PROVE  /\ task'[k].token <= issued /\ task'[k].sets <= issued
                 /\ task'[k].sets # 0 =>
                       /\ task'[k].outcome = "ok"
                       /\ task'[k].step \in {"refresh", "refreshed"} =>
                             task'[k].step = "refreshed"
                       /\ task'[k].step \notin {"refresh", "refreshed"} =>
                             task'[k].request = "login" /\ task'[k].step = "answered"
      <3>1. CASE task'[k] = task[k]
        BY <3>1 DEF Owned, Runs
      <3>2. CASE task'[k] # task[k]
        <4>1. Steady(k)
          OBVIOUS
        <4> QED  BY <3>2, <4>1 DEF Steady, TypeOK
      <3> QED  BY <3>1, <3>2
    <2> QED  BY <2>1, <2>2 DEF Owned, Runs
  <1>2. \A k \in Tasks : task'[k].sets # 0 => task'[k] = task[k]
    BY DEF Steady
  <1>3. \A k \in Tasks : task'[k].step = "refresh" => task'[k] = task[k]
    BY DEF Steady
  <1>4. LoginsUnshown'
    <2> SUFFICES ASSUME NEW k \in Tasks, Opens(k)' PROVE Unshown(k)'
      BY DEF LoginsUnshown
    <2>1. task'[k] = task[k]
      BY <1>2 DEF Opens
    <2>2. Unshown(k)
      BY <2>1 DEF Opens, Runs, LoginsUnshown
    <2> QED  BY <1>2, <1>3, <2>1, <2>2 DEF Unshown
  <1>5. ASSUME ~excused' PROVE InOrder'
    <2>1. InOrder
      BY <1>5
    <2>2. \A k \in Tasks : Runs(k)' => Runs(k)
      BY DEF Steady, Runs
    <2>3. \A t \in 1..issued :
              /\ newest[opener[t]] = t => newest'[opener'[t]] = t
              /\ session[opener[t]] # "active" => session'[opener'[t]] # "active"
      BY DEF Newest, Dead, Owned
    <2>4. ASSUME NEW k \in Tasks, task'[k].step = "refresh", task'[k].token # 0
          PROVE  \/ newest'[opener'[task'[k].token]] = task'[k].token
                 \/ session'[opener'[task'[k].token]] # "active"
      <3>1. task'[k] = task[k]
        BY <1>3, <2>4
      <3>2. Newest(task[k].token) \/ Dead(task[k].token)
        BY <2>1, <2>4, <3>1 DEF InOrder
      <3>3. task[k].token \in 1..issued
        BY <2>4, <3>1, TaskFields DEF Owned, TypeOK
      <3> QED  BY <2>3, <3>1, <3>2, <3>3 DEF Newest, Dead
    <2>5. ASSUME NEW k \in Tasks, task'[k].step = "refreshed", task'[k].sets # 0
          PROVE  newest'[opener'[task'[k].sets]] = task'[k].sets
      <3>1. task'[k] = task[k]
        BY <1>2, <2>5
      <3> QED  BY <2>1, <2>5, <3>1 DEF InOrder, Newest
    <2>6. ASSUME jar' # 0
          PROVE  \/ newest'[opener'[jar']] = jar' \/ session'[opener'[jar']] # "active"
                 \/ \E k \in Tasks : /\ task'[k].step = "refreshed" /\ task'[k].sets # 0
                                     /\ opener'[task'[k].sets] = opener'[jar']
      <3>1. jar' = jar /\ jar \in 1..issued
        BY <2>6 DEF TypeOK
      <3>2. CASE Newest(jar) \/ Dead(jar)
        BY <2>3, <3>1, <3>2 DEF Newest, Dead
      <3>3. CASE \E k \in Tasks : /\ task[k].step = "refreshed" /\ task[k].sets # 0
                                  /\ opener[task[k].sets] = opener[jar]
        <4>1. PICK k \in Tasks : /\ task[k].step = "refreshed" /\ task[k].sets # 0
                                 /\ opener[task[k].sets] = opener[jar]
          BY <3>3
        <4>2. task'[k] = task[k]
          BY <4>1 DEF Steady
        <4> QED  BY <3>1, <4>1, <4>2
      <3> QED  BY <2>1, <2>6, <3>1, <3>2, <3>3 DEF InOrder
    <2> QED  BY <2>1, <2>2, <2>4, <2>5, <2>6 DEF InOrder, Newest, Dead
  <1> QED  BY <1>1, <1>4, <1>5

\* A restoration that stays in progress stays overtaken or stands.
LEMMA LatestKept ==
    ASSUME LatestStands, UNCHANGED <<latest, outdated, tabOf>>,
           outdated \subseteq Tasks,
           \A k \in Tasks : Restoring(k) => Restoring(k)'
    PROVE  LatestStands'
  BY DEF LatestStands, Restoring

LEMMA SentAnew ==
    ASSUME NEW request \in Requests, NEW cookies \in 0..MaxTokens
    PROVE  /\ Sent(Idle, request, cookies, FALSE) \in TaskState
           /\ Sent(Idle, request, cookies, FALSE).request = request
           /\ Sent(Idle, request, cookies, FALSE).step = "sent"
           /\ Sent(Idle, request, cookies, FALSE).sets = 0
           /\ Sent(Idle, request, cookies, FALSE).token = cookies
  <1>1. Idle \in TaskState
    BY IdleTask
  <1> QED  BY <1>1, SentTask

LEMMA SentOnce ==
    ASSUME NEW q \in TaskState, NEW request \in Requests, NEW cookies \in 0..MaxTokens
    PROVE  /\ Sent(q, request, cookies, FALSE) \in TaskState
           /\ Sent(q, request, cookies, FALSE).request = request
           /\ Sent(q, request, cookies, FALSE).step = "sent"
           /\ Sent(q, request, cookies, FALSE).sets = 0
  <1>1. request \in Requests \cup {"none"}
    OBVIOUS
  <1> QED  BY <1>1, SentTask

LEMMA SentToken ==
    ASSUME NEW q, NEW request, NEW cookies
    PROVE  Sent(q, request, cookies, FALSE).token = cookies
  <1> DEFINE m == q.login \/ request = "login"
  <1>1. Sent(q, request, cookies, FALSE) =
            [Idle EXCEPT !.request = request, !.step = "sent", !.token = cookies,
                         !.retried = FALSE, !.login = m]
    BY DEF Sent
  <1> HIDE DEF m
  <1> QED  BY <1>1 DEF Idle

LEMMA SentAgain ==
    ASSUME NEW q \in TaskState, NEW cookies \in 0..MaxTokens
    PROVE  /\ Sent(q, q.request, cookies, TRUE) \in TaskState
           /\ Sent(q, q.request, cookies, TRUE).request = q.request
           /\ Sent(q, q.request, cookies, TRUE).step = "sent"
           /\ Sent(q, q.request, cookies, TRUE).sets = 0
           /\ Sent(q, q.request, cookies, TRUE).token = cookies
  <1> DEFINE request == q.request
             again == TRUE
  <1>1. request \in Requests \cup {"none"} /\ again \in BOOLEAN
    BY TaskFields
  <1> HIDE DEF request, again
  <1>2. /\ Sent(q, request, cookies, again) \in TaskState
        /\ Sent(q, request, cookies, again).request = request
        /\ Sent(q, request, cookies, again).step = "sent"
        /\ Sent(q, request, cookies, again).sets = 0
        /\ Sent(q, request, cookies, again).token = cookies
    BY <1>1, SentTask
  <1> USE DEF request, again
  <1> QED  BY <1>2

LEMMA LiveTokens ==
    TypeOK => /\ session \in [SessionIds -> {"none", "active", "over"}]
              /\ jar \in 0..issued /\ jar \in 0..MaxTokens /\ issued \in 0..MaxTokens
              /\ faults \in 0..MaxFaults /\ outdated \subseteq Tasks
              /\ task \in [Tasks -> TaskState] /\ tabOf \in [Tasks -> Tabs]
  BY TokensAssumption, TabsAssumption DEF TypeOK

LEMMA RestoreKeeps ==
    ASSUME BrowserInv, UNCHANGED tabOf, NEW k \in Tasks, Restore(k)
    PROVE  BrowserInv'
  <1>0. /\ TypeOK /\ Owned /\ LoginsUnshown /\ (~excused => InOrder) /\ ReuseExplained
        /\ LatestStands
    BY DEF BrowserInv
  <1> DEFINE b == tabOf[k]
             new == Sent(Idle, "user", jar, FALSE)
  <1>1. /\ task[k] = Idle /\ BeginRestore(k)
        /\ task' = [task EXCEPT ![k] = new]
        /\ UNCHANGED <<session, newest, issued, opener, fresh, jar, faults, reused, excused>>
    BY DEF Restore, server, history
  <1>2. jar \in 0..issued /\ jar \in 0..MaxTokens /\ issued \in Nat
    BY <1>0, LiveTokens
  <1>3. /\ new \in TaskState /\ new.request = "user" /\ new.step = "sent" /\ new.sets = 0
        /\ new.token = jar
    <2>1. "user" \in Requests
      BY DEF Requests
    <2> QED  BY <1>2, <2>1, SentAnew
  <1> HIDE DEF new
  <1>4. /\ task \in [Tasks -> TaskState] /\ task' \in [Tasks -> TaskState]
        /\ task'[k] = new /\ \A j \in Tasks \ {k} : task'[j] = task[j]
    BY <1>0, <1>1, <1>3 DEF TypeOK
  <1>5. b \in Tabs /\ tabOf \in [Tasks -> Tabs]
    BY <1>0, LiveTokens DEF TypeOK
  <1>6. TypeOK'
    BY <1>0, <1>1, <1>4, <1>5 DEF TypeOK, BeginRestore, Shown
  <1>7. \A j \in Tasks : Steady(j)
    BY <1>1, <1>2, <1>3, <1>4, IdleTask DEF Steady
  <1>8. Owned' /\ LoginsUnshown' /\ (~excused' => InOrder')
    <2>1. session' \in [SessionIds -> {"none", "active", "over"}]
      BY <1>0, <1>1, LiveTokens
    <2> QED  BY <1>0, <1>1, <1>7, <2>1, CalmLemma
  <1>9. LatestStands'
    <2>1. k \notin outdated
      BY <1>0, <1>1, IdleTask DEF LatestStands, Restoring
    <2>2. /\ latest' = [latest EXCEPT ![b] = k]
          /\ outdated' = outdated \cup {j \in Tasks : tabOf[j] = b /\ Restoring(j)}
      BY <1>1 DEF BeginRestore
    <2>3. ~Restoring(k)
      BY <1>1, IdleTask DEF Restoring
    <2>4. \A j \in outdated' : j \in Tasks /\ j # k /\ Restoring(j)
      BY <1>0, <2>1, <2>2, <2>3 DEF LatestStands, TypeOK
    <2>5. \A j \in outdated' : Restoring(j)'
      BY <1>4, <2>4 DEF Restoring
    <2>6. ASSUME NEW c \in Tabs, latest'[c] # NoTask
          PROVE  tabOf'[latest'[c]] = c /\ latest'[c] \notin outdated'
      <3>1. CASE c = b
        BY <1>0, <1>5, <2>2, <2>4, <3>1 DEF TypeOK
      <3>2. CASE c # b
        BY <1>0, <1>5, <2>2, <2>6, <3>2 DEF TypeOK, LatestStands
      <3> QED  BY <3>1, <3>2
    <2> QED  BY <2>5, <2>6 DEF LatestStands
  <1> QED  BY <1>0, <1>1, <1>6, <1>8, <1>9 DEF BrowserInv, ReuseExplained

\* A request that leaves for nobody who waits for the session.
LEMMA OutsideKeeps ==
    ASSUME BrowserInv, UNCHANGED tabOf, NEW k \in Tasks, task[k] = Idle,
           NEW request \in {"login", "page", "change", "logout"},
           task' = [task EXCEPT ![k] = Sent(Idle, request, jar, FALSE)],
           UNCHANGED <<server, jar, provider, faults, history>>
    PROVE  BrowserInv'
  <1>0. /\ TypeOK /\ Owned /\ LoginsUnshown /\ (~excused => InOrder) /\ ReuseExplained
        /\ LatestStands
    BY DEF BrowserInv
  <1> DEFINE new == Sent(Idle, request, jar, FALSE)
  <1>2. jar \in 0..issued /\ jar \in 0..MaxTokens /\ issued \in Nat
    BY <1>0, LiveTokens
  <1>3. /\ new \in TaskState /\ new.request = request /\ new.step = "sent" /\ new.sets = 0
        /\ new.token = jar
    <2>1. request \in Requests
      BY DEF Requests
    <2> QED  BY <1>2, <2>1, SentAnew
  <1>1. task' = [task EXCEPT ![k] = new]
    OBVIOUS
  <1> HIDE DEF new
  <1>4. /\ task \in [Tasks -> TaskState] /\ task' \in [Tasks -> TaskState]
        /\ task'[k] = new /\ \A j \in Tasks \ {k} : task'[j] = task[j]
    BY <1>0, <1>1, <1>3 DEF TypeOK
  <1>5. TypeOK'
    BY <1>0, <1>4 DEF TypeOK, server, provider, history
  <1>6. \A j \in Tasks : Steady(j)
    <2>1. task[k].sets = 0
      BY IdleTask
    <2>2. jar <= issued
      BY <1>2
    <2>3. task'[k].sets = 0 /\ task'[k].step = "sent" /\ task'[k].token = jar
      BY <1>3, <1>4
    <2>4. Steady(k)
      BY <2>1, <2>2, <2>3 DEF Steady
    <2> QED  BY <1>4, <2>4 DEF Steady
  <1>7. Owned' /\ LoginsUnshown' /\ (~excused' => InOrder')
    <2>1. UNCHANGED <<session, newest, issued, opener, jar, excused>>
      BY DEF server, history
    <2>2. session' \in [SessionIds -> {"none", "active", "over"}]
      BY <1>0, <2>1, LiveTokens
    <2> QED  BY <1>0, <1>6, <2>1, <2>2, CalmLemma
  <1>8. \A j \in Tasks : Restoring(j) => Restoring(j)'
    BY <1>4, IdleTask DEF Restoring
  <1>9. LatestStands'
    BY <1>0, <1>8, LatestKept DEF provider, TypeOK
  <1> QED  BY <1>0, <1>5, <1>7, <1>9 DEF BrowserInv, ReuseExplained, history

LEMMA LoginKeeps ==
    ASSUME BrowserInv, UNCHANGED tabOf, NEW k \in Tasks, Login(k)
    PROVE  BrowserInv'
  BY OutsideKeeps DEF Login

LEMMA UseKeeps ==
    ASSUME BrowserInv, UNCHANGED tabOf, NEW k \in Tasks, Use(k)
    PROVE  BrowserInv'
  BY OutsideKeeps DEF Use

LEMMA ExpireKeeps ==
    ASSUME BrowserInv, UNCHANGED tabOf, Expire
    PROVE  BrowserInv'
  <1>0. /\ TypeOK /\ Owned /\ LoginsUnshown /\ (~excused => InOrder) /\ ReuseExplained
        /\ LatestStands
    BY DEF BrowserInv
  <1>1. UNCHANGED <<jar, status, latest, outdated, task, reused, excused, newest, issued, opener>>
    BY DEF Expire, End, provider, history
  <1>2. faults' \in 0..MaxFaults
    BY <1>0, LiveTokens, TokensAssumption DEF Expire, Fault
  <1> DEFINE Kept ==
        /\ fresh' \subseteq 1..issued
        /\ session' \in [SessionIds -> {"none", "active", "over"}]
        /\ \A s \in SessionIds : \/ session'[s] = session[s]
                                 \/ session[s] # "none" /\ session'[s] = "over"
  <1>3. Kept
    <2>1. ASSUME NEW t \in fresh, fresh' = fresh \ {t},
                 UNCHANGED <<session, newest, issued, opener>>
          PROVE  Kept
      <3>1. session \in [SessionIds -> {"none", "active", "over"}] /\ fresh \subseteq 1..issued
        BY <1>0 DEF TypeOK
      <3> QED  BY <2>1, <3>1
    <2>2. ASSUME NEW s \in SessionIds, session[s] = "active", End(s)
          PROVE  Kept
      <3>1. session \in [SessionIds -> {"none", "active", "over"}] /\ fresh \subseteq 1..issued
        BY <1>0 DEF TypeOK
      <3> QED  BY <2>2, <3>1 DEF End
    <2> QED  BY <2>1, <2>2 DEF Expire
  <1>4. TypeOK'
    BY <1>0, <1>1, <1>2, <1>3 DEF TypeOK
  <1>5. \A j \in Tasks : Steady(j)
    BY <1>1 DEF Steady
  <1>6. Owned' /\ LoginsUnshown' /\ (~excused' => InOrder')
    BY <1>0, <1>1, <1>3, <1>5, CalmLemma
  <1>7. LatestStands'
    BY <1>0, <1>1, LatestKept DEF TypeOK, Restoring
  <1> QED  BY <1>0, <1>1, <1>4, <1>6, <1>7 DEF BrowserInv, ReuseExplained

LEMMA NothingSet ==
    ASSUME TypeOK, Owned, NEW k \in Tasks, task[k].step \in {"sent", "refresh", "wait", "idle"}
    PROVE  task[k].sets = 0
  BY DEF Owned, Runs

\* An answer that issues no pair.
LEMMA ServedCalmly ==
    ASSUME BrowserInv, UNCHANGED tabOf, NEW k \in Tasks,
           task' \in [Tasks -> TaskState],
           \A j \in Tasks \ {k} : task'[j] = task[j],
           task'[k].request = task[k].request,
           \/ task[k].step = "sent" /\ task'[k].step = "answered"
           \/ task[k].step = "refresh" /\ task'[k].step = "refreshed",
           task'[k].token = 0, task'[k].sets = 0,
           UNCHANGED <<newest, issued, opener, fresh, jar, provider>>,
           session' \in [SessionIds -> {"none", "active", "over"}],
           \A s \in SessionIds : \/ session'[s] = session[s]
                                 \/ session[s] # "none" /\ session'[s] = "over",
           faults' \in 0..MaxFaults, reused' \in BOOLEAN, excused' \in BOOLEAN,
           excused => excused', reused' => excused'
    PROVE  BrowserInv'
  <1>0. /\ TypeOK /\ Owned /\ LoginsUnshown /\ (~excused => InOrder) /\ LatestStands
    BY DEF BrowserInv
  <1>1. TypeOK'
    BY <1>0 DEF TypeOK, provider
  <1>2. task[k].sets = 0
    BY <1>0, NothingSet
  <1>3. issued \in Nat
    BY <1>0, LiveTokens
  <1>4. Steady(k)
    BY <1>2, <1>3 DEF Steady, Runs
  <1>5. \A j \in Tasks : Steady(j)
    BY <1>4 DEF Steady
  <1>6. Owned' /\ LoginsUnshown' /\ (~excused' => InOrder')
    BY <1>0, <1>5, CalmLemma
  <1>7. \A j \in Tasks : Restoring(j) => Restoring(j)'
    BY DEF Restoring
  <1>8. LatestStands'
    BY <1>0, <1>7, LiveTokens, LatestKept DEF provider
  <1> QED  BY <1>1, <1>6, <1>8 DEF BrowserInv, ReuseExplained

\* A call that is answered without a pair, or refused, or that fails.
LEMMA AnsweredCalmly ==
    ASSUME BrowserInv, UNCHANGED tabOf, NEW k \in Tasks,
           NEW step \in {"answered", "refreshed"},
           NEW outcome \in {"ok", "unauthorized", "failed"},
           \/ task[k].step = "sent" /\ step = "answered"
           \/ task[k].step = "refresh" /\ step = "refreshed",
           Answer(k, step, outcome, 0) \/ Lose(k, step),
           UNCHANGED <<newest, issued, opener, fresh, jar, provider>>,
           session' \in [SessionIds -> {"none", "active", "over"}],
           \A s \in SessionIds : \/ session'[s] = session[s]
                                 \/ session[s] # "none" /\ session'[s] = "over",
           reused' \in BOOLEAN, excused' \in BOOLEAN,
           excused => excused', reused' => excused'
    PROVE  BrowserInv'
  <1>1. /\ TypeOK /\ Owned /\ task \in [Tasks -> TaskState] /\ faults \in 0..MaxFaults
        /\ 0 \in 0..MaxTokens
    BY LiveTokens, TokensAssumption DEF BrowserInv
  <1>2. task[k].sets = 0
    BY <1>1, NothingSet
  <1>3. /\ faults' \in 0..MaxFaults /\ task' \in [Tasks -> TaskState]
        /\ \A j \in Tasks \ {k} : task'[j] = task[j]
        /\ task'[k].request = task[k].request
        /\ task'[k].step = step /\ task'[k].token = 0 /\ task'[k].sets = 0
    <2>1. CASE Answer(k, step, outcome, 0)
      BY <1>1, <2>1, AnswerLemma
    <2>2. CASE Lose(k, step)
      BY <1>1, <1>2, <2>2, LoseLemma
    <2> QED  BY <2>1, <2>2
  <1> QED  BY <1>3, ServedCalmly

LEMMA SessionsOver ==
    ASSUME TypeOK
    PROVE  /\ session \in [SessionIds -> {"none", "active", "over"}]
           /\ \A s \in SessionIds : End(s) /\ session[s] # "none" =>
                 /\ session' \in [SessionIds -> {"none", "active", "over"}]
                 /\ \A r \in SessionIds : \/ session'[r] = session[r]
                                          \/ session[r] # "none" /\ session'[r] = "over"
  BY DEF TypeOK, End

LEMMA ServeReadKeeps ==
    ASSUME BrowserInv, UNCHANGED tabOf, NEW k \in Tasks, task[k].step = "sent",
           ServeRead(k) \/ (Lose(k, "answered") /\ UNCHANGED server),
           UNCHANGED <<jar, provider, history>>
    PROVE  BrowserInv'
  <1>0. /\ session \in [SessionIds -> {"none", "active", "over"}]
        /\ reused \in BOOLEAN /\ excused \in BOOLEAN /\ (reused => excused)
    BY DEF BrowserInv, TypeOK, ReuseExplained
  <1>1. UNCHANGED <<session, newest, issued, opener, fresh, reused, excused>>
    BY DEF ServeRead, server, history
  <1>2. PICK outcome \in {"ok", "unauthorized"} :
            Answer(k, "answered", outcome, 0) \/ Lose(k, "answered")
    BY DEF ServeRead
  <1> QED  BY <1>0, <1>1, <1>2, AnsweredCalmly

LEMMA ServeChangeKeeps ==
    ASSUME BrowserInv, UNCHANGED tabOf, NEW k \in Tasks, task[k].step = "sent",
           ServeChange(k), UNCHANGED <<jar, provider, history>>
    PROVE  BrowserInv'
  <1>0. /\ session \in [SessionIds -> {"none", "active", "over"}]
        /\ reused \in BOOLEAN /\ excused \in BOOLEAN /\ (reused => excused)
    BY DEF BrowserInv, TypeOK, ReuseExplained
  <1>1. UNCHANGED <<newest, issued, opener, fresh, reused, excused>>
    BY DEF ServeChange, server, history
  <1>2. PICK outcome \in {"ok", "unauthorized", "failed"} : Answer(k, "answered", outcome, 0)
    BY DEF ServeChange
  <1>3. /\ session' \in [SessionIds -> {"none", "active", "over"}]
        /\ \A s \in SessionIds : \/ session'[s] = session[s]
                                 \/ session[s] # "none" /\ session'[s] = "over"
    BY <1>0 DEF ServeChange, server
  <1> QED  BY <1>0, <1>1, <1>2, <1>3, AnsweredCalmly

LEMMA ServeLogoutKeeps ==
    ASSUME BrowserInv, UNCHANGED tabOf, NEW k \in Tasks, task[k].step = "sent",
           ServeLogout(k), UNCHANGED <<jar, provider, history>>
    PROVE  BrowserInv'
  <1> DEFINE t == task[k].token
  <1>0. /\ session \in [SessionIds -> {"none", "active", "over"}]
        /\ reused \in BOOLEAN /\ excused \in BOOLEAN /\ (reused => excused)
        /\ TypeOK /\ fresh \subseteq 1..issued
    BY DEF BrowserInv, TypeOK, ReuseExplained
  <1>1. UNCHANGED <<newest, issued, opener, fresh, reused, excused>>
    BY DEF ServeLogout, End, server, history
  <1>2. PICK outcome \in {"ok", "failed"} : Answer(k, "answered", outcome, 0)
    BY DEF ServeLogout
  <1>3. /\ session' \in [SessionIds -> {"none", "active", "over"}]
        /\ \A s \in SessionIds : \/ session'[s] = session[s]
                                 \/ session[s] # "none" /\ session'[s] = "over"
    <2>1. CASE UNCHANGED server
      BY <1>0, <2>1 DEF server
    <2>2. CASE t \in fresh /\ End(opener[t])
      <3>1. opener[t] \in SessionIds /\ session[opener[t]] # "none"
        BY <1>0, <2>2 DEF BrowserInv, Owned
      <3> QED  BY <1>0, <2>2, <3>1, SessionsOver
    <2> QED  BY <2>1, <2>2 DEF ServeLogout
  <1> QED  BY <1>0, <1>1, <1>2, <1>3, AnsweredCalmly

\* A pair is issued to session s, and the answer that carries it, of task k, arrives or is
\* lost: the pairs of the other sessions stay as they were.
LEMMA IssueLemma ==
    ASSUME TypeOK, Owned, NEW s \in SessionIds, Issue(s),
           session' \in [SessionIds -> {"none", "active", "over"}], session'[s] # "none",
           \A r \in SessionIds \ {s} : session'[r] = session[r],
           NEW k \in Tasks, task' \in [Tasks -> TaskState],
           \A j \in Tasks \ {k} : task'[j] = task[j],
           task'[k].token = 0,
           \/ task'[k].outcome = "ok" /\ task'[k].sets = issued + 1
           \/ task'[k].sets = 0,
           \/ task'[k].step = "refreshed"
           \/ task'[k].step = "answered" /\ task'[k].request = "login"
    PROVE  /\ Owned'
           /\ issued' = issued + 1 /\ issued' \in 1..MaxTokens
           /\ newest' \in [SessionIds -> 0..issued'] /\ newest'[s] = issued + 1
           /\ \A r \in SessionIds \ {s} : newest'[r] = newest[r]
           /\ opener' \in [Tokens -> SessionIds \cup {NoSession}] /\ opener'[issued + 1] = s
           /\ \A t \in 1..issued : opener'[t] = opener[t]
           /\ fresh' \subseteq 1..issued'
  <1>1. /\ issued \in Nat /\ issued < MaxTokens /\ issued' = issued + 1 /\ MaxTokens \in Nat
        /\ issued \in 0..MaxTokens
    BY TokensAssumption, LiveTokens DEF Issue
  <1>2. issued + 1 \in Tokens /\ issued' \in 1..MaxTokens /\ 1..issued \subseteq Tokens
    BY <1>1 DEF Tokens
  <1>3. /\ newest \in [SessionIds -> 0..issued]
        /\ opener \in [Tokens -> SessionIds \cup {NoSession}]
        /\ fresh \subseteq 1..issued
    BY DEF TypeOK
  <1>4. /\ newest' \in [SessionIds -> 0..issued'] /\ newest'[s] = issued + 1
        /\ \A r \in SessionIds \ {s} : newest'[r] = newest[r]
    BY <1>1, <1>3 DEF Issue
  <1>5. /\ opener' \in [Tokens -> SessionIds \cup {NoSession}] /\ opener'[issued + 1] = s
        /\ \A t \in 1..issued : opener'[t] = opener[t]
    BY <1>1, <1>2, <1>3 DEF Issue
  <1>6. fresh' \subseteq 1..issued'
    BY <1>1, <1>3 DEF Issue
  <1>7. ASSUME NEW t \in 1..issued'
        PROVE  opener'[t] \in SessionIds /\ session'[opener'[t]] # "none"
    <2>1. CASE t = issued + 1
      BY <1>5, <2>1
    <2>2. CASE t # issued + 1
      <3>1. t \in 1..issued
        BY <1>1, <2>2
      <3>2. opener'[t] = opener[t] /\ opener[t] \in SessionIds /\ session[opener[t]] # "none"
        BY <1>5, <3>1 DEF Owned
      <3> QED  BY <3>2
    <2> QED  BY <2>1, <2>2
  <1>8. ASSUME NEW j \in Tasks
        PROVE  /\ task'[j].token <= issued' /\ task'[j].sets <= issued'
               /\ task'[j].sets # 0 =>
                     /\ task'[j].outcome = "ok"
                     /\ Runs(j)' => task'[j].step = "refreshed"
                     /\ ~Runs(j)' => task'[j].request = "login" /\ task'[j].step = "answered"
    <2>1. CASE j = k
      BY <1>1, <2>1 DEF Runs
    <2>2. CASE j # k
      <3>1. /\ task'[j] = task[j]
            /\ task[j].token <= issued /\ task[j].sets <= issued
            /\ task[j].token \in Nat /\ task[j].sets \in Nat
        BY <1>1, <2>2, TaskFields, LiveTokens DEF Owned
      <3>2. task[j].sets # 0 =>
                /\ task[j].outcome = "ok"
                /\ Runs(j) => task[j].step = "refreshed"
                /\ ~Runs(j) => task[j].request = "login" /\ task[j].step = "answered"
        BY DEF Owned
      <3> QED  BY <1>1, <3>1, <3>2 DEF Runs
    <2> QED  BY <2>1, <2>2
  <1>9. Owned'
    BY <1>7, <1>8 DEF Owned
  <1> QED  BY <1>1, <1>2, <1>4, <1>5, <1>6, <1>9

\* The pairs that somebody holds, and whose they are.
LEMMA HeldTokens ==
    ASSUME TypeOK, Owned
    PROVE  /\ jar # 0 => jar \in 1..issued
           /\ \A j \in Tasks : /\ task[j].token # 0 => task[j].token \in 1..issued
                               /\ task[j].sets # 0 => task[j].sets \in 1..issued
           /\ \A t \in 1..issued : opener[t] \in SessionIds /\ session[opener[t]] # "none"
  <1>1. jar \in 0..issued /\ issued \in Nat
    BY LiveTokens
  <1>2. \A j \in Tasks : task[j].token \in Nat /\ task[j].sets \in Nat
    BY TokensAssumption, TaskFields, LiveTokens
  <1> QED  BY <1>1, <1>2 DEF Owned

LEMMA LoginOpens ==
    ASSUME BrowserInv, UNCHANGED tabOf, NEW k \in Tasks, task[k].step = "sent",
           task[k].request = "login",
           NEW s \in SessionIds, session[s] = "none",
           session' = [session EXCEPT ![s] = "active"], Issue(s),
           Answer(k, "answered", "ok", issued + 1),
           UNCHANGED <<jar, provider, history>>
    PROVE  BrowserInv'
  <1>0. /\ TypeOK /\ Owned /\ LoginsUnshown /\ (~excused => InOrder) /\ LatestStands
        /\ ReuseExplained
    BY DEF BrowserInv
  <1>1. /\ issued \in Nat /\ issued + 1 \in 0..MaxTokens /\ MaxTokens \in Nat
        /\ task \in [Tasks -> TaskState] /\ faults \in 0..MaxFaults
    BY <1>0, LiveTokens, TokensAssumption DEF Issue
  <1>2. /\ faults' \in 0..MaxFaults /\ task' \in [Tasks -> TaskState]
        /\ \A j \in Tasks \ {k} : task'[j] = task[j]
        /\ task'[k].request = task[k].request
        /\ task'[k].step = "answered" /\ task'[k].token = 0
        /\ \/ task'[k].outcome = "ok" /\ task'[k].sets = issued + 1
           \/ task'[k].outcome = "failed" /\ task'[k].sets = 0
    BY <1>1, AnswerLemma
  <1>3. /\ session' \in [SessionIds -> {"none", "active", "over"}] /\ session'[s] # "none"
        /\ \A r \in SessionIds \ {s} : session'[r] = session[r]
    BY <1>0 DEF TypeOK
  <1>4. /\ Owned'
        /\ issued' = issued + 1 /\ issued' \in 1..MaxTokens
        /\ newest' \in [SessionIds -> 0..issued'] /\ newest'[s] = issued + 1
        /\ \A r \in SessionIds \ {s} : newest'[r] = newest[r]
        /\ opener' \in [Tokens -> SessionIds \cup {NoSession}] /\ opener'[issued + 1] = s
        /\ \A t \in 1..issued : opener'[t] = opener[t]
        /\ fresh' \subseteq 1..issued'
    BY <1>0, <1>2, <1>3, IssueLemma
  <1>5. UNCHANGED <<jar, status, latest, outdated, reused, excused>>
    BY DEF provider, history
  <1>6. TypeOK'
    <2>1. jar' \in 0..issued'
      BY <1>0, <1>1, <1>4, <1>5, LiveTokens
    <2>2. issued' \in 0..MaxTokens
      BY <1>1, <1>4
    <2> QED  BY <1>0, <1>2, <1>3, <1>4, <1>5, <2>1, <2>2 DEF TypeOK
  <1>7. /\ jar # 0 => jar \in 1..issued
        /\ \A j \in Tasks : /\ task[j].token # 0 => task[j].token \in 1..issued
                            /\ task[j].sets # 0 => task[j].sets \in 1..issued
    BY <1>0, HeldTokens
  <1>8. \A t \in 1..issued : /\ opener'[t] = opener[t] /\ opener[t] # s
                             /\ opener[t] \in SessionIds
                             /\ newest'[opener[t]] = newest[opener[t]]
                             /\ session'[opener[t]] = session[opener[t]]
    BY <1>0, <1>3, <1>4, HeldTokens
  <1>9. task[k].sets = 0
    BY <1>0, NothingSet
  <1>10. LoginsUnshown'
    <2> SUFFICES ASSUME NEW j \in Tasks, Opens(j)' PROVE Unshown(j)'
      BY DEF LoginsUnshown
    <2>1. CASE j = k
      <3>1. task'[k].sets = issued + 1
        BY <1>2, <2>1 DEF Opens
      <3>2. opener'[task'[k].sets] = s /\ newest'[s] = task'[k].sets
        BY <1>4, <3>1
      <3>3. jar' # 0 => opener'[jar'] # s
        BY <1>5, <1>7, <1>8
      <3>4. \A i \in Tasks : task'[i].step = "refresh" /\ task'[i].token # 0 =>
                                 opener'[task'[i].token] # s
        BY <1>2, <1>7, <1>8
      <3>5. \A i \in Tasks : i # k /\ task'[i].sets # 0 => opener'[task'[i].sets] # s
        BY <1>2, <1>7, <1>8
      <3> QED  BY <2>1, <3>2, <3>3, <3>4, <3>5 DEF Unshown
    <2>2. CASE j # k
      <3>1. task'[j] = task[j] /\ Opens(j) /\ Unshown(j)
        BY <1>0, <1>2, <2>2 DEF Opens, Runs, LoginsUnshown
      <3> DEFINE r == opener[task[j].sets]
      <3>2. /\ task[j].sets \in 1..issued /\ task'[j].sets = task[j].sets
            /\ opener'[task[j].sets] = r /\ r # s /\ newest'[r] = newest[r]
        BY <1>7, <1>8, <3>1 DEF Opens
      <3>3. newest'[r] = task[j].sets /\ (jar' # 0 => opener'[jar'] # r)
        BY <1>5, <1>7, <1>8, <3>1, <3>2 DEF Unshown
      <3>4. ASSUME NEW i \in Tasks
            PROVE  /\ task'[i].step = "refresh" /\ task'[i].token # 0 =>
                          opener'[task'[i].token] # r
                   /\ i # j /\ task'[i].sets # 0 => opener'[task'[i].sets] # r
        <4>1. CASE i = k
          BY <1>2, <1>4, <3>2, <4>1
        <4>2. CASE i # k
          BY <1>2, <1>7, <1>8, <3>1, <4>2 DEF Unshown
        <4> QED  BY <4>1, <4>2
      <3> HIDE DEF r
      <3> QED  BY <3>2, <3>3, <3>4 DEF Unshown
    <2> QED  BY <2>1, <2>2
  <1>11. ASSUME ~excused' PROVE InOrder'
    <2>1. InOrder
      BY <1>0, <1>5, <1>11
    <2>2. \A j \in Tasks : Runs(j)' => Runs(j) /\ task'[j] = task[j]
      BY <1>2 DEF Runs
    <2>3. ASSUME NEW j \in Tasks, task'[j].step = "refresh", task'[j].token # 0
          PROVE  \/ newest'[opener'[task'[j].token]] = task'[j].token
                 \/ session'[opener'[task'[j].token]] # "active"
      BY <1>2, <1>7, <1>8, <2>1, <2>3 DEF InOrder, Newest, Dead
    <2>4. ASSUME NEW j \in Tasks, task'[j].step = "refreshed", task'[j].sets # 0
          PROVE  newest'[opener'[task'[j].sets]] = task'[j].sets
      BY <1>2, <1>7, <1>8, <2>1, <2>4 DEF InOrder, Newest
    <2>5. ASSUME jar' # 0
          PROVE  \/ newest'[opener'[jar']] = jar' \/ session'[opener'[jar']] # "active"
                 \/ \E j \in Tasks : /\ task'[j].step = "refreshed" /\ task'[j].sets # 0
                                     /\ opener'[task'[j].sets] = opener'[jar']
      <3>1. jar' = jar /\ jar \in 1..issued
        BY <1>5, <1>7, <2>5
      <3>2. CASE Newest(jar) \/ Dead(jar)
        BY <1>8, <3>1, <3>2 DEF Newest, Dead
      <3>3. ASSUME NEW j \in Tasks, task[j].step = "refreshed", task[j].sets # 0,
                   opener[task[j].sets] = opener[jar]
            PROVE  \E i \in Tasks : /\ task'[i].step = "refreshed" /\ task'[i].sets # 0
                                    /\ opener'[task'[i].sets] = opener'[jar']
        <4>1. task'[j] = task[j] /\ task[j].sets \in 1..issued
          BY <1>2, <1>7, <3>3
        <4> QED  BY <1>8, <3>1, <3>3, <4>1
      <3> QED  BY <2>1, <2>5, <3>1, <3>2, <3>3 DEF InOrder
    <2> QED  BY <2>1, <2>2, <2>3, <2>4, <2>5 DEF InOrder, Newest, Dead
  <1>12. LatestStands'
    <2>1. \A j \in Tasks : Restoring(j) => Restoring(j)'
      BY <1>2 DEF Restoring
    <2> QED  BY <1>0, <1>5, <2>1, LiveTokens, LatestKept
  <1> QED  BY <1>0, <1>4, <1>5, <1>6, <1>10, <1>11, <1>12 DEF BrowserInv, ReuseExplained

LEMMA ServeLoginKeeps ==
    ASSUME BrowserInv, UNCHANGED tabOf, NEW k \in Tasks, task[k].step = "sent",
           ServeLogin(k), UNCHANGED <<jar, provider, history>>
    PROVE  BrowserInv'
  <1>1. CASE /\ \E s \in SessionIds :
                   /\ session[s] = "none"
                   /\ session' = [session EXCEPT ![s] = "active"]
                   /\ Issue(s)
             /\ Answer(k, "answered", "ok", issued + 1)
    BY <1>1, LoginOpens DEF ServeLogin
  <1>2. CASE Answer(k, "answered", "failed", 0) /\ UNCHANGED server
    <2>1. /\ session \in [SessionIds -> {"none", "active", "over"}]
          /\ reused \in BOOLEAN /\ excused \in BOOLEAN /\ (reused => excused)
      BY DEF BrowserInv, TypeOK, ReuseExplained
    <2>2. UNCHANGED <<session, newest, issued, opener, fresh, reused, excused>>
      BY <1>2 DEF server, history
    <2> QED  BY <1>2, <2>1, <2>2, AnsweredCalmly
  <1> QED  BY <1>1, <1>2 DEF ServeLogin

\* The refresh with the newest pair of session s.
LEMMA RefreshIssues ==
    ASSUME BrowserInv, UNCHANGED tabOf, NEW k \in Tasks, task[k].step = "refresh",
           NEW s, s = opener[task[k].token], task[k].token # 0, session[s] = "active",
           Issue(s), Answer(k, "refreshed", "ok", issued + 1),
           UNCHANGED <<session, reused, jar, provider>>,
           excused' = (excused \/ (issued' # issued /\ task'[k].outcome = "failed"))
    PROVE  BrowserInv'
  <1>0. /\ TypeOK /\ Owned /\ LoginsUnshown /\ (~excused => InOrder) /\ LatestStands
        /\ ReuseExplained
    BY DEF BrowserInv
  <1>1. /\ issued \in Nat /\ issued + 1 \in 0..MaxTokens /\ MaxTokens \in Nat
        /\ task \in [Tasks -> TaskState] /\ faults \in 0..MaxFaults
    BY <1>0, LiveTokens, TokensAssumption DEF Issue
  <1>2. /\ faults' \in 0..MaxFaults /\ task' \in [Tasks -> TaskState]
        /\ \A j \in Tasks \ {k} : task'[j] = task[j]
        /\ task'[k].request = task[k].request
        /\ task'[k].step = "refreshed" /\ task'[k].token = 0
        /\ \/ task'[k].outcome = "ok" /\ task'[k].sets = issued + 1
           \/ task'[k].outcome = "failed" /\ task'[k].sets = 0
    BY <1>1, AnswerLemma
  <1>7. /\ jar # 0 => jar \in 1..issued
        /\ \A j \in Tasks : /\ task[j].token # 0 => task[j].token \in 1..issued
                            /\ task[j].sets # 0 => task[j].sets \in 1..issued
        /\ \A t \in 1..issued : opener[t] \in SessionIds /\ session[opener[t]] # "none"
    BY <1>0, HeldTokens
  <1>3. /\ session' \in [SessionIds -> {"none", "active", "over"}] /\ session'[s] # "none"
        /\ \A r \in SessionIds \ {s} : session'[r] = session[r]
        /\ s \in SessionIds
    BY <1>0, <1>7 DEF TypeOK
  <1>4. /\ Owned'
        /\ issued' = issued + 1 /\ issued' \in 1..MaxTokens
        /\ newest' \in [SessionIds -> 0..issued'] /\ newest'[s] = issued + 1
        /\ \A r \in SessionIds \ {s} : newest'[r] = newest[r]
        /\ opener' \in [Tokens -> SessionIds \cup {NoSession}] /\ opener'[issued + 1] = s
        /\ \A t \in 1..issued : opener'[t] = opener[t]
        /\ fresh' \subseteq 1..issued'
    BY <1>0, <1>2, <1>3, IssueLemma
  <1>5. UNCHANGED <<jar, status, latest, outdated, reused>> /\ (excused => excused')
        /\ excused' \in BOOLEAN
    BY <1>0 DEF provider, TypeOK
  <1>6. TypeOK'
    <2>1. jar' \in 0..issued'
      BY <1>0, <1>1, <1>4, <1>5, LiveTokens
    <2>2. issued' \in 0..MaxTokens
      BY <1>1, <1>4
    <2> QED  BY <1>0, <1>2, <1>3, <1>4, <1>5, <2>1, <2>2 DEF TypeOK
  <1>8. \A t \in 1..issued : opener[t] # s => newest'[opener[t]] = newest[opener[t]]
    BY <1>4, <1>7
  <1>9. LoginsUnshown'
    <2> SUFFICES ASSUME NEW j \in Tasks, Opens(j)' PROVE Unshown(j)'
      BY DEF LoginsUnshown
    <2>1. j # k
      BY <1>2 DEF Opens, Runs
    <2>2. task'[j] = task[j] /\ Opens(j) /\ Unshown(j)
      BY <1>0, <1>2, <2>1 DEF Opens, Runs, LoginsUnshown
    <2> DEFINE r == opener[task[j].sets]
    <2>3. r # s
      BY <2>2 DEF Unshown
    <2>4. /\ task[j].sets \in 1..issued /\ task'[j].sets = task[j].sets
          /\ opener'[task[j].sets] = r /\ newest'[r] = newest[r]
      BY <1>4, <1>7, <1>8, <2>2, <2>3 DEF Opens
    <2>5. newest'[r] = task[j].sets /\ (jar' # 0 => opener'[jar'] # r)
      BY <1>4, <1>5, <1>7, <2>2, <2>4 DEF Unshown
    <2>6. ASSUME NEW i \in Tasks
          PROVE  /\ task'[i].step = "refresh" /\ task'[i].token # 0 =>
                        opener'[task'[i].token] # r
                 /\ i # j /\ task'[i].sets # 0 => opener'[task'[i].sets] # r
      <3>1. CASE i = k
        BY <1>2, <1>4, <2>3, <3>1
      <3>2. CASE i # k
        BY <1>2, <1>4, <1>7, <2>2, <3>2 DEF Unshown
      <3> QED  BY <3>1, <3>2
    <2> HIDE DEF r
    <2> QED  BY <2>4, <2>5, <2>6 DEF Unshown
  <1>10. ASSUME ~excused' PROVE InOrder'
    <2>0. issued' # issued
      BY <1>1, <1>4
    <2>1. InOrder /\ task'[k].sets = issued + 1
      <3>1. task'[k].outcome # "failed"
        BY <1>10, <2>0
      <3> QED  BY <1>0, <1>2, <1>5, <1>10, <3>1
    <2>2. \A j \in Tasks : Runs(j)' => Runs(j)
      BY <1>2 DEF Runs
    <2>3. \A j \in Tasks \ {k} : task'[j] = task[j] /\ ~Runs(j)
      BY <1>2, <2>1 DEF InOrder, Runs
    <2>4. \A j \in Tasks : task'[j].step # "refresh"
      BY <1>2, <2>3 DEF Runs
    <2>5. \A j \in Tasks : task'[j].step = "refreshed" => j = k
      BY <2>3 DEF Runs
    <2>6. newest'[opener'[task'[k].sets]] = task'[k].sets
      BY <1>4, <2>1
    <2>7. ASSUME jar' # 0
          PROVE  \/ newest'[opener'[jar']] = jar' \/ session'[opener'[jar']] # "active"
                 \/ \E j \in Tasks : /\ task'[j].step = "refreshed" /\ task'[j].sets # 0
                                     /\ opener'[task'[j].sets] = opener'[jar']
      <3>1. jar' = jar /\ jar \in 1..issued /\ opener'[jar'] = opener[jar]
        BY <1>4, <1>5, <1>7, <2>7
      <3>2. CASE opener[jar] = s
        <4>1. /\ task'[k].step = "refreshed" /\ task'[k].sets # 0
              /\ opener'[task'[k].sets] = opener'[jar']
          BY <1>1, <1>2, <1>4, <2>1, <3>1, <3>2
        <4> QED  BY <4>1
      <3>3. CASE opener[jar] # s
        <4>1. \A j \in Tasks : task[j].step # "refreshed"
          BY <2>3 DEF Runs
        <4>2. Newest(jar) \/ Dead(jar)
          BY <2>1, <2>7, <3>1, <4>1 DEF InOrder
        <4> QED  BY <1>8, <3>1, <3>3, <4>2 DEF Newest, Dead
      <3> QED  BY <3>2, <3>3
    <2> QED  BY <2>1, <2>2, <2>4, <2>5, <2>6, <2>7 DEF InOrder, Newest, Dead
  <1>11. LatestStands'
    <2>1. \A j \in Tasks : Restoring(j) => Restoring(j)'
      BY <1>2 DEF Restoring
    <2> QED  BY <1>0, <1>5, <2>1, LiveTokens, LatestKept
  <1> QED  BY <1>0, <1>4, <1>5, <1>6, <1>9, <1>10, <1>11 DEF BrowserInv, ReuseExplained

\* A replaced pair reaches the server only where an answer was lost or two tabs refreshed.
LEMMA ServeRefreshKeeps ==
    ASSUME BrowserInv, UNCHANGED tabOf, NEW k \in Tasks, ServeRefresh(k)
    PROVE  BrowserInv'
  <1> DEFINE t == task[k].token
  <1>0. /\ TypeOK /\ (~excused => InOrder) /\ (reused => excused)
        /\ session \in [SessionIds -> {"none", "active", "over"}]
        /\ reused \in BOOLEAN /\ excused \in BOOLEAN
    BY DEF BrowserInv, TypeOK, ReuseExplained
  <1>1. /\ task[k].step = "refresh" /\ UNCHANGED <<jar, provider>>
        /\ excused' = (excused \/ (issued' # issued /\ task'[k].outcome = "failed"))
    BY DEF ServeRefresh
  <1>2. excused' \in BOOLEAN /\ (excused => excused')
    BY <1>0, <1>1
  <1>3. CASE /\ Answer(k, "refreshed", "unauthorized", 0) \/ Lose(k, "refreshed")
             /\ UNCHANGED <<server, reused>>
    <2>1. UNCHANGED <<session, newest, issued, opener, fresh, reused>>
      BY <1>3 DEF server
    <2> QED  BY <1>0, <1>1, <1>2, <1>3, <2>1, AnsweredCalmly
  <1>4. CASE /\ Usable(t) /\ ~Newest(t)
             /\ End(opener[t])
             /\ reused' = TRUE
             /\ Answer(k, "refreshed", "unauthorized", 0)
    <2>1. excused
      BY <1>0, <1>1, <1>4 DEF InOrder, Usable, Dead
    <2>2. opener[t] \in SessionIds /\ session[opener[t]] # "none"
      BY <1>0, <1>4, HeldTokens DEF BrowserInv, Usable
    <2>3. /\ session' \in [SessionIds -> {"none", "active", "over"}]
          /\ \A s \in SessionIds : \/ session'[s] = session[s]
                                   \/ session[s] # "none" /\ session'[s] = "over"
      BY <1>0, <1>4, <2>2, SessionsOver
    <2>4. UNCHANGED <<newest, issued, opener, fresh>>
      BY <1>4 DEF End
    <2> QED  BY <1>0, <1>1, <1>2, <1>4, <2>1, <2>3, <2>4, AnsweredCalmly
  <1>5. CASE /\ Usable(t) /\ Newest(t)
             /\ Issue(opener[t])
             /\ Answer(k, "refreshed", "ok", issued + 1)
             /\ UNCHANGED <<session, reused>>
    BY <1>1, <1>5, RefreshIssues DEF Usable
  <1> QED  BY <1>3, <1>4, <1>5 DEF ServeRefresh

LEMMA ServeKeeps ==
    ASSUME BrowserInv, UNCHANGED tabOf, NEW k \in Tasks, Serve(k)
    PROVE  BrowserInv'
  BY ServeReadKeeps, ServeChangeKeeps, ServeLoginKeeps, ServeLogoutKeeps DEF Serve

LEMMA ReceiveUnauthorizedKeeps ==
    ASSUME BrowserInv, UNCHANGED tabOf, NEW k \in Tasks, ReceiveUnauthorized(k)
    PROVE  BrowserInv'
  <1>0. /\ TypeOK /\ Owned /\ LoginsUnshown /\ (~excused => InOrder) /\ LatestStands
        /\ ReuseExplained
    BY DEF BrowserInv
  <1>1. /\ task[k].step = "answered" /\ ShouldRefresh(task[k])
        /\ UNCHANGED <<session, newest, issued, opener, fresh, jar, status, latest, outdated,
                       faults, reused>>
    BY DEF ReceiveUnauthorized, server, provider
  <1>2. /\ task \in [Tasks -> TaskState] /\ jar \in 0..issued /\ jar \in 0..MaxTokens
        /\ issued \in Nat
        /\ session' \in [SessionIds -> {"none", "active", "over"}]
    BY <1>0, <1>1, LiveTokens
  <1>3. task[k].sets = 0
    BY <1>0, <1>1 DEF Owned, ShouldRefresh
  <1>4. task[k].token <= issued
    BY <1>0 DEF Owned
  <1>5. CASE InFlight(tabOf[k]) /\ task' = [task EXCEPT ![k].step = "wait"] /\ UNCHANGED excused
    <2> DEFINE o == [task[k] EXCEPT !.step = "wait"]
    <2>1. /\ o \in TaskState /\ o.step = "wait" /\ o.token = task[k].token /\ o.sets = 0
          /\ o.request = task[k].request
      <3>1. task[k] \in TaskState
        BY <1>2
      <3>2. o \in TaskState
        BY <3>1 DEF TaskState
      <3>3. /\ o.step = "wait" /\ o.token = task[k].token /\ o.sets = task[k].sets
            /\ o.request = task[k].request
        BY <3>1 DEF TaskState
      <3> QED  BY <1>3, <3>2, <3>3
    <2>2. task' = [task EXCEPT ![k] = o]
      BY <1>5
    <2> HIDE DEF o
    <2>3. /\ task' \in [Tasks -> TaskState] /\ task'[k] = o
          /\ \A j \in Tasks \ {k} : task'[j] = task[j]
      BY <1>2, <2>1, <2>2
    <2>4. TypeOK'
      BY <1>0, <1>1, <1>5, <2>3 DEF TypeOK
    <2>5. Steady(k)
      BY <1>3, <1>4, <2>1, <2>3 DEF Steady
    <2>6. \A j \in Tasks : Steady(j)
      BY <2>3, <2>5 DEF Steady
    <2>7. Owned' /\ LoginsUnshown' /\ (~excused' => InOrder')
      BY <1>0, <1>1, <1>2, <1>5, <2>6, CalmLemma
    <2>8. \A j \in Tasks : Restoring(j) => Restoring(j)'
      BY <2>1, <2>3 DEF Restoring
    <2>9. LatestStands'
      BY <1>0, <1>1, <2>8, LiveTokens, LatestKept
    <2> QED  BY <1>0, <1>1, <1>5, <2>4, <2>7, <2>9 DEF BrowserInv, ReuseExplained
  <1>6. CASE /\ ~InFlight(tabOf[k])
             /\ task' = [task EXCEPT ![k].step = "refresh", ![k].token = jar]
             /\ excused' = (excused \/ \E j \in Tasks : tabOf[j] # tabOf[k] /\ Runs(j))
    <2> DEFINE o == [task[k] EXCEPT !.step = "refresh", !.token = jar]
    <2>1. /\ o \in TaskState /\ o.step = "refresh" /\ o.token = jar /\ o.sets = 0
          /\ o.request = task[k].request
      <3>1. task[k] \in TaskState /\ jar \in 0..MaxTokens
        BY <1>2
      <3>2. o \in TaskState
        BY <3>1 DEF TaskState
      <3>3. /\ o.step = "refresh" /\ o.token = jar /\ o.sets = task[k].sets
            /\ o.request = task[k].request
        BY <3>1 DEF TaskState
      <3> QED  BY <1>3, <3>2, <3>3
    <2>2. task' = [task EXCEPT ![k] = o]
      BY <1>6
    <2> HIDE DEF o
    <2>3. /\ task' \in [Tasks -> TaskState] /\ task'[k] = o
          /\ \A j \in Tasks \ {k} : task'[j] = task[j]
      BY <1>2, <2>1, <2>2
    <2>4. excused' \in BOOLEAN /\ (excused => excused')
      BY <1>6
    <2>5. TypeOK'
      BY <1>0, <1>1, <2>3, <2>4 DEF TypeOK
    <2>6. jar <= issued
      BY <1>2
    <2>7. Owned'
      <3>1. ASSUME NEW j \in Tasks
            PROVE  /\ task'[j].token <= issued /\ task'[j].sets <= issued
                   /\ task'[j].sets # 0 =>
                         /\ task'[j].outcome = "ok"
                         /\ Runs(j)' => task'[j].step = "refreshed"
                         /\ ~Runs(j)' => task'[j].request = "login" /\ task'[j].step = "answered"
        <4>1. CASE j = k
          BY <1>2, <2>1, <2>3, <2>6, <4>1
        <4>2. CASE j # k
          BY <1>0, <2>3, <4>2 DEF Owned, Runs
        <4> QED  BY <4>1, <4>2
      <3> QED  BY <1>0, <1>1, <3>1 DEF Owned
    <2>8. LoginsUnshown'
      <3> SUFFICES ASSUME NEW j \in Tasks, Opens(j)' PROVE Unshown(j)'
        BY DEF LoginsUnshown
      <3>1. j # k
        BY <2>1, <2>3 DEF Opens
      <3>2. task'[j] = task[j] /\ Unshown(j)
        BY <1>0, <2>3, <3>1 DEF Opens, Runs, LoginsUnshown
      <3>3. ASSUME NEW i \in Tasks
            PROVE  /\ task'[i].step = "refresh" /\ task'[i].token # 0 =>
                          opener[task'[i].token] # opener[task[j].sets]
                   /\ i # j /\ task'[i].sets # 0 =>
                          opener[task'[i].sets] # opener[task[j].sets]
        <4>1. CASE i = k
          BY <2>1, <2>3, <3>2, <4>1 DEF Unshown
        <4>2. CASE i # k
          BY <2>3, <3>2, <4>2 DEF Unshown
        <4> QED  BY <4>1, <4>2
      <3> QED  BY <1>1, <3>2, <3>3 DEF Unshown
    <2>9. ASSUME ~excused' PROVE InOrder'
      <3>1. InOrder
        BY <1>0, <2>4, <2>9
      <3>2. \A j \in Tasks : ~Runs(j)
        BY <1>6, <2>9 DEF InFlight
      <3>3. \A j \in Tasks \ {k} : ~Runs(j)'
        BY <2>3, <3>2 DEF Runs
      <3>4. jar # 0 => Newest(jar) \/ Dead(jar)
        BY <3>1, <3>2 DEF InOrder, Runs
      <3> QED  BY <1>1, <2>1, <2>3, <3>3, <3>4 DEF InOrder, Runs, Newest, Dead
    <2>10. \A j \in Tasks : Restoring(j) => Restoring(j)'
      BY <2>1, <2>3 DEF Restoring
    <2>11. LatestStands'
      BY <1>0, <1>1, <2>10, LiveTokens, LatestKept
    <2> QED  BY <1>0, <1>1, <2>4, <2>5, <2>7, <2>8, <2>9, <2>11 DEF BrowserInv, ReuseExplained
  <1> QED  BY <1>5, <1>6 DEF ReceiveUnauthorized

\* A tab that is signed out waits for no restoration, and those in progress are overtaken.
LEMMA SignOutLemma ==
    ASSUME TypeOK, LatestStands, UNCHANGED tabOf, NEW b \in Tabs, NEW ended, SignOut(b, ended),
           \A j \in Tasks \ ended : Restoring(j) => Restoring(j)'
    PROVE  /\ LatestStands' /\ status' \in [Tabs -> Shown]
           /\ latest' \in [Tabs -> Tasks \cup {NoTask}] /\ outdated' \subseteq Tasks
  <1>1. /\ status' = [status EXCEPT ![b] = "unauthenticated"]
        /\ latest' = [latest EXCEPT ![b] = NoTask]
        /\ outdated' = (outdated \cup {j \in Tasks : tabOf[j] = b /\ Restoring(j)}) \ ended
    BY DEF SignOut
  <1>2. /\ status' \in [Tabs -> Shown]
        /\ latest' \in [Tabs -> Tasks \cup {NoTask}] /\ outdated' \subseteq Tasks
    BY <1>1 DEF TypeOK, Shown
  <1>3. \A j \in outdated' : Restoring(j)'
    BY <1>1 DEF LatestStands, TypeOK
  <1>4. ASSUME NEW c \in Tabs, latest'[c] # NoTask
        PROVE  tabOf'[latest'[c]] = c /\ latest'[c] \notin outdated'
    <2>1. c # b /\ latest'[c] = latest[c]
      BY <1>1, <1>4 DEF TypeOK
    <2> QED  BY <1>1, <1>4, <2>1 DEF LatestStands
  <1> QED  BY <1>2, <1>3, <1>4 DEF LatestStands

\* A restoration that ends is overtaken no more, and its tab waits for it no more.
LEMMA EndRestoreLemma ==
    ASSUME TypeOK, LatestStands, UNCHANGED tabOf, NEW k \in Tasks, NEW shown \in Shown,
           EndRestore(k, shown),
           \A j \in Tasks \ {k} : Restoring(j) => Restoring(j)'
    PROVE  /\ LatestStands' /\ status' \in [Tabs -> Shown]
           /\ latest' \in [Tabs -> Tasks \cup {NoTask}] /\ outdated' \subseteq Tasks
  <1>1. tabOf[k] \in Tabs
    BY LiveTokens
  <1>2. /\ status' = IF Current(k) THEN [status EXCEPT ![tabOf[k]] = shown] ELSE status
        /\ latest' = [latest EXCEPT ![tabOf[k]] = IF Current(k) THEN NoTask ELSE @]
        /\ outdated' = outdated \ {k}
    BY DEF EndRestore
  <1>3. /\ status' \in [Tabs -> Shown]
        /\ latest' \in [Tabs -> Tasks \cup {NoTask}] /\ outdated' \subseteq Tasks
    BY <1>1, <1>2 DEF TypeOK
  <1>4. \A j \in outdated' : Restoring(j)'
    BY <1>2 DEF LatestStands, TypeOK
  <1>5. ASSUME NEW c \in Tabs, latest'[c] # NoTask
        PROVE  tabOf'[latest'[c]] = c /\ latest'[c] \notin outdated'
    <2>1. latest'[c] = latest[c]
      BY <1>1, <1>2, <1>5 DEF TypeOK
    <2> QED  BY <1>2, <1>5, <2>1 DEF LatestStands
  <1> QED  BY <1>3, <1>4, <1>5 DEF LatestStands

\* Cookies that come with an answer are the newest pair of their session.
LEMMA CookiesLemma ==
    ASSUME TypeOK, Owned, LoginsUnshown, ~excused => InOrder,
           UNCHANGED <<session, newest, issued, opener, excused>>,
           NEW k \in Tasks, task[k].step \in {"answered", "refreshed"}, jar' = task[k].sets,
           NEW S, S \subseteq Tasks, k \in S,
           \A j \in S : task[j].step \in {"answered", "refreshed", "wait"},
           \A j \in S \ {k} : task[j].step = "wait",
           \A j \in S : /\ task'[j].sets = 0 /\ task'[j].step = "sent"
                        /\ task'[j].token = jar',
           \A j \in Tasks \ S : task'[j] = task[j]
    PROVE  Owned' /\ LoginsUnshown' /\ (~excused' => InOrder')
  <1>1. issued \in Nat /\ \A j \in Tasks : task[j].sets <= issued /\ task[j].token <= issued
    BY LiveTokens DEF Owned
  <1>2. ASSUME NEW j \in Tasks
        PROVE  /\ task'[j].token <= issued /\ task'[j].sets <= issued
               /\ task'[j].sets # 0 =>
                     /\ task'[j].outcome = "ok"
                     /\ Runs(j)' => task'[j].step = "refreshed"
                     /\ ~Runs(j)' => task'[j].request = "login" /\ task'[j].step = "answered"
    <2>1. CASE j \in S
      <3>1. task'[j].token = task[k].sets /\ task'[j].sets = 0
        BY <2>1
      <3>2. task[k].sets <= issued /\ 0 <= issued
        BY <1>1
      <3> QED  BY <3>1, <3>2
    <2>2. CASE j \notin S
      BY <2>2 DEF Owned, Runs
    <2> QED  BY <2>1, <2>2
  <1>3. Owned'
    <2>1. \A t \in 1..issued' : opener'[t] \in SessionIds /\ session'[opener'[t]] # "none"
      BY DEF Owned
    <2> QED  BY <1>2, <2>1 DEF Owned
  <1>4. LoginsUnshown'
    <2> SUFFICES ASSUME NEW j \in Tasks, Opens(j)' PROVE Unshown(j)'
      BY DEF LoginsUnshown
    <2>1. j \notin S /\ task'[j] = task[j] /\ j # k
      BY DEF Opens
    <2>2. Unshown(j)
      BY <2>1 DEF Opens, Runs, LoginsUnshown
    <2>3. jar' # 0 => opener[jar'] # opener[task[j].sets]
      BY <2>1, <2>2 DEF Unshown
    <2>4. ASSUME NEW i \in Tasks
          PROVE  /\ task'[i].step = "refresh" /\ task'[i].token # 0 =>
                        opener[task'[i].token] # opener[task[j].sets]
                 /\ i # j /\ task'[i].sets # 0 =>
                        opener[task'[i].sets] # opener[task[j].sets]
      <3>1. CASE i \in S
        BY <3>1
      <3>2. CASE i \notin S
        BY <2>2, <3>2 DEF Unshown
      <3> QED  BY <3>1, <3>2
    <2> QED  BY <2>1, <2>2, <2>3, <2>4 DEF Unshown
  <1>5. ASSUME ~excused' PROVE InOrder'
    <2>1. InOrder
      BY <1>5
    <2>2. \A j \in Tasks : Runs(j)' => Runs(j) /\ task'[j] = task[j]
      BY DEF Runs
    <2>3. jar' # 0 => newest[opener[jar']] = jar'
      <3>1. CASE task[k].step = "refreshed"
        BY <2>1, <3>1 DEF InOrder, Newest
      <3>2. CASE task[k].step = "answered"
        BY <3>2 DEF LoginsUnshown, Opens, Runs, Unshown
      <3> QED  BY <3>1, <3>2
    <2>4. ASSUME NEW j \in Tasks, task'[j].step = "refresh", task'[j].token # 0
          PROVE  \/ newest[opener[task'[j].token]] = task'[j].token
                 \/ session[opener[task'[j].token]] # "active"
      <3>1. task'[j] = task[j]
        BY <2>2, <2>4 DEF Runs
      <3> QED  BY <2>1, <2>4, <3>1 DEF InOrder, Newest, Dead
    <2>5. ASSUME NEW j \in Tasks, task'[j].step = "refreshed", task'[j].sets # 0
          PROVE  newest[opener[task'[j].sets]] = task'[j].sets
      <3>1. task'[j] = task[j]
        BY <2>2, <2>5 DEF Runs
      <3> QED  BY <2>1, <2>5, <3>1 DEF InOrder, Newest
    <2> QED  BY <2>1, <2>2, <2>3, <2>4, <2>5 DEF InOrder, Newest, Dead
  <1> QED  BY <1>3, <1>4, <1>5

LEMMA ReceiveRefreshKeeps ==
    ASSUME BrowserInv, UNCHANGED tabOf, NEW k \in Tasks, ReceiveRefresh(k)
    PROVE  BrowserInv'
  <1>0. /\ TypeOK /\ Owned /\ LoginsUnshown /\ (~excused => InOrder) /\ LatestStands
        /\ ReuseExplained
    BY DEF BrowserInv
  <1>1. /\ task[k].step = "refreshed"
        /\ jar' = task[k].sets
        /\ task' = [j \in Tasks |->
                       IF j \in Sharing(k) THEN Sent(task[j], task[j].request, jar', TRUE)
                       ELSE task[j]]
        /\ UNCHANGED <<session, newest, issued, opener, fresh, status, latest, outdated, faults,
                       reused, excused>>
    BY DEF ReceiveRefresh, server, provider, history
  <1>2. /\ task \in [Tasks -> TaskState] /\ issued \in 0..MaxTokens
        /\ \A j \in Tasks : task[j] \in TaskState
    BY <1>0, LiveTokens
  <1>3. task[k].sets \in 0..MaxTokens /\ task[k].sets <= issued
    BY <1>0, <1>2, TaskFields DEF Owned
  <1>4. jar' \in 0..issued /\ jar' \in 0..MaxTokens
    BY <1>1, <1>2, <1>3
  <1>5. ASSUME NEW j \in Sharing(k)
        PROVE  /\ task'[j] \in TaskState /\ task'[j].request = task[j].request
               /\ task'[j].sets = 0 /\ task'[j].step = "sent" /\ task'[j].token = jar'
    <2>1. j \in Tasks /\ task'[j] = Sent(task[j], task[j].request, jar', TRUE)
      BY <1>1 DEF Sharing
    <2>2. task[j] \in TaskState /\ task[j].request \in Requests \cup {"none"}
      BY <1>2, <2>1, TaskFields
    <2>3. /\ Sent(task[j], task[j].request, jar', TRUE) \in TaskState
          /\ Sent(task[j], task[j].request, jar', TRUE).request = task[j].request
          /\ Sent(task[j], task[j].request, jar', TRUE).sets = 0
          /\ Sent(task[j], task[j].request, jar', TRUE).step = "sent"
          /\ Sent(task[j], task[j].request, jar', TRUE).token = jar'
      <3>1. jar' \in 0..MaxTokens
        BY <1>4
      <3> QED  BY <2>2, <3>1, SentAgain
    <2> QED  BY <2>1, <2>3
  <1>6. \A j \in Tasks \ Sharing(k) : task'[j] = task[j]
    BY <1>1
  <1>7. task' \in [Tasks -> TaskState]
    <2>1. \A j \in Tasks : task'[j] \in TaskState
      BY <1>2, <1>5, <1>6
    <2>2. task' = [j \in Tasks |-> task'[j]]
      BY <1>1
    <2> QED  BY <2>1, <2>2
  <1>8. TypeOK'
    BY <1>0, <1>1, <1>4, <1>7 DEF TypeOK
  <1>9. /\ Sharing(k) \subseteq Tasks /\ k \in Sharing(k)
        /\ \A j \in Sharing(k) \ {k} : task[j].step = "wait"
    BY DEF Sharing
  <1>10. Owned' /\ LoginsUnshown' /\ (~excused' => InOrder')
    BY <1>0, <1>1, <1>5, <1>6, <1>9, CookiesLemma
  <1>11. \A j \in Tasks : Restoring(j) => Restoring(j)'
    BY <1>5, <1>6 DEF Restoring
  <1>12. LatestStands'
    BY <1>0, <1>1, <1>11, LiveTokens, LatestKept
  <1> QED  BY <1>0, <1>1, <1>8, <1>10, <1>12 DEF BrowserInv, ReuseExplained

LEMMA ReceiveRefreshFailureKeeps ==
    ASSUME BrowserInv, UNCHANGED tabOf, NEW k \in Tasks, ReceiveRefreshFailure(k)
    PROVE  BrowserInv'
  <1>0. /\ TypeOK /\ Owned /\ LoginsUnshown /\ (~excused => InOrder) /\ LatestStands
        /\ ReuseExplained
    BY DEF BrowserInv
  <1>1. /\ task[k].step = "refreshed" /\ task[k].outcome # "ok"
        /\ SignOut(tabOf[k], Sharing(k))
        /\ task' = [j \in Tasks |-> IF j \in Sharing(k) THEN Idle ELSE task[j]]
        /\ UNCHANGED <<session, newest, issued, opener, fresh, jar, faults, reused, excused>>
    BY DEF ReceiveRefreshFailure, server, history
  <1>2. /\ task \in [Tasks -> TaskState] /\ tabOf[k] \in Tabs /\ issued \in Nat
        /\ session' \in [SessionIds -> {"none", "active", "over"}]
    BY <1>0, <1>1, LiveTokens
  <1>3. task' \in [Tasks -> TaskState]
    BY <1>1, <1>2, IdleTask
  <1>4. \A j \in Tasks \ Sharing(k) : task'[j] = task[j]
    BY <1>1
  <1>5. \A j \in Tasks \ Sharing(k) : Restoring(j) => Restoring(j)'
    BY <1>4 DEF Restoring
  <1>6. /\ LatestStands' /\ status' \in [Tabs -> Shown]
        /\ latest' \in [Tabs -> Tasks \cup {NoTask}] /\ outdated' \subseteq Tasks
    BY <1>0, <1>1, <1>2, <1>5, SignOutLemma
  <1>7. TypeOK'
    BY <1>0, <1>1, <1>3, <1>6 DEF TypeOK
  <1>8. ASSUME NEW j \in Tasks PROVE Steady(j)
    <2>1. CASE j \in Sharing(k)
      <3>1. task'[j] = Idle
        BY <1>1, <2>1
      <3>2. ~(task[j].step = "refreshed" /\ task[j].sets # 0)
        BY <1>0, <1>1, <2>1 DEF Sharing, Owned
      <3>3. task'[j].sets = 0 /\ task'[j].token = 0 /\ task'[j].step = "idle"
        BY <3>1, IdleTask
      <3> QED  BY <1>2, <3>2, <3>3 DEF Steady
    <2>2. CASE j \notin Sharing(k)
      BY <1>4, <2>2 DEF Steady
    <2> QED  BY <2>1, <2>2
  <1>9. Owned' /\ LoginsUnshown' /\ (~excused' => InOrder')
    BY <1>0, <1>1, <1>2, <1>8, CalmLemma
  <1> QED  BY <1>0, <1>1, <1>6, <1>7, <1>9 DEF BrowserInv, ReuseExplained

\* A task that goes on with another request, or ends.
LEMMA GoesOn ==
    ASSUME BrowserInv, UNCHANGED tabOf, NEW k \in Tasks, task[k].step = "answered",
           NEW o \in TaskState, task' = [task EXCEPT ![k] = o],
           o.sets = 0, o.token \in 0..issued, o.step \in {"idle", "sent"},
           UNCHANGED <<session, newest, issued, opener, fresh, faults, reused, excused>>,
           jar' = jar \/ jar' = 0,
           LatestStands', status' \in [Tabs -> Shown],
           latest' \in [Tabs -> Tasks \cup {NoTask}], outdated' \subseteq Tasks
    PROVE  BrowserInv'
  <1>0. /\ TypeOK /\ Owned /\ LoginsUnshown /\ (~excused => InOrder) /\ ReuseExplained
    BY DEF BrowserInv
  <1>1. /\ task \in [Tasks -> TaskState] /\ issued \in Nat /\ jar \in 0..issued
        /\ session' \in [SessionIds -> {"none", "active", "over"}]
    BY <1>0, LiveTokens
  <1>2. /\ task' \in [Tasks -> TaskState] /\ task'[k] = o
        /\ \A j \in Tasks \ {k} : task'[j] = task[j]
    BY <1>1
  <1>3. jar' \in 0..issued
    BY <1>1
  <1>4. TypeOK'
    BY <1>0, <1>2, <1>3 DEF TypeOK
  <1>5. o.token <= issued
    BY <1>1
  <1>6. Steady(k)
    BY <1>2, <1>5 DEF Steady
  <1>7. \A j \in Tasks : Steady(j)
    BY <1>2, <1>6 DEF Steady
  <1>8. Owned' /\ LoginsUnshown' /\ (~excused' => InOrder')
    BY <1>0, <1>1, <1>7, CalmLemma
  <1> QED  BY <1>0, <1>4, <1>8 DEF BrowserInv, ReuseExplained

LEMMA ReceiveRestoreKeeps ==
    ASSUME BrowserInv, UNCHANGED tabOf, NEW k \in Tasks, ReceiveRestore(k)
    PROVE  BrowserInv'
  <1>0. TypeOK /\ LatestStands
    BY DEF BrowserInv
  <1>1. /\ task[k].step = "answered" /\ Restoring(k)
        /\ UNCHANGED <<session, newest, issued, opener, fresh, jar, faults, reused, excused>>
    BY DEF ReceiveRestore, server, history
  <1>2. /\ task \in [Tasks -> TaskState] /\ task[k] \in TaskState /\ jar \in 0..issued
        /\ jar \in 0..MaxTokens /\ 0 \in 0..issued
    BY <1>0, LiveTokens
  <1>3. CASE /\ task[k].request = "user" /\ UNCHANGED provider
             /\ task' = [task EXCEPT ![k] = Sent(task[k], "workspaces", jar, FALSE)]
    <2> DEFINE o == Sent(task[k], "workspaces", jar, FALSE)
    <2>1. o \in TaskState /\ o.request = "workspaces" /\ o.step = "sent" /\ o.sets = 0
          /\ o.token = jar
      <3>1. "workspaces" \in Requests
        BY DEF Requests
      <3>2. task[k] \in TaskState /\ jar \in 0..MaxTokens
        BY <1>2
      <3>3. o \in TaskState /\ o.request = "workspaces" /\ o.step = "sent"
        BY <3>1, <3>2, SentOnce
      <3>4. o.sets = 0
        BY <3>1, <3>2, SentOnce
      <3>5. o.token = jar
        BY SentToken
      <3> QED  BY <3>3, <3>4, <3>5
    <2>2. task' = [task EXCEPT ![k] = o]
      BY <1>3
    <2> HIDE DEF o
    <2>3. \A j \in Tasks : Restoring(j) => Restoring(j)'
      BY <1>2, <2>1, <2>2 DEF Restoring
    <2>4. LatestStands'
      BY <1>0, <1>3, <2>3, LiveTokens, LatestKept DEF provider
    <2>5. /\ status' \in [Tabs -> Shown] /\ latest' \in [Tabs -> Tasks \cup {NoTask}]
          /\ outdated' \subseteq Tasks
      BY <1>0, <1>3 DEF TypeOK, provider
    <2>6. o.token \in 0..issued /\ o.step \in {"idle", "sent"}
      BY <1>2, <2>1
    <2> QED  BY <1>1, <2>1, <2>2, <2>4, <2>5, <2>6, GoesOn
  <1>4. CASE /\ \E shown \in Shown : EndRestore(k, shown)
             /\ task' = [task EXCEPT ![k] = Idle]
    <2>1. PICK shown \in Shown : EndRestore(k, shown)
      BY <1>4
    <2>2. \A j \in Tasks \ {k} : Restoring(j) => Restoring(j)'
      BY <1>2, <1>4 DEF Restoring
    <2>3. /\ LatestStands' /\ status' \in [Tabs -> Shown]
          /\ latest' \in [Tabs -> Tasks \cup {NoTask}] /\ outdated' \subseteq Tasks
      BY <1>0, <2>1, <2>2, EndRestoreLemma
    <2> QED  BY <1>1, <1>2, <1>4, <2>3, IdleTask, GoesOn
  <1>5. /\ "authenticated" \in Shown /\ "unauthenticated" \in Shown
        /\ "recoverable-error" \in Shown /\ OnFailure \in Shown
    BY DEF Shown, OnFailure
  <1> QED  BY <1>3, <1>4, <1>5 DEF ReceiveRestore

\* Login ends with a restoration of its own, which its tab waits for.
LEMMA ReceiveLoginKeeps ==
    ASSUME BrowserInv, UNCHANGED tabOf, NEW k \in Tasks, ReceiveLogin(k)
    PROVE  BrowserInv'
  <1>0. /\ TypeOK /\ Owned /\ LoginsUnshown /\ (~excused => InOrder) /\ ReuseExplained
        /\ LatestStands
    BY DEF BrowserInv
  <1>1. /\ task[k].step = "answered" /\ task[k].request = "login"
        /\ UNCHANGED <<session, newest, issued, opener, fresh, faults, reused, excused>>
    BY DEF ReceiveLogin, server, history
  <1>2. /\ task \in [Tasks -> TaskState] /\ task[k] \in TaskState /\ jar \in 0..issued
        /\ issued \in 0..MaxTokens /\ 0 \in 0..issued
        /\ tabOf[k] \in Tabs /\ tabOf \in [Tasks -> Tabs]
    BY <1>0, LiveTokens
  <1>3. ~Restoring(k)
    BY <1>1 DEF Restoring
  <1>4. CASE /\ jar' = task[k].sets /\ BeginRestore(k)
             /\ task' = [task EXCEPT ![k] = Sent(task[k], "user", jar', FALSE)]
    <2> DEFINE o == Sent(task[k], "user", jar', FALSE)
    <2>1. jar' \in 0..issued /\ jar' \in 0..MaxTokens
      <3>1. task[k].sets \in 0..MaxTokens /\ task[k].sets <= issued
        BY <1>0, <1>2, TaskFields DEF Owned
      <3> QED  BY <1>2, <1>4, <3>1
    <2>2. o \in TaskState /\ o.request = "user" /\ o.step = "sent" /\ o.sets = 0
          /\ o.token = jar'
      <3>1. "user" \in Requests
        BY DEF Requests
      <3>2. task[k] \in TaskState /\ jar' \in 0..MaxTokens
        BY <1>2, <2>1
      <3>3. o \in TaskState /\ o.request = "user" /\ o.step = "sent"
        BY <3>1, <3>2, SentOnce
      <3>4. o.sets = 0
        BY <3>1, <3>2, SentOnce
      <3>5. o.token = jar'
        BY SentToken
      <3> QED  BY <3>3, <3>4, <3>5
    <2>3. task' = [task EXCEPT ![k] = o]
      BY <1>4
    <2> HIDE DEF o
    <2>4. /\ task' \in [Tasks -> TaskState] /\ task'[k] = o
          /\ \A j \in Tasks \ {k} : task'[j] = task[j]
      BY <1>2, <2>2, <2>3
    <2>5. Owned' /\ LoginsUnshown' /\ (~excused' => InOrder')
      <3> DEFINE S == {k}
      <3>1. /\ S \subseteq Tasks /\ k \in S
            /\ \A j \in S : task[j].step \in {"answered", "refreshed", "wait"}
            /\ \A j \in S \ {k} : task[j].step = "wait"
        BY <1>1
      <3>2. /\ \A j \in S : /\ task'[j].sets = 0 /\ task'[j].step = "sent"
                            /\ task'[j].token = jar'
            /\ \A j \in Tasks \ S : task'[j] = task[j]
        BY <2>2, <2>4
      <3>3. task[k].step \in {"answered", "refreshed"} /\ jar' = task[k].sets
        BY <1>1, <1>4
      <3> HIDE DEF S
      <3> QED  BY <1>0, <1>1, <3>1, <3>2, <3>3, CookiesLemma
    <2>6. /\ status' = [status EXCEPT ![tabOf[k]] = "initializing"]
          /\ latest' = [latest EXCEPT ![tabOf[k]] = k]
          /\ outdated' = outdated \cup {j \in Tasks : tabOf[j] = tabOf[k] /\ Restoring(j)}
      BY <1>4 DEF BeginRestore
    <2>7. TypeOK'
      BY <1>0, <1>1, <1>2, <2>1, <2>4, <2>6 DEF TypeOK, Shown
    <2>8. LatestStands'
      <3>1. \A j \in outdated' : j \in Tasks /\ j # k /\ Restoring(j)
        BY <1>0, <1>3, <2>6 DEF LatestStands, TypeOK
      <3>2. \A j \in outdated' : Restoring(j)'
        BY <2>4, <3>1 DEF Restoring
      <3>3. ASSUME NEW c \in Tabs, latest'[c] # NoTask
            PROVE  tabOf'[latest'[c]] = c /\ latest'[c] \notin outdated'
        <4>1. CASE c = tabOf[k]
          BY <1>0, <2>6, <3>1, <4>1 DEF TypeOK
        <4>2. CASE c # tabOf[k]
          <5>1. latest'[c] = latest[c]
            BY <1>0, <2>6, <4>2 DEF TypeOK
          <5> QED  BY <1>0, <2>6, <3>3, <4>2, <5>1 DEF LatestStands
        <4> QED  BY <4>1, <4>2
      <3> QED  BY <3>2, <3>3 DEF LatestStands
    <2> QED  BY <1>0, <1>1, <2>5, <2>7, <2>8 DEF BrowserInv, ReuseExplained
  <1>5. CASE task' = [task EXCEPT ![k] = Idle] /\ UNCHANGED <<jar, provider>>
    <2>1. \A j \in Tasks : Restoring(j) => Restoring(j)'
      BY <1>2, <1>3, <1>5 DEF Restoring
    <2>2. LatestStands'
      BY <1>0, <1>5, <2>1, LiveTokens, LatestKept DEF provider
    <2>3. /\ status' \in [Tabs -> Shown] /\ latest' \in [Tabs -> Tasks \cup {NoTask}]
          /\ outdated' \subseteq Tasks
      BY <1>0, <1>5 DEF TypeOK, provider
    <2> QED  BY <1>1, <1>2, <1>5, <2>2, <2>3, IdleTask, GoesOn
  <1> QED  BY <1>4, <1>5 DEF ReceiveLogin

LEMMA ReceiveUseKeeps ==
    ASSUME BrowserInv, UNCHANGED tabOf, NEW k \in Tasks, ReceiveUse(k)
    PROVE  BrowserInv'
  <1>0. TypeOK /\ LatestStands
    BY DEF BrowserInv
  <1>1. /\ task[k].step = "answered" /\ task[k].request \in {"page", "change", "logout"}
        /\ task' = [task EXCEPT ![k] = Idle]
        /\ jar' = jar \/ jar' = 0
        /\ SignOut(tabOf[k], {k}) \/ UNCHANGED provider
        /\ UNCHANGED <<session, newest, issued, opener, fresh, faults, reused, excused>>
    BY DEF ReceiveUse, server, history
  <1>2. /\ task \in [Tasks -> TaskState] /\ 0 \in 0..issued /\ tabOf[k] \in Tabs
    BY <1>0, LiveTokens
  <1>3. \A j \in Tasks : Restoring(j) => Restoring(j)'
    BY <1>1, <1>2 DEF Restoring
  <1>4. /\ LatestStands' /\ status' \in [Tabs -> Shown]
        /\ latest' \in [Tabs -> Tasks \cup {NoTask}] /\ outdated' \subseteq Tasks
    <2>1. CASE SignOut(tabOf[k], {k})
      BY <1>0, <1>2, <1>3, <2>1, SignOutLemma
    <2>2. CASE UNCHANGED provider
      <3>1. LatestStands'
        BY <1>0, <1>3, <2>2, LiveTokens, LatestKept DEF provider
      <3> QED  BY <1>0, <2>2, <3>1 DEF TypeOK, provider
    <2> QED  BY <1>1, <2>1, <2>2
  <1> QED  BY <1>1, <1>2, <1>4, IdleTask, GoesOn

LEMMA InitHolds == Init => BrowserInv
  <1> SUFFICES ASSUME Init PROVE BrowserInv
    OBVIOUS
  <1>1. /\ issued = 0 /\ jar = 0 /\ outdated = {} /\ reused = FALSE /\ excused = FALSE
        /\ latest = [b \in Tabs |-> NoTask] /\ tabOf \in Placements
        /\ task = [k \in Tasks |-> Idle]
    BY DEF Init
  <1>2. \A k \in Tasks : task[k].step = "idle" /\ task[k].token = 0 /\ task[k].sets = 0
    BY <1>1, IdleTask
  <1>3. TypeOK
    <2>1. task \in [Tasks -> TaskState]
      BY <1>1, IdleTask
    <2>2. /\ issued \in 0..MaxTokens /\ jar \in 0..issued /\ faults \in 0..MaxFaults
          /\ fresh \subseteq 1..issued /\ outdated \subseteq Tasks
          /\ newest \in [SessionIds -> 0..issued]
      BY <1>1, TokensAssumption DEF Init
    <2>3. /\ session \in [SessionIds -> {"none", "active", "over"}]
          /\ opener \in [Tokens -> SessionIds \cup {NoSession}]
          /\ status \in [Tabs -> Shown]
          /\ latest \in [Tabs -> Tasks \cup {NoTask}]
      BY <1>1 DEF Init, Shown
    <2>4. reused \in BOOLEAN /\ excused \in BOOLEAN
      BY <1>1
    <2> QED  BY <1>1, <2>1, <2>2, <2>3, <2>4 DEF TypeOK
  <1>4. Owned
    BY <1>1, <1>2 DEF Owned
  <1>5. LoginsUnshown
    BY <1>2 DEF LoginsUnshown, Opens
  <1>6. InOrder
    BY <1>1, <1>2 DEF InOrder, Runs
  <1>7. LatestStands
    BY <1>1 DEF LatestStands
  <1> QED  BY <1>1, <1>3, <1>4, <1>5, <1>6, <1>7 DEF BrowserInv, ReuseExplained

LEMMA NextKeeps ==
    ASSUME BrowserInv, [Next]_vars
    PROVE  BrowserInv'
  <1>1. CASE Next
    <2>1. UNCHANGED tabOf
      BY <1>1 DEF Next
    <2>2. CASE Expire
      BY <2>1, <2>2, ExpireKeeps
    <2>3. ASSUME NEW k \in Tasks, Begin(k) PROVE BrowserInv'
      BY <2>1, <2>3, RestoreKeeps, LoginKeeps, UseKeeps DEF Begin
    <2>4. ASSUME NEW k \in Tasks, Serve(k) \/ ServeRefresh(k) PROVE BrowserInv'
      BY <2>1, <2>4, ServeKeeps, ServeRefreshKeeps
    <2>5. ASSUME NEW k \in Tasks, Receive(k) PROVE BrowserInv'
      BY <2>1, <2>5, ReceiveUnauthorizedKeeps, ReceiveRefreshKeeps, ReceiveRefreshFailureKeeps,
         ReceiveRestoreKeeps, ReceiveLoginKeeps, ReceiveUseKeeps DEF Receive
    <2> QED  BY <1>1, <2>2, <2>3, <2>4, <2>5 DEF Next, Proceed
  <1>2. CASE UNCHANGED vars
    <2>1. UNCHANGED <<session, newest, issued, opener, fresh, jar, status, latest, outdated,
                      tabOf, task, faults, reused, excused>>
      BY <1>2 DEF vars, server, provider, history
    <2>2. TypeOK' /\ Owned' /\ ReuseExplained' /\ LatestStands'
      BY <2>1 DEF BrowserInv, TypeOK, Owned, Runs, ReuseExplained, LatestStands, Restoring
    <2>3. LoginsUnshown'
      BY <2>1 DEF BrowserInv, LoginsUnshown, Opens, Runs, Unshown
    <2>4. ~excused' => InOrder'
      BY <2>1 DEF BrowserInv, InOrder, Runs, Newest, Dead
    <2> QED  BY <2>2, <2>3, <2>4 DEF BrowserInv
  <1> QED  BY <1>1, <1>2

\* Everything the browser, its tabs and the server hold stays of its kind: a cookie and a
\* request carry a pair that was issued, a tab waits for a task or for none.
THEOREM BrowserTypes == FairSpec => []TypeOK
  <1>1. BrowserInv => TypeOK
    BY DEF BrowserInv
  <1>2. BrowserInv /\ [Next]_vars => BrowserInv'
    BY NextKeeps
  <1> QED  BY <1>1, <1>2, InitHolds, PTL DEF FairSpec

\* A browser runs into the reuse detection only after a refresh's answer was lost or two of
\* its tabs refreshed at once: refresh() of api/client.ts, with any number of tabs and calls
\* in progress, never sends a replaced refresh token on its own account.
THEOREM BrowserExplainsReuse == FairSpec => []ReuseExplained
  <1>1. BrowserInv => ReuseExplained
    BY DEF BrowserInv
  <1>2. BrowserInv /\ [Next]_vars => BrowserInv'
    BY NextKeeps
  <1> QED  BY <1>1, <1>2, InitHolds, PTL DEF FairSpec

\* Only the restoration that a tab waits for signs it in.
LEMMA SignedInByLatest ==
    ASSUME BrowserInv, [Next]_vars, NEW b \in Tabs, status'[b] = "authenticated",
           status[b] # "authenticated"
    PROVE  \E k \in Tasks \ outdated : tabOf[k] = b /\ task[k].request = "workspaces"
                                       /\ task'[k] = Idle
  <1>0. /\ LatestStands /\ status \in [Tabs -> Shown] /\ task \in [Tasks -> TaskState]
        /\ tabOf \in [Tasks -> Tabs]
    BY LiveTokens DEF BrowserInv, TypeOK
  <1>1. status' # status
    OBVIOUS
  <1>2. PICK k \in Tasks : Begin(k) \/ Proceed(k)
    BY <1>1 DEF Next, Expire, vars, provider
  <1>3. tabOf[k] \in Tabs
    BY <1>0
  <1>4. ~BeginRestore(k)
    BY <1>0, <1>3 DEF BeginRestore
  <1>5. \A ended : ~SignOut(tabOf[k], ended)
    BY <1>0, <1>3 DEF SignOut
  <1>6. ReceiveRestore(k)
    BY <1>1, <1>2, <1>4, <1>5 DEF Begin, Proceed, Receive, Restore, Login, Use, Serve,
       ServeRefresh, ReceiveUnauthorized, ReceiveRefresh, ReceiveRefreshFailure, ReceiveLogin,
       ReceiveUse, provider
  <1>7. \A shown \in {"recoverable-error", "unauthenticated"} : ~EndRestore(k, shown)
    BY <1>0, <1>3 DEF EndRestore
  <1>8. /\ task[k].request = "workspaces" /\ EndRestore(k, "authenticated")
        /\ task' = [task EXCEPT ![k] = Idle]
    BY <1>1, <1>6, <1>7 DEF ReceiveRestore, OnFailure, provider
  <1>9. Current(k) /\ tabOf[k] = b
    BY <1>0, <1>3, <1>8 DEF EndRestore
  <1>10. k \notin outdated
    BY <1>0, <1>9, TabsAssumption DEF Current, LatestStands
  <1> QED  BY <1>0, <1>8, <1>9, <1>10

\* A restoration that was overtaken by a logout, a failed refresh or another restoration
\* signs nobody in, in whatever order the answers come: restoreSequence of AuthProvider.tsx.
THEOREM OvertakenRestorationsSignNobodyIn == FairSpec => OvertakenStaysOut
  <1> DEFINE Stays == \A b \in Tabs :
                status'[b] = "authenticated" /\ status[b] # "authenticated" =>
                    \E k \in Tasks \ outdated : tabOf[k] = b /\ task[k].request = "workspaces"
                                                /\ task'[k] = Idle
  <1>1. BrowserInv /\ [Next]_vars => BrowserInv'
    BY NextKeeps
  <1>2. BrowserInv /\ [Next]_vars => [Stays]_vars
    BY SignedInByLatest
  <1> QED  BY <1>1, <1>2, InitHolds, PTL DEF FairSpec, OvertakenStaysOut
==============================================================================

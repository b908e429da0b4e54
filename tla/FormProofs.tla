------------------------------ MODULE FormProofs ------------------------------
(***************************************************************************)
(* Theorems about what a user types and clicks, in three components that   *)
(* share nothing: the account pages, the application form, and the panels  *)
(* of the resume and its analyses with the requests they send.             *)
(***************************************************************************)
EXTENDS AccountPages, ApplicationForm, Analysis, TLAPS

(***************************************************************************)
(* AccountPages, for any tabs, calls, cooldown and longer countdown.  A    *)
(* mail that the sign-up page offers is sent because the page's clock      *)
(* never runs ahead of the server's (Clock), its button comes back by that *)
(* clock (Counting), and the page that the button was pressed on is still  *)
(* the one that waits (Awaited, Single).                                   *)
(***************************************************************************)
FromSignup == {"signup", "resend"}

\* While a tab's countdown is newer than the last mail, the server has counted
\* at least as long as the tab.
Clock == \A t \in Tabs \ crossed : sentAgo = Cooldown \/ elapsed[t] <= sentAgo

\* The page never counts faster than time.
Counting == \A t \in Tabs : page[t].seconds + elapsed[t] >= Countdown

\* A request that its page still waits for finds it as it was left.
Awaited ==
    \A c \in Calls : call[c].live =>
        /\ call[c].tab \in Tabs /\ call[c].request \in DOMAIN Origin
        /\ page[call[c].tab].at = Origin[call[c].request]
        /\ call[c].request = "signup" =>
              page[call[c].tab].view = "form" /\ page[call[c].tab].busy
        /\ call[c].request = "resend" =>
              /\ page[call[c].tab].view = "sent" /\ page[call[c].tab].resending
              /\ page[call[c].tab].seconds = 0

\* The sign-up page waits for one request at a time.
Single ==
    \A c, d \in Calls :
        (/\ call[c].live /\ call[d].live /\ call[c].tab = call[d].tab
         /\ call[c].request \in FromSignup /\ call[d].request \in FromSignup)
            => c = d

\* A page that is about to hear that its mail failed has nothing to wait for.
Unsent ==
    \A c \in Calls :
        call[c].live /\ call[c].request = "signup" /\ call[c].answer = "unsent"
            => sentAgo = Cooldown \/ call[c].tab \in crossed

\* Every request has a tab.
Owned == \A c \in Calls : call[c].request # "none" => call[c].tab \in Tabs

AccountInv == TypeOK /\ Owned /\ Clock /\ Counting /\ Awaited /\ Single /\ Unsent
----------------------------------------------------------------------------
(***************************************************************************)
(* Type correctness                                                        *)
(***************************************************************************)
LEMMA Numbers == Cooldown \in Nat \ {0} /\ Countdown \in Nat /\ Cooldown <= Countdown
                 /\ MaxLinks \in Nat /\ MaxFaults \in Nat /\ NoTab \notin Tabs
  BY CooldownAssumption, BoundsAssumption

\* A page that mounts is a page that does not count.
LEMMA FreshPage ==
    ASSUME NEW at \in {"signup", "verify", "login", "profile"},
           NEW view \in {"form", "sent", "loading", "verified", "invalid"},
           NEW ready \in BOOLEAN
    PROVE  Fresh(at, view, ready) \in Page
  BY Numbers DEF Fresh, Page

\* What mounting does to the state's types.
LEMMA MountsType ==
    ASSUME TypeOK, NEW t \in Tabs, NEW fresh \in Page, Mounts(t, fresh)
    PROVE  page' \in [Tabs -> Page] /\ elapsed' \in [Tabs -> 0..Countdown]
           /\ crossed' \subseteq Tabs
  BY Numbers DEF TypeOK, Mounts

\* A request as it is sent.
LEMMA SendsType ==
    ASSUME TypeOK, NEW t \in Tabs, NEW c \in Calls, NEW wanted \in DOMAIN Origin,
           NEW l \in 0..MaxLinks, Sends(t, c, wanted, l)
    PROVE  call' \in [Calls -> Call]
  <1>1. [request |-> wanted, tab |-> t, link |-> l, live |-> TRUE, answer |-> "none"] \in Call
    BY DEF Call
  <1> QED BY <1>1 DEF TypeOK, Sends

\* Idle calls and calls abandoned are calls.
LEMMA CallTypes ==
    ASSUME TypeOK
    PROVE  /\ NoCall \in Call
           /\ \A t : Abandoned(t) \in [Calls -> Call]
           /\ \A c \in Calls : Done(c) => call' \in [Calls -> Call]
  <1>1. NoCall \in Call
    BY Numbers DEF NoCall, Call
  <1>2. ASSUME NEW t PROVE Abandoned(t) \in [Calls -> Call]
    <2>1. ASSUME NEW c \in Calls PROVE [call[c] EXCEPT !.live = FALSE] \in Call
      BY DEF TypeOK, Call
    <2> QED BY <2>1 DEF Abandoned, TypeOK
  <1> QED BY <1>1, <1>2 DEF Done, TypeOK

\* An answer as it is sent, or lost.
LEMMA AnswerType ==
    ASSUME TypeOK, NEW c \in Calls, NEW failed \in BOOLEAN,
           NEW answer \in {"none", "mailing", "ok", "quiet", "cooling", "unsent", "refused", "lost"},
           Answer(c, answer, failed)
    PROVE  call' \in [Calls -> Call] /\ faults' \in 0..MaxFaults
  <1> PICK got \in {answer, "lost"} :
        LET n == IF got = answer /\ ~failed THEN 0 ELSE 1 IN
        /\ faults + n <= MaxFaults
        /\ faults' = faults + n
        /\ call' = [call EXCEPT ![c].answer = got]
    BY DEF Answer
  <1>1. faults' \in 0..MaxFaults
    BY Numbers DEF TypeOK
  <1>2. call' \in [Calls -> Call]
    BY DEF TypeOK, Call
  <1> QED BY <1>1, <1>2

\* How a mail ends.
LEMMA MailCases ==
    ASSUME NEW c, Mail(c)
    PROVE  /\ call[c].answer = "mailing" /\ UNCHANGED <<registration, link, page, elapsed>>
           /\ \/ /\ mailed' = mailed \cup {call[c].link}
                 /\ UNCHANGED <<sentAgo, crossed>>
                 /\ Answer(c, "ok", FALSE)
              \/ /\ sentAgo' = Cooldown /\ crossed' = {} /\ UNCHANGED mailed
                 /\ Answer(c, "unsent", TRUE)
  BY Zenon DEF Mail

\* A token that is committed, and a mail that ends, leave the state typed.
LEMMA IssueType ==
    ASSUME TypeOK, NEW c \in Calls, Issue(c), UNCHANGED <<page, elapsed>>
    PROVE  TypeOK'
  <1>1. link' \in 0..MaxLinks /\ link + 1 \in 0..MaxLinks
    BY Numbers DEF Issue, TypeOK
  <1>2. call' \in [Calls -> Call]
    BY <1>1 DEF Issue, TypeOK, Call
  <1>3. sentAgo' \in 0..Cooldown
    BY Numbers DEF Issue
  <1> QED BY <1>1, <1>2, <1>3 DEF Issue, TypeOK

LEMMA MailType ==
    ASSUME TypeOK, NEW c \in Calls, Mail(c)
    PROVE  TypeOK'
  <1>1. call' \in [Calls -> Call] /\ faults' \in 0..MaxFaults
    <2>1. CASE Answer(c, "ok", FALSE)
      BY <2>1, AnswerType
    <2>2. CASE Answer(c, "unsent", TRUE)
      BY <2>2, AnswerType
    <2> QED BY <2>1, <2>2, MailCases
  <1>2. call[c].link \in 0..MaxLinks
    BY DEF TypeOK, Call
  <1>3. \/ mailed' = mailed \cup {call[c].link} /\ UNCHANGED <<sentAgo, crossed>>
        \/ sentAgo' = Cooldown /\ crossed' = {} /\ UNCHANGED mailed
    BY MailCases, Zenon
  <1>4. mailed' \subseteq 0..MaxLinks
    BY <1>2, <1>3 DEF TypeOK
  <1>5. sentAgo' \in 0..Cooldown /\ crossed' \subseteq Tabs
    BY <1>3, Numbers DEF TypeOK
  <1> QED BY <1>1, <1>4, <1>5, MailCases DEF TypeOK
----------------------------------------------------------------------------
\* Every action of the person keeps the types.
LEMMA ActsType ==
    ASSUME TypeOK, NEW t \in Tabs, NEW c \in Calls, Acts(t, c)
    PROVE  TypeOK'
  <1>0. DOMAIN Origin = {"signup", "resend", "verify", "newlink", "login", "change"}
    BY DEF Origin
  <1>l. 0 \in 0..MaxLinks
    BY Numbers
  <1>1. CASE SubmitSignup(t, c)
    <2>1. call' \in [Calls -> Call]
      BY <1>1, <1>0, <1>l, SendsType DEF SubmitSignup
    <2> QED BY <1>1, <2>1 DEF SubmitSignup, TypeOK, Page, server
  <1>2. CASE ResendFromSignup(t, c)
    <2>1. call' \in [Calls -> Call]
      BY <1>2, <1>0, <1>l, SendsType DEF ResendFromSignup
    <2> QED BY <1>2, <2>1 DEF ResendFromSignup, TypeOK, Page, server
  <1>3. CASE ResendFromVerify(t, c)
    <2>1. call' \in [Calls -> Call]
      BY <1>3, <1>0, <1>l, SendsType DEF ResendFromVerify
    <2> QED BY <1>3, <2>1 DEF ResendFromVerify, TypeOK, Page, server
  <1>4. CASE FollowLink(t, c)
    <2>1. PICK l \in mailed : Sends(t, c, "verify", l)
      BY <1>4 DEF FollowLink
    <2>2. l \in 0..MaxLinks
      BY <2>1 DEF TypeOK
    <2>3. call' \in [Calls -> Call]
      BY <2>1, <2>2, <1>0, SendsType
    <2>4. PICK ready \in {FALSE, registration = "consumed"} :
             Mounts(t, Fresh("verify", "loading", ready))
      BY <1>4 DEF FollowLink
    <2>5. Fresh("verify", "loading", ready) \in Page
      BY <2>4, FreshPage
    <2>6. /\ page' \in [Tabs -> Page] /\ elapsed' \in [Tabs -> 0..Countdown]
          /\ crossed' \subseteq Tabs
      BY <2>4, <2>5, MountsType
    <2> QED BY <1>4, <2>3, <2>6 DEF FollowLink, TypeOK, server
  <1>5. CASE SubmitLogin(t, c)
    <2>1. call' \in [Calls -> Call]
      <3>1. CASE call' = [call EXCEPT ![c].live = TRUE]
        BY <3>1 DEF TypeOK, Call
      <3>2. CASE Sends(t, c, "login", 0)
        BY <3>2, <1>0, <1>l, SendsType
      <3> QED BY <1>5, <3>1, <3>2 DEF SubmitLogin
    <2> QED BY <1>5, <2>1 DEF SubmitLogin, TypeOK, Page, server
  <1>6. CASE SubmitChange(t, c)
    <2>1. call' \in [Calls -> Call]
      BY <1>6, <1>0, <1>l, SendsType DEF SubmitChange
    <2> QED BY <1>6, <2>1 DEF SubmitChange, TypeOK, Page, server
  <1> QED BY <1>1, <1>2, <1>3, <1>4, <1>5, <1>6 DEF Acts

\* Every step of the server keeps the types.
LEMMA ServeTypes ==
    ASSUME TypeOK, NEW c \in Calls, Serve(c)
    PROVE  TypeOK'
  <1>1. CASE ServeSignup(c)
    <2>1. CASE Issue(c)
      BY <1>1, <2>1, IssueType DEF ServeSignup
    <2>2. CASE Answer(c, "quiet", FALSE) /\ UNCHANGED <<server, crossed>>
      BY <1>1, <2>2, AnswerType DEF ServeSignup, TypeOK, server
    <2> QED BY <1>1, <2>1, <2>2 DEF ServeSignup
  <1>2. CASE ServeResend(c)
    <2>1. CASE Issue(c)
      BY <1>2, <2>1, IssueType DEF ServeResend
    <2>2. CASE Answer(c, "quiet", FALSE) /\ UNCHANGED <<server, crossed>>
      BY <1>2, <2>2, AnswerType DEF ServeResend, TypeOK, server
    <2>3. CASE Answer(c, "cooling", FALSE) /\ UNCHANGED <<server, crossed>>
      BY <1>2, <2>3, AnswerType DEF ServeResend, TypeOK, server
    <2> QED BY <1>2, <2>1, <2>2, <2>3 DEF ServeResend
  <1>3. CASE ServeVerify(c)
    <2>1. call' \in [Calls -> Call] /\ faults' \in 0..MaxFaults
      BY <1>3, AnswerType DEF ServeVerify
    <2> QED BY <1>3, <2>1 DEF ServeVerify, TypeOK
  <1>4. CASE ServePassword(c)
    <2>1. call' \in [Calls -> Call] /\ faults' \in 0..MaxFaults
      BY <1>4, AnswerType DEF ServePassword
    <2> QED BY <1>4, <2>1 DEF ServePassword, TypeOK, server
  <1>5. CASE Lose(c)
    <2>1. call' \in [Calls -> Call]
      BY <1>5 DEF Lose, TypeOK, Call
    <2> QED BY <1>5, <2>1, Numbers DEF Lose, TypeOK, server
  <1>6. CASE Mail(c)
    BY <1>6, MailType
  <1> QED BY <1>1, <1>2, <1>3, <1>4, <1>5, <1>6 DEF Serve

\* The page that hears an error, if it is still there.
LEMMA RefusesType ==
    ASSUME TypeOK, NEW t \in Tabs, NEW live, Refuses(t, live)
    PROVE  page' \in [Tabs -> Page]
  BY DEF Refuses, TypeOK, Page

\* What an answer writes on a page.
LEMMA PageUpdates ==
    ASSUME TypeOK, NEW t \in Tabs
    PROVE  /\ page \in [Tabs -> Page]
           /\ [page EXCEPT ![t].view = "sent", ![t].busy = FALSE,
                            ![t].seconds = Countdown] \in [Tabs -> Page]
           /\ [page EXCEPT ![t].view = "sent", ![t].busy = FALSE,
                            ![t].failed = TRUE] \in [Tabs -> Page]
           /\ [page EXCEPT ![t].busy = FALSE] \in [Tabs -> Page]
           /\ [page EXCEPT ![t].resending = FALSE, ![t].failed = FALSE,
                            ![t].seconds = Countdown] \in [Tabs -> Page]
           /\ [page EXCEPT ![t].resending = FALSE, ![t].failed = FALSE] \in [Tabs -> Page]
           /\ [page EXCEPT ![t].resending = FALSE, ![t].failed = TRUE] \in [Tabs -> Page]
  <1>1. page \in [Tabs -> Page] /\ page[t] \in Page /\ Countdown \in 0..Countdown
    BY Numbers DEF TypeOK
  <1>2. ASSUME NEW p \in Page
        PROVE  /\ [p EXCEPT !.view = "sent", !.busy = FALSE, !.seconds = Countdown] \in Page
               /\ [p EXCEPT !.view = "sent", !.busy = FALSE, !.failed = TRUE] \in Page
               /\ [p EXCEPT !.busy = FALSE] \in Page
               /\ [p EXCEPT !.resending = FALSE, !.failed = FALSE,
                            !.seconds = Countdown] \in Page
               /\ [p EXCEPT !.resending = FALSE, !.failed = FALSE] \in Page
               /\ [p EXCEPT !.resending = FALSE, !.failed = TRUE] \in Page
    BY <1>1 DEF Page
  <1> QED BY <1>1, <1>2

\* Every answer keeps the types.
LEMMA TakeType ==
    ASSUME TypeOK, Owned, NEW c \in Calls, Take(c)
    PROVE  TypeOK'
  <1> DEFINE t == call[c].tab
  <1>t. t \in Tabs
    BY DEF Owned, Take, TakeSignup, TakeSignupResend, TakeVerifyResend, TakeVerify,
           TakeLogin, TakeChange, Answered
  <1>n. NoCall \in Call /\ Abandoned(t) \in [Calls -> Call]
        /\ (Done(c) => call' \in [Calls -> Call])
    BY CallTypes
  <1>f. /\ Fresh("profile", "form", TRUE) \in Page
        /\ Fresh("login", "form", FALSE) \in Page
    BY FreshPage
  <1>e. /\ StartsCountdown(t) =>
             elapsed' \in [Tabs -> 0..Countdown] /\ crossed' \subseteq Tabs
        /\ NoCountdown(t) =>
             elapsed' \in [Tabs -> 0..Countdown] /\ crossed' \subseteq Tabs
    BY Numbers DEF StartsCountdown, NoCountdown, TypeOK
  <1>1. CASE TakeSignup(c)
    <2>1. page' \in [Tabs -> Page]
      <3>1. CASE Accepted(c) /\ call[c].live
        <4>1. page' = [page EXCEPT ![t].view = "sent", ![t].busy = FALSE,
                                   ![t].seconds = Countdown]
          BY <1>1, <3>1 DEF TakeSignup, Accepted
        <4> QED BY <1>t, <4>1, PageUpdates
      <3>2. CASE ~(Accepted(c) /\ call[c].live)
        <4>1. \/ page' = page
              \/ page' = [page EXCEPT ![t].view = "sent", ![t].busy = FALSE, ![t].failed = TRUE]
              \/ page' = [page EXCEPT ![t].busy = FALSE]
          BY <1>1, <3>2 DEF TakeSignup
        <4>2. CASE page' = page
          BY <4>2 DEF TypeOK
        <4>3. CASE page' = [page EXCEPT ![t].view = "sent", ![t].busy = FALSE,
                                        ![t].failed = TRUE]
          BY <1>t, <4>3, PageUpdates
        <4>4. CASE page' = [page EXCEPT ![t].busy = FALSE]
          BY <1>t, <4>4, PageUpdates
        <4> QED BY <4>1, <4>2, <4>3, <4>4
      <3> QED BY <3>1, <3>2
    <2>2. elapsed' \in [Tabs -> 0..Countdown] /\ crossed' \subseteq Tabs
      BY <1>1, <1>e DEF TakeSignup, TypeOK
    <2> QED BY <1>1, <1>n, <2>1, <2>2 DEF TakeSignup, Answered, TypeOK, server
  <1>2. CASE TakeSignupResend(c)
    <2>1. page' \in [Tabs -> Page]
      <3>1. CASE Accepted(c) /\ call[c].live
        <4>1. page' = [page EXCEPT ![t].resending = FALSE, ![t].failed = FALSE,
                                   ![t].seconds = Countdown]
          BY <1>2, <3>1 DEF TakeSignupResend
        <4> QED BY <1>t, <4>1, PageUpdates
      <3>2. CASE ~(Accepted(c) /\ call[c].live)
        <4>1. \/ page' = page
              \/ page' = [page EXCEPT ![t].resending = FALSE, ![t].failed = TRUE]
          BY <1>2, <3>2 DEF TakeSignupResend
        <4>2. CASE page' = page
          BY <4>2 DEF TypeOK
        <4>3. CASE page' = [page EXCEPT ![t].resending = FALSE, ![t].failed = TRUE]
          BY <1>t, <4>3, PageUpdates
        <4> QED BY <4>1, <4>2, <4>3
      <3> QED BY <3>1, <3>2
    <2>2. elapsed' \in [Tabs -> 0..Countdown] /\ crossed' \subseteq Tabs
      BY <1>2, <1>e DEF TakeSignupResend, TypeOK
    <2> QED BY <1>2, <1>n, <2>1, <2>2 DEF TakeSignupResend, Answered, TypeOK, server
  <1>3. CASE TakeVerifyResend(c)
    <2>1. page' \in [Tabs -> Page]
      <3>1. CASE Accepted(c)
        <4>1. page' = IF call[c].live
                      THEN [page EXCEPT ![t].resending = FALSE, ![t].failed = FALSE] ELSE page
          BY <1>3, <3>1, Zenon DEF TakeVerifyResend
        <4> QED BY <1>t, <4>1, PageUpdates
      <3>2. CASE ~Accepted(c)
        <4>1. page' = IF call[c].live
                      THEN [page EXCEPT ![t].resending = FALSE, ![t].failed = TRUE] ELSE page
          BY <1>3, <3>2, Zenon DEF TakeVerifyResend
        <4> QED BY <1>t, <4>1, PageUpdates
      <3> QED BY <3>1, <3>2
    <2> QED BY <1>3, <1>n, <2>1 DEF TakeVerifyResend, Answered, TypeOK, server
  <1>4. CASE TakeVerify(c)
    <2>1. page' \in [Tabs -> Page]
      BY <1>4, <1>t DEF TakeVerify, TypeOK, Page
    <2> QED BY <1>4, <1>n, <2>1 DEF TakeVerify, Answered, TypeOK, server
  <1>5. CASE TakeLogin(c)
    <2>1. CASE Accepted(c)
      <3>1. Mounts(t, Fresh("profile", "form", TRUE)) /\ call' = [Abandoned(t) EXCEPT ![c] = NoCall]
        BY <1>5, <2>1 DEF TakeLogin
      <3>2. /\ page' \in [Tabs -> Page] /\ elapsed' \in [Tabs -> 0..Countdown]
            /\ crossed' \subseteq Tabs
        BY <3>1, <1>t, <1>f, MountsType
      <3> QED BY <1>5, <1>n, <3>1, <3>2 DEF TakeLogin, Answered, TypeOK, server
    <2>2. CASE ~Accepted(c)
      <3>1. Refuses(t, call[c].live) /\ Done(c)
        BY <1>5, <2>2 DEF TakeLogin
      <3>2. page' \in [Tabs -> Page]
        BY <3>1, <1>t, RefusesType
      <3> QED BY <1>5, <1>n, <3>1, <3>2 DEF TakeLogin, Answered, Refuses, TypeOK, server
    <2> QED BY <2>1, <2>2
  <1>6. CASE TakeChange(c)
    <2>1. CASE Accepted(c)
      <3>1. Mounts(t, Fresh("login", "form", FALSE)) /\ call' = [Abandoned(t) EXCEPT ![c] = NoCall]
        BY <1>6, <2>1 DEF TakeChange
      <3>2. /\ page' \in [Tabs -> Page] /\ elapsed' \in [Tabs -> 0..Countdown]
            /\ crossed' \subseteq Tabs
        BY <3>1, <1>t, <1>f, MountsType
      <3> QED BY <1>6, <1>n, <3>1, <3>2 DEF TakeChange, Answered, TypeOK, server
    <2>2. CASE ~Accepted(c)
      <3>1. Refuses(t, call[c].live) /\ Done(c)
        BY <1>6, <2>2 DEF TakeChange
      <3>2. page' \in [Tabs -> Page]
        BY <3>1, <1>t, RefusesType
      <3> QED BY <1>6, <1>n, <3>1, <3>2 DEF TakeChange, Answered, Refuses, TypeOK, server
    <2> QED BY <2>1, <2>2
  <1> QED BY <1>1, <1>2, <1>3, <1>4, <1>5, <1>6 DEF Take

\* Every step keeps the types.
LEMMA TypeStep ==
    ASSUME TypeOK, Owned, [Next]_vars
    PROVE  TypeOK'
  <1>1. CASE UNCHANGED vars
    BY <1>1 DEF vars, server, TypeOK
  <1>2. ASSUME NEW t \in Tabs, Leave(t) PROVE TypeOK'
    <2>1. PICK at \in {"signup", "login"} :
             Mounts(t, Fresh(Destination(t, at), "form", page[t].open))
      BY <1>2 DEF Leave
    <2>2. Fresh(Destination(t, at), "form", page[t].open) \in Page
      BY <2>1, FreshPage DEF Destination, TypeOK, Page
    <2>3. /\ page' \in [Tabs -> Page] /\ elapsed' \in [Tabs -> 0..Countdown]
          /\ crossed' \subseteq Tabs
      BY <2>1, <2>2, MountsType
    <2>4. call' \in [Calls -> Call]
      BY <1>2, CallTypes DEF Leave
    <2> QED BY <1>2, <2>3, <2>4 DEF Leave, TypeOK, server
  <1>6. ASSUME NEW t \in Tabs, OpenWithoutToken(t) PROVE TypeOK'
    <2>1. PICK ready \in {FALSE, registration = "consumed"} :
             Mounts(t, Fresh("verify", "invalid", ready))
      BY <1>6 DEF OpenWithoutToken
    <2>2. Fresh("verify", "invalid", ready) \in Page
      BY <2>1, FreshPage
    <2>3. /\ page' \in [Tabs -> Page] /\ elapsed' \in [Tabs -> 0..Countdown]
          /\ crossed' \subseteq Tabs
      BY <2>1, <2>2, MountsType
    <2> QED BY <1>6, <2>3 DEF OpenWithoutToken, TypeOK, server
  <1>3. ASSUME NEW t \in Tabs, CountDown(t) PROVE TypeOK'
    <2>1. page' \in [Tabs -> Page]
      BY <1>3, Numbers DEF CountDown, TypeOK, Page
    <2> QED BY <1>3, <2>1 DEF CountDown, TypeOK, server
  <1>4. CASE Expire
    BY <1>4 DEF Expire, TypeOK
  <1>5. CASE Tick
    <2>1. sentAgo' \in 0..Cooldown /\ elapsed' \in [Tabs -> 0..Countdown]
      BY <1>5, Numbers DEF Tick, TypeOK
    <2> QED BY <1>5, <2>1 DEF Tick, TypeOK
  <1> QED BY <1>1, <1>2, <1>3, <1>4, <1>5, <1>6, ActsType, ServeTypes, TakeType DEF Next
----------------------------------------------------------------------------
(***************************************************************************)
(* What the steps leave alone                                              *)
(***************************************************************************)
\* A step of the server answers a call and changes no page.  It is about to
\* send a mail, which every tab is then behind, or clears the mark, or does neither.
LEMMA ServeFrame ==
    ASSUME TypeOK, NEW c \in Calls, Serve(c)
    PROVE  /\ page' = page /\ elapsed' = elapsed
           /\ \A d \in Calls :
                 /\ call'[d].request = call[d].request /\ call'[d].tab = call[d].tab
                 /\ call'[d].live = call[d].live
                 /\ d # c => call'[d] = call[d]
           /\ \/ sentAgo' = 0 /\ crossed' = Tabs /\ call'[c].answer # "unsent"
              \/ sentAgo' = Cooldown /\ crossed' = {}
              \/ sentAgo' = sentAgo /\ crossed' = crossed /\ call'[c].answer # "unsent"
  <1>1. ASSUME NEW answer, NEW failed, Answer(c, answer, failed)
        PROVE  \E got \in {answer, "lost"} : call' = [call EXCEPT ![c].answer = got]
    BY <1>1, Zenon DEF Answer
  <1>2. page' = page /\ elapsed' = elapsed
    BY DEF Serve, Mail, ServeSignup, ServeResend, ServeVerify, ServePassword, Lose
  <1>3. ASSUME NEW got, call' = [call EXCEPT ![c].answer = got]
        PROVE  /\ \A d \in Calls :
                     /\ call'[d].request = call[d].request /\ call'[d].tab = call[d].tab
                     /\ call'[d].live = call[d].live
                     /\ d # c => call'[d] = call[d]
               /\ call'[c].answer = got
    BY <1>3 DEF TypeOK, Call
  <1>4. CASE Issue(c)
    BY <1>2, <1>4 DEF Issue, TypeOK, Call
  <1>7. CASE Mail(c)
    <2>1. CASE UNCHANGED <<sentAgo, crossed>> /\ Answer(c, "ok", FALSE)
      <3>1. PICK got \in {"ok", "lost"} : call' = [call EXCEPT ![c].answer = got]
        BY <2>1, <1>1
      <3> QED BY <1>2, <1>3, <2>1, <3>1
    <2>2. CASE sentAgo' = Cooldown /\ crossed' = {} /\ Answer(c, "unsent", TRUE)
      <3>1. PICK got \in {"unsent", "lost"} : call' = [call EXCEPT ![c].answer = got]
        BY <2>2, <1>1
      <3> QED BY <1>2, <1>3, <2>2, <3>1
    <2> QED BY <1>7, <2>1, <2>2, MailCases
  <1>5. CASE sentAgo' = sentAgo /\ crossed' = crossed
             /\ (\/ Answer(c, "quiet", FALSE) \/ Answer(c, "cooling", FALSE)
                 \/ Answer(c, "ok", FALSE) \/ Answer(c, "refused", FALSE)
                 \/ call' = [call EXCEPT ![c].answer = "lost"])
    <2>1. PICK got \in {"quiet", "cooling", "ok", "refused", "lost"} :
             call' = [call EXCEPT ![c].answer = got]
      BY <1>5, <1>1
    <2> QED BY <1>2, <1>3, <1>5, <2>1
  <1>6. Issue(c) \/ Mail(c) \/ ( /\ sentAgo' = sentAgo /\ crossed' = crossed
             /\ (\/ Answer(c, "quiet", FALSE) \/ Answer(c, "cooling", FALSE)
                 \/ Answer(c, "ok", FALSE) \/ Answer(c, "refused", FALSE)
                 \/ call' = [call EXCEPT ![c].answer = "lost"]))
    BY Zenon DEF Serve, ServeSignup, ServeResend, ServeVerify, ServePassword, Lose, server
  <1> QED BY <1>4, <1>5, <1>6, <1>7

\* An answer that is taken ends its call; a page that mounts anew abandons the
\* other calls of its tab, and none comes to life.
LEMMA TakeFrame ==
    ASSUME TypeOK, NEW c \in Calls, Take(c)
    PROVE  /\ sentAgo' = sentAgo
           /\ call[c].request # "none"
           /\ call'[c] = NoCall
           /\ \A d \in Calls \ {c} :
                 /\ call'[d].request = call[d].request /\ call'[d].tab = call[d].tab
                 /\ call'[d].answer = call[d].answer
                 /\ call'[d].live => call[d].live
           /\ Done(c) \/ \A d \in Calls \ {c} : call[d].tab = call[c].tab => ~call'[d].live
  <1>1. sentAgo' = sentAgo /\ call[c].request # "none"
    BY DEF Take, TakeSignup, TakeSignupResend, TakeVerifyResend, TakeVerify, TakeLogin,
           TakeChange, Answered, server
  <1>2. Done(c) \/ call' = [Abandoned(call[c].tab) EXCEPT ![c] = NoCall]
    BY Zenon DEF Take, TakeSignup, TakeSignupResend, TakeVerifyResend, TakeVerify, TakeLogin,
           TakeChange
  <1>3. CASE Done(c)
    BY <1>1, <1>3 DEF Done, TypeOK
  <1>4. CASE call' = [Abandoned(call[c].tab) EXCEPT ![c] = NoCall]
    BY <1>1, <1>4 DEF Abandoned, TypeOK, Call
  <1> QED BY <1>2, <1>3, <1>4
----------------------------------------------------------------------------
(***************************************************************************)
(* The invariant, step by step                                             *)
(***************************************************************************)
\* The invariant but for the types.
Rest == Owned /\ Clock /\ Counting /\ Awaited /\ Single /\ Unsent

\* A step of the server: a mail leaves every tab behind, and nothing that a
\* page waits for changes.
LEMMA ServeStep ==
    ASSUME AccountInv, TypeOK', NEW c \in Calls, Serve(c)
    PROVE  Rest'
  <1>0. TypeOK /\ Owned /\ Clock /\ Counting /\ Awaited /\ Single /\ Unsent
    BY DEF AccountInv
  <1> DEFINE Frame(d) == /\ call'[d].request = call[d].request /\ call'[d].tab = call[d].tab
                         /\ call'[d].live = call[d].live
                         /\ d # c => call'[d] = call[d]
  <1>1. /\ page' = page /\ elapsed' = elapsed
        /\ \A d \in Calls : Frame(d)
        /\ \/ sentAgo' = 0 /\ crossed' = Tabs /\ call'[c].answer # "unsent"
           \/ sentAgo' = Cooldown /\ crossed' = {}
           \/ sentAgo' = sentAgo /\ crossed' = crossed /\ call'[c].answer # "unsent"
    BY <1>0, ServeFrame
  <1>2. Owned'
    BY <1>0, <1>1 DEF Owned
  <1>3. Clock'
    BY <1>0, <1>1 DEF Clock
  <1>4. Counting'
    BY <1>0, <1>1 DEF Counting
  <1>5. Awaited'
    BY <1>0, <1>1 DEF Awaited
  <1>6. Single'
    BY <1>0, <1>1 DEF Single
  <1>7. Unsent'
    <2>1. SUFFICES ASSUME NEW d \in Calls, call'[d].live, call'[d].request = "signup",
                          call'[d].answer = "unsent"
                   PROVE  sentAgo' = Cooldown \/ call'[d].tab \in crossed'
      BY DEF Unsent
    <2>2. call[d].tab \in Tabs /\ call[d].live /\ call[d].request = "signup"
      BY <1>0, <1>1, <2>1 DEF Awaited
    <2>3. CASE d = c
      BY <1>1, <2>1, <2>3
    <2>4. CASE d # c
      BY <1>0, <1>1, <2>1, <2>2, <2>4 DEF Unsent
    <2> QED BY <2>3, <2>4
  <1> QED BY <1>2, <1>3, <1>4, <1>5, <1>6, <1>7 DEF Rest

\* A page that mounts in tab t and sends nothing that it waits for keeps the
\* invariant, when what tab t asked before is answered to nobody.
LEMMA MountStep ==
    ASSUME AccountInv, NEW t \in Tabs, NEW fresh \in Page, fresh.seconds = 0,
           Mounts(t, fresh), UNCHANGED sentAgo,
           \A d \in Calls :
              call'[d].live =>
                 \/ /\ call'[d].tab # t /\ call[d].live
                    /\ call'[d].tab = call[d].tab /\ call'[d].request = call[d].request
                    /\ call'[d].answer = call[d].answer
                 \/ /\ call'[d].tab = t /\ call'[d].request = "verify"
                    /\ fresh.at = "verify"
    PROVE  Clock' /\ Counting' /\ Awaited' /\ Single' /\ Unsent'
  <1>0. TypeOK /\ Owned /\ Clock /\ Counting /\ Awaited /\ Single /\ Unsent
    BY DEF AccountInv
  <1>1. /\ page'[t] = fresh /\ elapsed'[t] = Countdown /\ crossed' = crossed \cup {t}
        /\ \A u \in Tabs \ {t} : page'[u] = page[u] /\ elapsed'[u] = elapsed[u]
    BY <1>0 DEF Mounts, TypeOK
  <1>2. Clock'
    BY <1>0, <1>1 DEF Clock
  <1>3. Counting'
    BY <1>0, <1>1, Numbers DEF Counting
  <1>4. Awaited'
    <2>1. Origin["verify"] = "verify" /\ "verify" \in DOMAIN Origin
      BY DEF Origin
    <2> QED BY <1>0, <1>1, <2>1 DEF Awaited
  <1>5. Single'
    <2>1. SUFFICES ASSUME NEW d \in Calls, NEW e \in Calls, call'[d].live, call'[e].live,
                          call'[d].tab = call'[e].tab,
                          call'[d].request \in FromSignup, call'[e].request \in FromSignup
                   PROVE  d = e
      BY Zenon DEF Single
    <2>2. "verify" \notin FromSignup
      BY DEF FromSignup
    <2>3. /\ call[d].live /\ call[d].tab = call'[d].tab /\ call[d].request = call'[d].request
          /\ call[e].live /\ call[e].tab = call'[e].tab /\ call[e].request = call'[e].request
      BY <2>1, <2>2
    <2> QED BY <1>0, <2>1, <2>3 DEF Single
  <1>6. Unsent'
    BY <1>0, <1>1 DEF Unsent
  <1> QED BY <1>2, <1>3, <1>4, <1>5, <1>6

\* A call that is sent, or joined, by a page that changes its flags only, and
\* whose place among the page's requests is free.
LEMMA SendStep ==
    ASSUME AccountInv, NEW t \in Tabs, NEW c \in Calls, NEW flags \in Page,
           page' = [page EXCEPT ![t] = flags],
           flags.at = page[t].at, flags.view = page[t].view, flags.seconds = page[t].seconds,
           page[t].busy => flags.busy, page[t].resending => flags.resending,
           UNCHANGED <<sentAgo, elapsed, crossed>>,
           \A d \in Calls \ {c} : call'[d] = call[d],
           call'[c].tab = t, call'[c].live, call'[c].request \in DOMAIN Origin,
           page[t].at = Origin[call'[c].request],
           call'[c].request = "signup" =>
              page[t].view = "form" /\ ~page[t].busy /\ flags.busy /\ call'[c].answer = "none",
           call'[c].request = "resend" =>
              /\ page[t].view = "sent" /\ ~page[t].resending /\ flags.resending
              /\ flags.seconds = 0
    PROVE  Rest'
  <1>0. TypeOK /\ Owned /\ Clock /\ Counting /\ Awaited /\ Single /\ Unsent
    BY DEF AccountInv
  <1>1. page'[t] = flags /\ \A u \in Tabs \ {t} : page'[u] = page[u]
    BY <1>0 DEF TypeOK
  <1>2. Owned'
    BY <1>0 DEF Owned
  <1>3. Clock'
    BY <1>0 DEF Clock
  <1>4. Counting'
    BY <1>0, <1>1 DEF Counting
  <1>5. Awaited'
    BY <1>0, <1>1 DEF Awaited
  <1>6. Single'
    <2>1. ASSUME NEW d \in Calls \ {c}, call[d].live, call[d].tab = t,
                 call[d].request \in FromSignup, call'[c].request \in FromSignup
          PROVE  FALSE
      BY <1>0, <2>1 DEF Awaited, FromSignup
    <2>2. SUFFICES ASSUME NEW d \in Calls, NEW e \in Calls, call'[d].live, call'[e].live,
                          call'[d].tab = call'[e].tab,
                          call'[d].request \in FromSignup, call'[e].request \in FromSignup
                   PROVE  d = e
      BY Zenon DEF Single
    <2>3. CASE d # c /\ e # c
      BY <1>0, <2>2, <2>3 DEF Single
    <2>4. CASE d = c /\ e # c
      BY <2>1, <2>2, <2>4
    <2>5. CASE d # c /\ e = c
      BY <2>1, <2>2, <2>5
    <2> QED BY <2>3, <2>4, <2>5
  <1>7. Unsent'
    BY <1>0 DEF Unsent
  <1> QED BY <1>2, <1>3, <1>4, <1>5, <1>6, <1>7 DEF Rest

\* What the person does.
LEMMA ActsStep ==
    ASSUME AccountInv, NEW t \in Tabs, NEW c \in Calls, Acts(t, c)
    PROVE  Rest'
  <1>0. TypeOK /\ Owned /\ Clock /\ Counting /\ Awaited /\ Single /\ Unsent
    BY DEF AccountInv
  <1>p. page[t] \in Page
    BY <1>0 DEF TypeOK
  <1>1. CASE SubmitSignup(t, c)
    <2> DEFINE flags == [page[t] EXCEPT !.busy = TRUE, !.failed = FALSE]
    <2>1. flags \in Page /\ flags.at = page[t].at /\ flags.view = page[t].view
          /\ flags.seconds = page[t].seconds /\ flags.resending = page[t].resending
          /\ flags.busy
      BY <1>p DEF Page
    <2>2. page' = [page EXCEPT ![t] = flags]
      BY <1>1, <1>0 DEF SubmitSignup, TypeOK
    <2>3. call' = [call EXCEPT ![c] = [request |-> "signup", tab |-> t, link |-> 0,
                                       live |-> TRUE, answer |-> "none"]]
          /\ UNCHANGED <<sentAgo, elapsed, crossed>>
      BY <1>1 DEF SubmitSignup, Sends, server
    <2>6. /\ call'[c].tab = t /\ call'[c].live /\ call'[c].request = "signup"
          /\ call'[c].answer = "none" /\ \A d \in Calls \ {c} : call'[d] = call[d]
      BY <1>0, <2>3 DEF TypeOK
    <2>4. page[t].at = "signup" /\ page[t].view = "form" /\ ~page[t].busy
      BY <1>1 DEF SubmitSignup
    <2>5. "signup" \in DOMAIN Origin /\ Origin["signup"] = "signup"
      BY DEF Origin
    <2> HIDE DEF flags
    <2> QED BY <2>1, <2>2, <2>3, <2>4, <2>5, <2>6, SendStep
  <1>2. CASE ResendFromSignup(t, c)
    <2> DEFINE flags == [page[t] EXCEPT !.resending = TRUE]
    <2>1. flags \in Page /\ flags.at = page[t].at /\ flags.view = page[t].view
          /\ flags.seconds = page[t].seconds /\ flags.busy = page[t].busy
          /\ flags.resending
      BY <1>p DEF Page
    <2>2. page' = [page EXCEPT ![t] = flags]
      BY <1>2, <1>0 DEF ResendFromSignup, TypeOK
    <2>3. call' = [call EXCEPT ![c] = [request |-> "resend", tab |-> t, link |-> 0,
                                       live |-> TRUE, answer |-> "none"]]
          /\ UNCHANGED <<sentAgo, elapsed, crossed>>
      BY <1>2 DEF ResendFromSignup, Sends, server
    <2>6. /\ call'[c].tab = t /\ call'[c].live /\ call'[c].request = "resend"
          /\ call'[c].answer = "none" /\ \A d \in Calls \ {c} : call'[d] = call[d]
      BY <1>0, <2>3 DEF TypeOK
    <2>4. page[t].at = "signup" /\ page[t].view = "sent" /\ ~page[t].resending
          /\ page[t].seconds = 0
      BY <1>2 DEF ResendFromSignup, MayResend
    <2>5. "resend" \in DOMAIN Origin /\ Origin["resend"] = "signup"
      BY DEF Origin
    <2> HIDE DEF flags
    <2> QED BY <2>1, <2>2, <2>3, <2>4, <2>5, <2>6, SendStep
  <1>3. CASE ResendFromVerify(t, c)
    <2> DEFINE flags == [page[t] EXCEPT !.resending = TRUE, !.failed = FALSE]
    <2>1. flags \in Page /\ flags.at = page[t].at /\ flags.view = page[t].view
          /\ flags.seconds = page[t].seconds /\ flags.busy = page[t].busy
          /\ flags.resending
      BY <1>p DEF Page
    <2>2. page' = [page EXCEPT ![t] = flags]
      BY <1>3, <1>0 DEF ResendFromVerify, TypeOK
    <2>3. call' = [call EXCEPT ![c] = [request |-> "newlink", tab |-> t, link |-> 0,
                                       live |-> TRUE, answer |-> "none"]]
          /\ UNCHANGED <<sentAgo, elapsed, crossed>>
      BY <1>3 DEF ResendFromVerify, Sends, server
    <2>6. /\ call'[c].tab = t /\ call'[c].live /\ call'[c].request = "newlink"
          /\ call'[c].answer = "none" /\ \A d \in Calls \ {c} : call'[d] = call[d]
      BY <1>0, <2>3 DEF TypeOK
    <2>4. page[t].at = "verify"
      BY <1>3 DEF ResendFromVerify
    <2>5. "newlink" \in DOMAIN Origin /\ Origin["newlink"] = "verify"
      BY DEF Origin
    <2> HIDE DEF flags
    <2> QED BY <2>1, <2>2, <2>3, <2>4, <2>5, <2>6, SendStep
  <1>4. CASE FollowLink(t, c)
    <2>1. PICK l \in mailed :
             call' = [call EXCEPT ![c] = [request |-> "verify", tab |-> t, link |-> l,
                                          live |-> TRUE, answer |-> "none"]]
      BY <1>4 DEF FollowLink, Sends
    <2>a. /\ call'[c].tab = t /\ call'[c].request = "verify"
          /\ \A d \in Calls \ {c} : call'[d] = call[d]
      BY <1>0, <2>1 DEF TypeOK
    <2>2. PICK ready \in {FALSE, registration = "consumed"} :
             Mounts(t, Fresh("verify", "loading", ready))
      BY <1>4 DEF FollowLink
    <2>3. /\ Fresh("verify", "loading", ready) \in Page
          /\ Fresh("verify", "loading", ready).seconds = 0
          /\ Fresh("verify", "loading", ready).at = "verify"
      BY <2>2, FreshPage DEF Fresh
    <2>4. UNCHANGED sentAgo /\ \A d \in Calls : call[d].tab # t
      BY <1>4 DEF FollowLink, server
    <2>5. \A d \in Calls : call'[d].live =>
                 \/ /\ call'[d].tab # t /\ call[d].live
                    /\ call'[d].tab = call[d].tab /\ call'[d].request = call[d].request
                    /\ call'[d].answer = call[d].answer
                 \/ call'[d].tab = t /\ call'[d].request = "verify"
      BY <2>a, <2>4
    <2>6. Clock' /\ Counting' /\ Awaited' /\ Single' /\ Unsent'
      BY <2>2, <2>3, <2>4, <2>5, MountStep
    <2>7. Owned'
      BY <1>0, <2>a DEF Owned
    <2> QED BY <2>6, <2>7 DEF Rest
  <1>5. CASE SubmitLogin(t, c)
    <2> DEFINE flags == [page[t] EXCEPT !.busy = TRUE, !.failed = FALSE]
    <2>1. flags \in Page /\ flags.at = page[t].at /\ flags.view = page[t].view
          /\ flags.seconds = page[t].seconds /\ flags.resending = page[t].resending
          /\ flags.busy
      BY <1>p DEF Page
    <2>2. page' = [page EXCEPT ![t] = flags]
      BY <1>5, <1>0 DEF SubmitLogin, TypeOK
    <2>3. /\ call'[c].tab = t /\ call'[c].live /\ call'[c].request = "login"
          /\ \A d \in Calls \ {c} : call'[d] = call[d]
      <3>1. CASE call' = [call EXCEPT ![c] = [request |-> "login", tab |-> t, link |-> 0,
                                              live |-> TRUE, answer |-> "none"]]
        BY <1>0, <3>1 DEF TypeOK
      <3>2. CASE /\ call[c].tab = t /\ call[c].request = "login"
                 /\ call' = [call EXCEPT ![c].live = TRUE]
        BY <1>0, <3>2 DEF TypeOK, Call
      <3> QED BY <1>5, <3>1, <3>2 DEF SubmitLogin, Sends
    <2>4. page[t].at = "login" /\ UNCHANGED <<sentAgo, elapsed, crossed>>
      BY <1>5 DEF SubmitLogin, server
    <2>5. "login" \in DOMAIN Origin /\ Origin["login"] = "login"
      BY DEF Origin
    <2> HIDE DEF flags
    <2> QED BY <2>1, <2>2, <2>3, <2>4, <2>5, SendStep
  <1>6. CASE SubmitChange(t, c)
    <2> DEFINE flags == [page[t] EXCEPT !.busy = TRUE, !.failed = FALSE]
    <2>1. flags \in Page /\ flags.at = page[t].at /\ flags.view = page[t].view
          /\ flags.seconds = page[t].seconds /\ flags.resending = page[t].resending
          /\ flags.busy
      BY <1>p DEF Page
    <2>2. page' = [page EXCEPT ![t] = flags]
      BY <1>6, <1>0 DEF SubmitChange, TypeOK
    <2>3. call' = [call EXCEPT ![c] = [request |-> "change", tab |-> t, link |-> 0,
                                       live |-> TRUE, answer |-> "none"]]
          /\ UNCHANGED <<sentAgo, elapsed, crossed>>
      BY <1>6 DEF SubmitChange, Sends, server
    <2>6. /\ call'[c].tab = t /\ call'[c].live /\ call'[c].request = "change"
          /\ call'[c].answer = "none" /\ \A d \in Calls \ {c} : call'[d] = call[d]
      BY <1>0, <2>3 DEF TypeOK
    <2>4. page[t].at = "profile"
      BY <1>6 DEF SubmitChange
    <2>5. "change" \in DOMAIN Origin /\ Origin["change"] = "profile"
      BY DEF Origin
    <2> HIDE DEF flags
    <2> QED BY <2>1, <2>2, <2>3, <2>4, <2>5, <2>6, SendStep
  <1> QED BY <1>1, <1>2, <1>3, <1>4, <1>5, <1>6 DEF Acts

\* An answer that finds its page left.
LEMMA UnheardStep ==
    ASSUME AccountInv, NEW c \in Calls, Done(c), UNCHANGED <<page, elapsed, sentAgo, crossed>>
    PROVE  Rest'
  <1>0. TypeOK /\ Owned /\ Clock /\ Counting /\ Awaited /\ Single /\ Unsent
    BY DEF AccountInv
  <1>1. call'[c] = NoCall /\ \A d \in Calls \ {c} : call'[d] = call[d]
    BY <1>0 DEF Done, TypeOK
  <1>2. Owned' /\ Unsent'
    BY <1>0, <1>1 DEF Owned, Unsent, NoCall
  <1>3. Clock' /\ Counting'
    BY <1>0 DEF Clock, Counting
  <1>4. Awaited'
    BY <1>0, <1>1 DEF Awaited, NoCall
  <1>5. Single'
    BY <1>0, <1>1 DEF Single, NoCall
  <1> QED BY <1>2, <1>3, <1>4, <1>5 DEF Rest

\* An answer that its page takes: no other request of the sign-up page waits
\* in this tab, and the page's clock is still behind the server's.
LEMMA HeardStep ==
    ASSUME AccountInv, NEW c \in Calls, NEW t \in Tabs, NEW new \in Page,
           Done(c), sentAgo' = sentAgo,
           page' = [page EXCEPT ![t] = new], new.at = page[t].at,
           \A u \in Tabs \ {t} : elapsed'[u] = elapsed[u] /\ (u \in crossed' <=> u \in crossed),
           t \notin crossed' => sentAgo = Cooldown \/ elapsed'[t] <= sentAgo,
           new.seconds + elapsed'[t] >= Countdown,
           \A d \in Calls \ {c} :
              call[d].live /\ call[d].tab = t => call[d].request \notin FromSignup
    PROVE  Rest'
  <1>0. TypeOK /\ Owned /\ Clock /\ Counting /\ Awaited /\ Single /\ Unsent
    BY DEF AccountInv
  <1>1. call'[c] = NoCall /\ \A d \in Calls \ {c} : call'[d] = call[d]
    BY <1>0 DEF Done, TypeOK
  <1>2. page'[t] = new /\ \A u \in Tabs \ {t} : page'[u] = page[u]
    BY <1>0 DEF TypeOK
  <1>3. Owned'
    BY <1>0, <1>1 DEF Owned, NoCall
  <1>4. Clock'
    BY <1>0 DEF Clock
  <1>5. Counting'
    BY <1>0, <1>2 DEF Counting
  <1>6. Awaited'
    <2>1. SUFFICES ASSUME NEW d \in Calls \ {c}, call[d].live
                   PROVE  /\ call[d].tab \in Tabs /\ call[d].request \in DOMAIN Origin
                          /\ page'[call[d].tab].at = Origin[call[d].request]
                          /\ call[d].request = "signup" =>
                                page'[call[d].tab].view = "form" /\ page'[call[d].tab].busy
                          /\ call[d].request = "resend" =>
                                /\ page'[call[d].tab].view = "sent" /\ page'[call[d].tab].resending
                                /\ page'[call[d].tab].seconds = 0
      BY <1>1 DEF Awaited, NoCall
    <2>2. CASE call[d].tab = t
      <3>1. call[d].request # "signup" /\ call[d].request # "resend"
        BY <2>1, <2>2 DEF FromSignup
      <3> QED BY <1>0, <1>2, <2>1, <2>2, <3>1 DEF Awaited
    <2>3. CASE call[d].tab # t
      BY <1>0, <1>2, <2>1, <2>3 DEF Awaited
    <2> QED BY <2>2, <2>3
  <1>7. Single'
    BY <1>0, <1>1 DEF Single, NoCall
  <1>8. Unsent'
    <2>1. SUFFICES ASSUME NEW d \in Calls \ {c}, call[d].live, call[d].request = "signup",
                          call[d].answer = "unsent"
                   PROVE  sentAgo = Cooldown \/ call[d].tab \in crossed'
      BY <1>1 DEF Unsent, NoCall
    <2>2. call[d].tab \in Tabs /\ call[d].tab # t
      BY <1>0, <2>1 DEF Awaited, FromSignup
    <2> QED BY <1>0, <2>1, <2>2 DEF Unsent
  <1> QED BY <1>3, <1>4, <1>5, <1>6, <1>7, <1>8 DEF Rest

\* What the answers do.
LEMMA TakeStep ==
    ASSUME AccountInv, TypeOK', NEW c \in Calls, Take(c)
    PROVE  Rest'
  <1>0. TypeOK /\ Owned /\ Clock /\ Counting /\ Awaited /\ Single /\ Unsent
    BY DEF AccountInv
  <1> DEFINE t == call[c].tab
  <1>f. sentAgo' = sentAgo /\ call[c].request # "none"
    BY <1>0, TakeFrame
  <1>t. t \in Tabs /\ page[t] \in Page /\ page'[t] \in Page /\ elapsed[t] \in 0..Countdown
        /\ sentAgo \in 0..Cooldown
    BY <1>0, <1>f DEF Owned, TypeOK
  <1>d. ASSUME call[c].live, call[c].request \in FromSignup
        PROVE  \A d \in Calls \ {c} :
                  call[d].live /\ call[d].tab = t => call[d].request \notin FromSignup
    BY <1>0, <1>d DEF Single
  <1>e. ASSUME call[c].live, call[c].request \in DOMAIN Origin \ FromSignup
        PROVE  \A d \in Calls \ {c} :
                  call[d].live /\ call[d].tab = t => call[d].request \notin FromSignup
    <2>1. Origin[call[c].request] # "signup"
      BY <1>e DEF Origin, FromSignup
    <2>2. \A r \in FromSignup : Origin[r] = "signup"
      BY DEF Origin, FromSignup
    <2> QED BY <1>0, <1>e, <2>1, <2>2 DEF Awaited
  <1>1. CASE ~call[c].live /\ Done(c) /\ UNCHANGED <<page, elapsed, crossed>>
    BY <1>1, <1>f, UnheardStep
  <1>2. CASE TakeSignup(c) /\ call[c].live
    <2>1. call[c].request \in FromSignup /\ Done(c) /\ call[c].request = "signup"
      BY <1>2 DEF TakeSignup, Answered, FromSignup
    <2>2. CASE Accepted(c)
      <3>1. /\ page' = [page EXCEPT ![t] = [page[t] EXCEPT !.view = "sent", !.busy = FALSE,
                                                           !.seconds = Countdown]]
            /\ StartsCountdown(t)
        BY <1>2, <2>2, <1>0, <1>t DEF TakeSignup, Accepted, TypeOK
      <3>2. /\ page'[t].at = page[t].at /\ page'[t].seconds = Countdown
            /\ page' = [page EXCEPT ![t] = page'[t]]
        BY <1>0, <1>t, <3>1 DEF TypeOK, Page
      <3>3. /\ elapsed'[t] = 0 /\ crossed' = crossed \ {t}
            /\ \A u \in Tabs \ {t} : elapsed'[u] = elapsed[u]
        BY <1>0, <1>t, <3>1 DEF StartsCountdown, TypeOK
      <3>4. t \notin crossed' => elapsed'[t] <= sentAgo
        BY <1>t, <3>3, Numbers
      <3>5. page'[t].seconds + elapsed'[t] >= Countdown
        BY <3>2, <3>3, Numbers
      <3> HIDE DEF t
      <3> QED BY <1>2, <1>d, <1>f, <1>t, <2>1, <3>2, <3>3, <3>4, <3>5, HeardStep DEF t
    <2>3. CASE call[c].answer = "unsent"
      <3>1. /\ page' = [page EXCEPT ![t] = [page[t] EXCEPT !.view = "sent", !.busy = FALSE,
                                                           !.failed = TRUE]]
            /\ NoCountdown(t)
        BY <1>2, <2>3, <1>0, <1>t DEF TakeSignup, Accepted, TypeOK
      <3>2. /\ page'[t].at = page[t].at /\ page'[t].seconds = page[t].seconds
            /\ page' = [page EXCEPT ![t] = page'[t]]
        BY <1>0, <1>t, <3>1 DEF TypeOK, Page
      <3>3. /\ elapsed'[t] = Countdown /\ crossed' = crossed
            /\ \A u \in Tabs \ {t} : elapsed'[u] = elapsed[u]
        BY <1>0, <1>t, <3>1 DEF NoCountdown, TypeOK
      <3>4. t \notin crossed' => sentAgo = Cooldown
        BY <1>0, <1>2, <2>1, <2>3, <3>3 DEF Unsent
      <3>5. page'[t].seconds + elapsed'[t] >= Countdown
        BY <1>t, <3>2, <3>3, Numbers DEF Page
      <3> HIDE DEF t
      <3> QED BY <1>2, <1>d, <1>f, <1>t, <2>1, <3>2, <3>3, <3>4, <3>5, HeardStep DEF t
    <2>4. CASE ~Accepted(c) /\ call[c].answer # "unsent"
      <3>1. /\ page' = [page EXCEPT ![t] = [page[t] EXCEPT !.busy = FALSE]]
            /\ UNCHANGED <<elapsed, crossed>>
        BY <1>2, <2>4, <1>0, <1>t DEF TakeSignup, TypeOK
      <3>2. /\ page'[t].at = page[t].at /\ page'[t].seconds = page[t].seconds
            /\ page' = [page EXCEPT ![t] = page'[t]]
        BY <1>0, <1>t, <3>1 DEF TypeOK, Page
      <3>4. t \notin crossed' => sentAgo = Cooldown \/ elapsed'[t] <= sentAgo
        BY <1>0, <1>t, <3>1 DEF Clock
      <3>5. page'[t].seconds + elapsed'[t] >= Countdown
        BY <1>0, <1>t, <3>1, <3>2 DEF Counting
      <3> HIDE DEF t
      <3> QED BY <1>2, <1>d, <1>f, <1>t, <2>1, <3>1, <3>2, <3>4, <3>5, HeardStep DEF t
    <2> QED BY <2>2, <2>3, <2>4
  <1>3. CASE TakeSignupResend(c) /\ call[c].live
    <2>1. call[c].request \in FromSignup /\ Done(c)
      BY <1>3 DEF TakeSignupResend, Answered, FromSignup
    <2>2. CASE Accepted(c)
      <3>1. /\ page' = [page EXCEPT ![t] = [page[t] EXCEPT !.resending = FALSE, !.failed = FALSE,
                                                           !.seconds = Countdown]]
            /\ StartsCountdown(t)
        BY <1>3, <2>2, <1>0, <1>t DEF TakeSignupResend, TypeOK
      <3>2. /\ page'[t].at = page[t].at /\ page'[t].seconds = Countdown
            /\ page' = [page EXCEPT ![t] = page'[t]]
        BY <1>0, <1>t, <3>1 DEF TypeOK, Page
      <3>3. /\ elapsed'[t] = 0 /\ crossed' = crossed \ {t}
            /\ \A u \in Tabs \ {t} : elapsed'[u] = elapsed[u]
        BY <1>0, <1>t, <3>1 DEF StartsCountdown, TypeOK
      <3>4. t \notin crossed' => elapsed'[t] <= sentAgo
        BY <1>t, <3>3, Numbers
      <3>5. page'[t].seconds + elapsed'[t] >= Countdown
        BY <3>2, <3>3, Numbers
      <3> HIDE DEF t
      <3> QED BY <1>3, <1>d, <1>f, <1>t, <2>1, <3>2, <3>3, <3>4, <3>5, HeardStep DEF t
    <2>3. CASE ~Accepted(c)
      <3>1. /\ page' = [page EXCEPT ![t] = [page[t] EXCEPT !.resending = FALSE, !.failed = TRUE]]
            /\ UNCHANGED <<elapsed, crossed>>
        BY <1>3, <2>3, <1>0, <1>t DEF TakeSignupResend, TypeOK
      <3>2. /\ page'[t].at = page[t].at /\ page'[t].seconds = page[t].seconds
            /\ page' = [page EXCEPT ![t] = page'[t]]
        BY <1>0, <1>t, <3>1 DEF TypeOK, Page
      <3>3. \A u \in Tabs \ {t} : elapsed'[u] = elapsed[u] /\ (u \in crossed' <=> u \in crossed)
        BY <3>1
      <3>4. t \notin crossed' => sentAgo = Cooldown \/ elapsed'[t] <= sentAgo
        BY <1>0, <1>t, <3>1 DEF Clock
      <3>5. page'[t].seconds + elapsed'[t] >= Countdown
        BY <1>0, <1>t, <3>1, <3>2 DEF Counting
      <3> HIDE DEF t
      <3> QED BY <1>3, <1>d, <1>f, <1>t, <2>1, <3>2, <3>3, <3>4, <3>5, HeardStep DEF t
    <2> QED BY <2>2, <2>3
  <1>4. CASE /\ call[c].live /\ call[c].request \in DOMAIN Origin \ FromSignup /\ Done(c)
             /\ UNCHANGED <<elapsed, crossed>>
             /\ page' = [page EXCEPT ![t] = page'[t]]
             /\ page'[t].at = page[t].at /\ page'[t].seconds = page[t].seconds
    <2>1. t \notin crossed' => sentAgo = Cooldown \/ elapsed'[t] <= sentAgo
      BY <1>0, <1>t, <1>4 DEF Clock
    <2>2. page'[t].seconds + elapsed'[t] >= Countdown
      BY <1>0, <1>t, <1>4 DEF Counting
    <2> HIDE DEF t
    <2> QED BY <1>4, <1>e, <1>f, <1>t, <2>1, <2>2, HeardStep DEF t
  <1>5. CASE TakeVerifyResend(c) /\ call[c].live
    <2>1. /\ call[c].request = "newlink" /\ Done(c) /\ UNCHANGED <<elapsed, crossed>>
          /\ page' = [page EXCEPT ![t].resending = FALSE, ![t].failed = ~Accepted(c)]
      BY <1>5, Zenon DEF TakeVerifyResend, Answered
    <2>2. call[c].request \in DOMAIN Origin \ FromSignup
      BY <2>1 DEF Origin, FromSignup
    <2>3. /\ page' = [page EXCEPT ![t] = page'[t]]
          /\ page'[t].at = page[t].at /\ page'[t].seconds = page[t].seconds
      BY <1>0, <1>t, <2>1 DEF TypeOK, Page
    <2> QED BY <1>4, <1>5, <2>1, <2>2, <2>3
  <1>6. CASE TakeVerify(c) /\ call[c].live
    <2>1. /\ call[c].request = "verify" /\ Done(c) /\ UNCHANGED <<elapsed, crossed>>
          /\ page' = [page EXCEPT ![t].view = IF Accepted(c) THEN "verified" ELSE "invalid"]
      BY <1>6, Zenon DEF TakeVerify, Answered
    <2>2. call[c].request \in DOMAIN Origin \ FromSignup
      BY <2>1 DEF Origin, FromSignup
    <2>3. /\ page' = [page EXCEPT ![t] = page'[t]]
          /\ page'[t].at = page[t].at /\ page'[t].seconds = page[t].seconds
      BY <1>0, <1>t, <2>1 DEF TypeOK, Page
    <2> QED BY <1>4, <1>6, <2>1, <2>2, <2>3
  <1>7. CASE /\ call[c].live /\ call[c].request \in {"login", "change"}
             /\ Refuses(t, call[c].live) /\ Done(c)
    <2>1. UNCHANGED <<elapsed, crossed>>
          /\ page' = [page EXCEPT ![t].busy = FALSE, ![t].failed = TRUE]
      BY <1>7 DEF Refuses
    <2>2. call[c].request \in DOMAIN Origin \ FromSignup
      BY <1>7 DEF Origin, FromSignup
    <2>3. /\ page' = [page EXCEPT ![t] = page'[t]]
          /\ page'[t].at = page[t].at /\ page'[t].seconds = page[t].seconds
      BY <1>0, <1>t, <2>1 DEF TypeOK, Page
    <2> QED BY <1>4, <1>7, <2>1, <2>2, <2>3
  <1>8. ASSUME NEW at \in {"login", "profile"}, NEW ready \in BOOLEAN,
               Mounts(t, Fresh(at, "form", ready)),
               call' = [Abandoned(t) EXCEPT ![c] = NoCall]
        PROVE  Rest'
    <2>1. Fresh(at, "form", ready) \in Page /\ Fresh(at, "form", ready).seconds = 0
      BY <1>8, FreshPage DEF Fresh
    <2>2. \A d \in Calls :
             /\ call'[d].live => /\ call'[d].tab # t /\ call[d].live
                                 /\ call'[d].tab = call[d].tab
                                 /\ call'[d].request = call[d].request
                                 /\ call'[d].answer = call[d].answer
             /\ call'[d].request # "none" =>
                   call'[d].tab = call[d].tab /\ call'[d].request = call[d].request
      BY <1>0, <1>8 DEF Abandoned, NoCall, TypeOK, Call
    <2>3. Owned'
      BY <1>0, <2>2 DEF Owned
    <2> HIDE DEF t
    <2> QED BY <1>8, <1>f, <1>t, <2>1, <2>2, <2>3, MountStep DEF Rest
  <1>9. \/ ~call[c].live /\ Done(c) /\ UNCHANGED <<page, elapsed, crossed>>
        \/ TakeSignup(c) /\ call[c].live
        \/ TakeSignupResend(c) /\ call[c].live
        \/ TakeVerifyResend(c) /\ call[c].live
        \/ TakeVerify(c) /\ call[c].live
        \/ /\ call[c].live /\ call[c].request \in {"login", "change"}
           /\ Refuses(t, call[c].live) /\ Done(c)
        \/ /\ Mounts(t, Fresh("profile", "form", TRUE))
           /\ call' = [Abandoned(t) EXCEPT ![c] = NoCall]
        \/ /\ Mounts(t, Fresh("login", "form", FALSE))
           /\ call' = [Abandoned(t) EXCEPT ![c] = NoCall]
    <2>1. CASE TakeSignup(c)
      BY <2>1, Zenon DEF TakeSignup
    <2>2. CASE TakeSignupResend(c)
      BY <2>2, Zenon DEF TakeSignupResend
    <2>3. CASE TakeVerifyResend(c)
      BY <2>3, Zenon DEF TakeVerifyResend
    <2>4. CASE TakeVerify(c)
      BY <2>4, Zenon DEF TakeVerify
    <2>5. CASE TakeLogin(c)
      BY <2>5, Zenon DEF TakeLogin, Refuses, Answered
    <2>6. CASE TakeChange(c)
      BY <2>6, Zenon DEF TakeChange, Refuses, Answered
    <2> QED BY <2>1, <2>2, <2>3, <2>4, <2>5, <2>6 DEF Take
  <1> QED BY <1>1, <1>2, <1>3, <1>5, <1>6, <1>7, <1>8, <1>9

\* Leaving a page, and time.
LEMMA OtherSteps ==
    ASSUME AccountInv, TypeOK',
           \/ \E t \in Tabs : Leave(t) \/ OpenWithoutToken(t) \/ CountDown(t)
           \/ Expire \/ Tick
    PROVE  Rest'
  <1>0. TypeOK /\ Owned /\ Clock /\ Counting /\ Awaited /\ Single /\ Unsent
    BY DEF AccountInv
  <1>1. ASSUME NEW t \in Tabs, Leave(t) PROVE Rest'
    <2>1. PICK at \in {"signup", "login"} :
             Mounts(t, Fresh(Destination(t, at), "form", page[t].open))
      BY <1>1 DEF Leave
    <2> DEFINE fresh == Fresh(Destination(t, at), "form", page[t].open)
    <2>2. fresh \in Page /\ fresh.seconds = 0
      <3>1. Destination(t, at) \in {"signup", "verify", "login", "profile"}
            /\ page[t].open \in BOOLEAN
        BY <1>0, <2>1 DEF Destination, TypeOK, Page
      <3>2. fresh \in Page
        BY <3>1, FreshPage
      <3> QED BY <3>2 DEF Fresh
    <2>3. sentAgo' = sentAgo /\ call' = Abandoned(t)
      BY <1>1 DEF Leave, server
    <2>4. \A d \in Calls :
             /\ call'[d].live => /\ call'[d].tab # t /\ call[d].live
                                 /\ call'[d].tab = call[d].tab
                                 /\ call'[d].request = call[d].request
                                 /\ call'[d].answer = call[d].answer
             /\ call'[d].tab = call[d].tab /\ call'[d].request = call[d].request
      BY <1>0, <2>3 DEF Abandoned, TypeOK, Call
    <2>5. Owned'
      BY <1>0, <2>4 DEF Owned
    <2> HIDE DEF fresh
    <2>6. Mounts(t, fresh)
      BY <2>1 DEF fresh
    <2> QED BY <2>2, <2>3, <2>4, <2>5, <2>6, MountStep DEF Rest
  <1>5. ASSUME NEW t \in Tabs, OpenWithoutToken(t) PROVE Rest'
    <2>1. PICK ready \in {FALSE, registration = "consumed"} :
             Mounts(t, Fresh("verify", "invalid", ready))
      BY <1>5 DEF OpenWithoutToken
    <2>2. Fresh("verify", "invalid", ready) \in Page
          /\ Fresh("verify", "invalid", ready).seconds = 0
      BY <2>1, FreshPage DEF Fresh
    <2>3. UNCHANGED <<sentAgo, call>> /\ \A d \in Calls : call[d].tab # t
      BY <1>5 DEF OpenWithoutToken, server
    <2>4. Owned'
      BY <1>0, <2>3 DEF Owned
    <2> QED BY <2>1, <2>2, <2>3, <2>4, MountStep DEF Rest
  <1>2. ASSUME NEW t \in Tabs, CountDown(t) PROVE Rest'
    <2>1. /\ page[t].seconds > 0 /\ elapsed[t] > Countdown - page[t].seconds
          /\ page' = [page EXCEPT ![t] = [page[t] EXCEPT !.seconds = page[t].seconds - 1]]
          /\ UNCHANGED <<sentAgo, elapsed, call, crossed>>
      BY <1>0, <1>2 DEF CountDown, server, TypeOK
    <2>2. page[t].seconds \in 0..Countdown /\ elapsed[t] \in 0..Countdown
      BY <1>0 DEF TypeOK, Page
    <2>3. /\ page'[t].seconds = page[t].seconds - 1 /\ page'[t].at = page[t].at
          /\ page'[t].view = page[t].view /\ page'[t].busy = page[t].busy
          /\ page'[t].resending = page[t].resending
          /\ \A u \in Tabs \ {t} : page'[u] = page[u]
      BY <1>0, <2>1 DEF TypeOK, Page
    <2>4. Counting'
      BY <1>0, <2>1, <2>2, <2>3, Numbers DEF Counting
    <2>5. \A c \in Calls : call[c].live /\ call[c].tab = t => call[c].request # "resend"
      BY <1>0, <2>1 DEF Awaited
    <2>6. Awaited'
      BY <1>0, <2>1, <2>3, <2>5 DEF Awaited
    <2>7. Owned' /\ Clock' /\ Single' /\ Unsent'
      BY <1>0, <2>1 DEF Owned, Clock, Single, Unsent
    <2> QED BY <2>4, <2>6, <2>7 DEF Rest
  <1>3. CASE Expire
    BY <1>0, <1>3 DEF Expire, Rest, Owned, Clock, Counting, Awaited, Single, Unsent
  <1>4. CASE Tick
    <2>1. UNCHANGED <<page, call, crossed>>
          /\ sentAgo' = (IF sentAgo < Cooldown THEN sentAgo + 1 ELSE sentAgo)
          /\ \A t \in Tabs : elapsed'[t] = IF elapsed[t] < Countdown THEN elapsed[t] + 1
                                           ELSE Countdown
      BY <1>4 DEF Tick
    <2>2. sentAgo \in 0..Cooldown
          /\ \A t \in Tabs : elapsed[t] \in 0..Countdown /\ page[t].seconds \in 0..Countdown
      BY <1>0 DEF TypeOK, Page
    <2>3. Clock'
      BY <1>0, <2>1, <2>2, Numbers DEF Clock
    <2>4. Counting'
      BY <1>0, <2>1, <2>2, Numbers DEF Counting
    <2>5. Owned' /\ Awaited' /\ Single'
      BY <1>0, <2>1 DEF Owned, Awaited, Single
    <2>6. Unsent'
      BY <1>0, <2>1, <2>2, Numbers DEF Unsent
    <2> QED BY <2>3, <2>4, <2>5, <2>6 DEF Rest
  <1> QED BY <1>1, <1>2, <1>3, <1>4, <1>5

\* The invariant holds from the start.
LEMMA InitHolds == Init => AccountInv
  <1> SUFFICES ASSUME Init PROVE AccountInv
    OBVIOUS
  <1>1. TypeOK
    <2>1. Fresh("login", "form", FALSE) \in Page
      BY FreshPage
    <2>2. NoCall \in Call
      BY Numbers DEF NoCall, Call
    <2> DEFINE blank == Fresh("login", "form", FALSE)
    <2>3. page = [t \in Tabs |-> blank] /\ blank \in Page
      BY <2>1 DEF Init
    <2> HIDE DEF blank
    <2>4. page \in [Tabs -> Page]
      BY <2>3
    <2>5. call \in [Calls -> Call]
      BY <2>2 DEF Init
    <2>6. /\ registration = "none" /\ link = 0 /\ mailed = {} /\ sentAgo = Cooldown
          /\ elapsed = [t \in Tabs |-> Countdown] /\ faults = 0 /\ crossed = {}
      BY DEF Init
    <2> QED BY <2>4, <2>5, <2>6, Numbers DEF TypeOK
  <1>2. Owned /\ Awaited /\ Single /\ Unsent
    BY DEF Init, NoCall, Owned, Awaited, Single, Unsent
  <1>3. Clock /\ Counting
    BY Numbers DEF Init, Fresh, Clock, Counting
  <1> QED BY <1>1, <1>2, <1>3 DEF AccountInv

\* And every step keeps it.
LEMMA StepHolds == AccountInv /\ [Next]_vars => AccountInv'
  <1> SUFFICES ASSUME AccountInv, [Next]_vars PROVE AccountInv'
    OBVIOUS
  <1>1. TypeOK'
    BY TypeStep DEF AccountInv
  <1>2. CASE UNCHANGED vars
    BY <1>1, <1>2 DEF vars, server, AccountInv, Owned, Clock, Counting, Awaited, Single, Unsent
  <1>3. CASE Next
    <2>1. Rest'
      BY <1>1, <1>3, ActsStep, ServeStep, TakeStep, OtherSteps DEF Next
    <2> QED BY <1>1, <2>1 DEF AccountInv, Rest
  <1> QED BY <1>2, <1>3

\* The button comes back no earlier than the cooldown ends.
LEMMA HeardOf == AccountInv => ResendIsHeard
  <1> SUFFICES ASSUME AccountInv, NEW c \in Calls, Pending(c, "resend"), call[c].live,
                      sentAgo < Cooldown
               PROVE  call[c].tab \in crossed
    BY DEF ResendIsHeard
  <1>1. TypeOK /\ Clock /\ Counting /\ Awaited
    BY DEF AccountInv
  <1>2. call[c].tab \in Tabs /\ page[call[c].tab].seconds = 0
    BY <1>1 DEF Awaited, Pending
  <1>3. elapsed[call[c].tab] \in 0..Countdown /\ sentAgo \in 0..Cooldown
    BY <1>1, <1>2 DEF TypeOK
  <1>4. elapsed[call[c].tab] >= Countdown
    BY <1>1, <1>2, <1>3, Numbers DEF Counting
  <1> QED BY <1>1, <1>2, <1>3, <1>4, Numbers DEF Clock
----------------------------------------------------------------------------
\* The variables of the account pages and of the registration keep their
\* types.
THEOREM AccountTypes == Spec => []TypeOK
  <1>1. AccountInv => TypeOK
    BY DEF AccountInv
  <1> QED BY <1>1, InitHolds, StepHolds, PTL DEF Spec

\* A new link that the sign-up page offers (SignupPage.resend) is not ignored
\* by the cooldown of RegistrationService.resend, for every cooldown that is at
\* most the page's countdown and every number of tabs and calls, unless a mail
\* that the page was not told of has gone out since.
THEOREM ResendsAreHeard == Spec => []ResendIsHeard
  <1> QED BY InitHolds, StepHolds, HeardOf, PTL DEF Spec
----------------------------------------------------------------------------
(***************************************************************************)
(* ApplicationForm, for any applications, calls and counters.  An edit     *)
(* saves the record it was opened on because the form that shows a record  *)
(* is an edit of it (EditsItsRecord), which no answer, however late,       *)
(* changes.                                                                *)
(***************************************************************************)
\* What the fields of an edit may hold: a value of its record, or one that was typed.
OfRecord(a) ==
    [f \in Fields |-> Typed \cup {IF f \in Has[a] THEN [from |-> "record", of |-> a]
                                  ELSE IF f = Currency THEN Default ELSE Blank}]

\* While an edit form is pure its loads bring its record, no autofill is in progress, and
\* once it is drawn its fields hold what they may.
EditsItsRecord ==
    open /\ pure /\ mode = "edit" =>
        /\ fill = NoFill
        /\ \A l \in Loads : load[l] # NoLoad => load[l].app = app
        /\ ~loading => \A f \in Fields : form[f] \in OfRecord(app)[f]

FormInv == FormTypeOK /\ EditsItsRecord /\ EditSavesItsRecord

Loading == [step : {"asked", "served", "failed"}, app : Applications]
Filling == [step : {"asked", "served", "failed"}, url : Postings]
Saving == [step : {"sent", "served", "failed"}, mode : {"create", "edit"},
           app : Applications \cup {None}, form : Form, here : BOOLEAN, pure : BOOLEAN]

LEMMA FormTypes ==
    FormTypeOK <=>
        /\ open \in BOOLEAN
        /\ mode \in {"create", "edit"}
        /\ app \in Applications \cup {None} /\ (mode = "edit" <=> app # None)
        /\ home \in BOOLEAN
        /\ form \in Form /\ url \in Postings \cup {NoUrl}
        /\ loading \in BOOLEAN /\ alert \in BOOLEAN /\ submitting \in BOOLEAN
        /\ load \in [Loads -> {NoLoad} \cup Loading]
        /\ fill \in {NoFill} \cup Filling
        /\ save \in [Saves -> {NoSave} \cup Saving]
        /\ pure \in BOOLEAN
        /\ moves \in 0..MaxMoves
  BY DEF FormTypeOK, Loading, Filling, Saving

\* A slot in use is told apart from a free one by its step.
LEMMA FreeSlots ==
    /\ NoLoad.step = "none" /\ NoFill.step = "none" /\ NoSave.step = "none"
    /\ \A q \in Loading : q # NoLoad /\ q.app \in Applications
    /\ \A q \in Filling : q # NoFill /\ q.url \in Postings
    /\ \A q \in Saving : q # NoSave
  <1>1. NoLoad.step = "none" /\ NoFill.step = "none" /\ NoSave.step = "none"
    BY DEF NoLoad, NoFill, NoSave
  <1>2. \A q \in Loading : q.step # "none" /\ q.app \in Applications
    BY DEF Loading
  <1>3. \A q \in Filling : q.step # "none" /\ q.url \in Postings
    BY DEF Filling
  <1>4. \A q \in Saving : q.step # "none"
    BY DEF Saving
  <1> QED  BY <1>1, <1>2, <1>3, <1>4

LEMMA StepLemma ==
    /\ \A q \in Loading, step \in {"asked", "served", "failed"} :
          /\ [q EXCEPT !.step = step] \in Loading
          /\ [q EXCEPT !.step = step].app = q.app
    /\ \A q \in Filling, step \in {"asked", "served", "failed"} :
          [q EXCEPT !.step = step] \in Filling
    /\ \A q \in Saving, step \in {"sent", "served", "failed"} :
          /\ [q EXCEPT !.step = step] \in Saving
          /\ [q EXCEPT !.step = step].mode = q.mode
          /\ [q EXCEPT !.step = step].app = q.app
          /\ [q EXCEPT !.step = step].form = q.form
          /\ [q EXCEPT !.step = step].pure = q.pure
    /\ \A q \in Saving :
          /\ [q EXCEPT !.here = FALSE] \in Saving
          /\ [q EXCEPT !.here = FALSE].mode = q.mode
          /\ [q EXCEPT !.here = FALSE].app = q.app
          /\ [q EXCEPT !.here = FALSE].form = q.form
          /\ [q EXCEPT !.here = FALSE].pure = q.pure
  <1>1. \A q \in Loading, step \in {"asked", "served", "failed"} :
          /\ [q EXCEPT !.step = step] \in Loading
          /\ [q EXCEPT !.step = step].app = q.app
    BY DEF Loading
  <1>2. \A q \in Filling, step \in {"asked", "served", "failed"} :
          [q EXCEPT !.step = step] \in Filling
    BY DEF Filling
  <1>3. \A q \in Saving, step \in {"sent", "served", "failed"} :
          /\ [q EXCEPT !.step = step] \in Saving
          /\ [q EXCEPT !.step = step].mode = q.mode
          /\ [q EXCEPT !.step = step].app = q.app
          /\ [q EXCEPT !.step = step].form = q.form
          /\ [q EXCEPT !.step = step].pure = q.pure
    BY DEF Saving
  <1>4. \A q \in Saving :
          /\ [q EXCEPT !.here = FALSE] \in Saving
          /\ [q EXCEPT !.here = FALSE].mode = q.mode
          /\ [q EXCEPT !.here = FALSE].app = q.app
          /\ [q EXCEPT !.here = FALSE].form = q.form
          /\ [q EXCEPT !.here = FALSE].pure = q.pure
    BY DEF Saving
  <1> QED  BY <1>1, <1>2, <1>3, <1>4

\* A save that goes on, or that its page has left, keeps what it carries.
Carries(s) ==
    \/ save'[s] = NoSave
    \/ /\ save[s] # NoSave /\ save'[s] \in Saving
       /\ save'[s].mode = save[s].mode /\ save'[s].app = save[s].app
       /\ save'[s].form = save[s].form /\ save'[s].pure = save[s].pure

LEMMA SavesCarry ==
    ASSUME EditSavesItsRecord, \A s \in Saves : Carries(s),
           save' = [s \in Saves |-> save'[s]]
    PROVE  save' \in [Saves -> {NoSave} \cup Saving] /\ EditSavesItsRecord'
  <1>1. \A s \in Saves : save'[s] \in {NoSave} \cup Saving
    BY DEF Carries
  <1>2. EditSavesItsRecord'
    BY DEF Carries, EditSavesItsRecord
  <1> QED  BY <1>1, <1>2

LEMMA AddressLemma ==
    ASSUME NEW at \in Addresses
    PROVE  /\ at[1] \in {"create", "edit"} /\ at[2] \in Applications \cup {None}
           /\ (at[1] = "edit" <=> at[2] # None)
           /\ at[1] = "edit" => at[2] \in Applications
  BY FormAssumption DEF Addresses

LEMMA AskLemma ==
    ASSUME NEW a \in Applications, NEW there
    PROVE  Ask(a, there) \in Loading /\ Ask(a, there).app = a
  BY DEF Ask, Loading

\* The effect adds at most a load of the record that the address names.
LEMMA LoadInLemma ==
    ASSUME NEW table \in [Loads -> {NoLoad} \cup Loading], NEW m, NEW a, NEW there,
           m = "edit" => a \in Applications, LoadIn(table, m, a, there)
    PROVE  /\ load' \in [Loads -> {NoLoad} \cup Loading]
           /\ \A l \in Loads : load'[l] = table[l] \/ load'[l].app = a
  <1>1. CASE m = "edit"
    <2> DEFINE q == Ask(a, there)
    <2>1. q \in Loading /\ q.app = a
      BY <1>1, AskLemma
    <2>2. PICK l \in Loads : load' = [table EXCEPT ![l] = q]
      BY <1>1 DEF LoadIn
    <2> HIDE DEF q
    <2> QED  BY <2>1, <2>2
  <1>2. CASE m # "edit"
    BY <1>2 DEF LoadIn
  <1> QED  BY <1>1, <1>2

LEMMA EmptyForms ==
    /\ EmptyForm \in Form /\ NoLoads \in [Loads -> {NoLoad} \cup Loading]
    /\ \A a \in Applications :
          FormOf(a) \in Form /\ \A f \in Fields : FormOf(a)[f] \in OfRecord(a)[f]
    /\ Typed \subseteq Value
  <1>1. Blank \in Value /\ Default \in Value
    BY DEF Blank, Default, Value
  <1>2. \A a \in Applications : [from |-> "record", of |-> a] \in Value
    BY DEF Value
  <1>3. Typed \subseteq Value
    BY DEF Typed, Value
  <1>4. EmptyForm \in Form /\ NoLoads \in [Loads -> {NoLoad} \cup Loading]
    BY <1>1 DEF EmptyForm, NoLoads, Form
  <1>5. \A a \in Applications :
            FormOf(a) \in Form /\ \A f \in Fields : FormOf(a)[f] \in OfRecord(a)[f]
    <2> SUFFICES ASSUME NEW a \in Applications
                 PROVE  FormOf(a) \in Form /\ \A f \in Fields : FormOf(a)[f] \in OfRecord(a)[f]
      OBVIOUS
    <2> DEFINE v == [from |-> "record", of |-> a]
    <2>1. v \in Value
      BY <1>2
    <2> HIDE DEF v
    <2>2. /\ FormOf(a) = [f \in Fields |-> IF f \in Has[a] THEN v ELSE EmptyForm[f]]
          /\ OfRecord(a) = [f \in Fields |->
                Typed \cup {IF f \in Has[a] THEN v ELSE IF f = Currency THEN Default ELSE Blank}]
      BY DEF FormOf, OfRecord, v
    <2>3. FormOf(a) \in Form
      BY <1>4, <2>1, <2>2 DEF Form
    <2>4. \A f \in Fields : FormOf(a)[f] \in OfRecord(a)[f]
      BY <2>2 DEF EmptyForm
    <2> QED  BY <2>3, <2>4
  <1> QED  BY <1>3, <1>4, <1>5

LEMMA FormInvInit == FormInit => FormInv
  <1> SUFFICES ASSUME FormInit PROVE FormInv
    OBVIOUS
  <1>1. PICK at \in Addresses :
            /\ mode = at[1] /\ app = at[2]
            /\ loading = SpinsAtFirst(at[1])
            /\ \E l \in Loads :
                  load = IF at[1] = "edit"
                         THEN [NoLoads EXCEPT ![l] = Ask(at[2], TRUE)]
                         ELSE NoLoads
    BY DEF FormInit
  <1>2. /\ mode \in {"create", "edit"} /\ app \in Applications \cup {None}
        /\ (mode = "edit" <=> app # None) /\ (mode = "edit" => app \in Applications)
    BY <1>1, AddressLemma
  <1>3. loading \in BOOLEAN /\ (mode = "edit" => loading)
    BY <1>1 DEF SpinsAtFirst
  <1>4. /\ load \in [Loads -> {NoLoad} \cup Loading]
        /\ mode = "edit" => \A l \in Loads : load[l] # NoLoad => load[l].app = app
    <2>1. CASE mode = "edit"
      <3> DEFINE q == Ask(app, TRUE)
      <3>1. q \in Loading /\ q.app = app
        BY <1>2, <2>1, AskLemma
      <3>2. PICK l \in Loads : load = [NoLoads EXCEPT ![l] = q]
        BY <1>1, <2>1
      <3>3. NoLoads \in [Loads -> {NoLoad} \cup Loading]
        BY EmptyForms
      <3> HIDE DEF q
      <3>4. \A k \in Loads : load[k] = q \/ load[k] = NoLoad
        BY <3>2 DEF NoLoads
      <3> QED  BY <3>1, <3>2, <3>3, <3>4
    <2>2. CASE mode # "edit"
      BY <1>1, <2>2, EmptyForms
    <2> QED  BY <2>1, <2>2
  <1>5. /\ open = TRUE /\ home = TRUE /\ form \in Form /\ url = NoUrl
        /\ alert = FALSE /\ submitting = FALSE
        /\ fill = NoFill /\ save = [s \in Saves |-> NoSave] /\ pure = TRUE /\ moves = 0
    BY EmptyForms DEF FormInit
  <1>6. FormTypeOK
    <2>1. 0 \in 0..MaxMoves
      BY FormAssumption
    <2>2. save \in [Saves -> {NoSave} \cup Saving]
      BY <1>5
    <2> QED  BY <1>2, <1>3, <1>4, <1>5, <2>1, <2>2, FormTypes
  <1>7. EditsItsRecord
    BY <1>3, <1>4, <1>5 DEF EditsItsRecord
  <1>8. EditSavesItsRecord
    BY <1>5 DEF EditSavesItsRecord
  <1> QED  BY <1>6, <1>7, <1>8 DEF FormInv

LEMMA MoveLemma ==
    ASSUME FormTypeOK, Move
    PROVE  moves' \in 0..MaxMoves
  BY FormAssumption DEF FormTypeOK, Move

LEMMA SavesStay ==
    ASSUME FormInv, UNCHANGED save
    PROVE  save' \in [Saves -> {NoSave} \cup Saving] /\ EditSavesItsRecord'
  BY FormTypes DEF FormInv, EditSavesItsRecord

\* The page goes, and its saves are nobody's.
LEMMA SavesElsewhere ==
    ASSUME FormInv, NEW S \in SUBSET Saves,
           save' = [s \in Saves |-> IF s \in S THEN NoSave ELSE Elsewhere(s)]
    PROVE  save' \in [Saves -> {NoSave} \cup Saving] /\ EditSavesItsRecord'
  <1>1. save \in [Saves -> {NoSave} \cup Saving] /\ EditSavesItsRecord
    BY FormTypes DEF FormInv
  <1>2. ASSUME NEW s \in Saves PROVE Carries(s)
    <2>1. CASE s \in S \/ save[s] = NoSave
      BY <2>1 DEF Carries, Elsewhere
    <2>2. CASE s \notin S /\ save[s] # NoSave
      <3> DEFINE q == save[s]
                 o == [q EXCEPT !.here = FALSE]
      <3>1. q \in Saving
        BY <1>1, <2>2
      <3> HIDE DEF q
      <3>2. /\ o \in Saving /\ o.mode = q.mode /\ o.app = q.app /\ o.form = q.form
            /\ o.pure = q.pure
        BY <3>1, StepLemma
      <3> USE DEF q
      <3>3. save'[s] = o
        BY <2>2 DEF Elsewhere
      <3> HIDE DEF o
      <3> QED  BY <2>2, <3>2, <3>3 DEF Carries
    <2> QED  BY <2>1, <2>2
  <1>3. save' = [s \in Saves |-> save'[s]]
    OBVIOUS
  <1> QED  BY <1>1, <1>2, <1>3, SavesCarry

LEMMA OpenKeeps ==
    ASSUME FormInv, NEW at \in Addresses, Open(at[1], at[2])
    PROVE  FormInv'
  <1>1. /\ at[1] \in {"create", "edit"} /\ at[2] \in Applications \cup {None}
        /\ (at[1] = "edit" <=> at[2] # None) /\ (at[1] = "edit" => at[2] \in Applications)
    BY AddressLemma
  <1>2. /\ open' = TRUE /\ mode' = at[1] /\ app' = at[2] /\ form' = EmptyForm /\ url' = NoUrl
        /\ loading' = SpinsAtFirst(at[1]) /\ alert' = FALSE /\ submitting' = FALSE
        /\ LoadIn(NoLoads, at[1], at[2], home) /\ fill' = NoFill /\ pure' = TRUE
        /\ UNCHANGED <<home, save>>
        /\ Move
    BY DEF Open
  <1>3. /\ load' \in [Loads -> {NoLoad} \cup Loading]
        /\ \A l \in Loads : load'[l] = NoLoads[l] \/ load'[l].app = at[2]
    BY <1>1, <1>2, EmptyForms, LoadInLemma
  <1>4. save' \in [Saves -> {NoSave} \cup Saving] /\ EditSavesItsRecord'
    BY <1>2, SavesStay
  <1>5. moves' \in 0..MaxMoves
    BY <1>2, MoveLemma DEF FormInv
  <1>6. FormTypeOK'
    <2>1. loading' \in BOOLEAN /\ form' \in Form
      BY <1>2, EmptyForms DEF SpinsAtFirst
    <2>2. home' \in BOOLEAN
      BY <1>2 DEF FormInv, FormTypeOK
    <2> QED  BY <1>1, <1>2, <1>3, <1>4, <1>5, <2>1, <2>2 DEF FormTypeOK, Loading, Saving
  <1>7. EditsItsRecord'
    BY <1>2, <1>3 DEF EditsItsRecord, NoLoads, SpinsAtFirst
  <1> QED  BY <1>4, <1>6, <1>7 DEF FormInv

LEMMA LeaveKeeps ==
    ASSUME FormInv, LeaveForm
    PROVE  FormInv'
  <1>1. /\ open' = FALSE /\ load' = NoLoads /\ fill' = NoFill /\ Move
        /\ UNCHANGED <<mode, app, home, form, url, loading, alert, submitting, pure>>
    BY DEF LeaveForm, values
  <1>2. save' \in [Saves -> {NoSave} \cup Saving] /\ EditSavesItsRecord'
    <2>1. save' = [s \in Saves |-> IF s \in {} THEN NoSave ELSE Elsewhere(s)]
      BY DEF LeaveForm
    <2>2. {} \in SUBSET Saves
      OBVIOUS
    <2> QED  BY <2>1, <2>2, SavesElsewhere
  <1>3. moves' \in 0..MaxMoves /\ FormTypeOK
    BY <1>1, MoveLemma DEF FormInv
  <1>4. FormTypeOK'
    BY <1>1, <1>2, <1>3, EmptyForms DEF FormTypeOK, Loading, Saving
  <1>5. EditsItsRecord'
    BY <1>1 DEF EditsItsRecord
  <1> QED  BY <1>2, <1>4, <1>5 DEF FormInv

LEMMA ChangeAddressKeeps ==
    ASSUME FormInv, NEW at \in Addresses, ChangeAddress(at[1], at[2])
    PROVE  FormInv'
  <1>1. /\ at[1] \in {"create", "edit"} /\ at[2] \in Applications \cup {None}
        /\ (at[1] = "edit" <=> at[2] # None) /\ (at[1] = "edit" => at[2] \in Applications)
    BY AddressLemma
  <1>2. /\ mode' = at[1] /\ app' = at[2] /\ LoadIn(load, at[1], at[2], home)
        /\ pure' = FALSE /\ Move
        /\ UNCHANGED <<open, home, form, url, loading, alert, submitting, fill, save>>
    BY DEF ChangeAddress, values
  <1>3. FormTypeOK /\ moves' \in 0..MaxMoves
    BY <1>2, MoveLemma DEF FormInv
  <1>4. load' \in [Loads -> {NoLoad} \cup Loading]
    BY <1>1, <1>2, <1>3, FormTypes, LoadInLemma
  <1>5. EditSavesItsRecord'
    BY <1>2, SavesStay
  <1>6. FormTypeOK'
    BY <1>1, <1>2, <1>3, <1>4 DEF FormTypeOK, Loading
  <1>7. EditsItsRecord'
    BY <1>2 DEF EditsItsRecord
  <1> QED  BY <1>5, <1>6, <1>7 DEF FormInv

LEMMA SwitchKeeps ==
    ASSUME FormInv, SwitchWorkspace
    PROVE  FormInv'
  <1>1. /\ home' = ~home /\ Move
        /\ UNCHANGED <<open, mode, app, form, url, loading, alert, submitting, fill, save>>
        /\ \/ LoadIn(load, mode, app, ~home) /\ pure' = FALSE
           \/ ~open /\ UNCHANGED <<load, pure>>
    BY DEF SwitchWorkspace, values
  <1>2. FormTypeOK /\ moves' \in 0..MaxMoves
    BY <1>1, MoveLemma DEF FormInv
  <1>3. load' \in [Loads -> {NoLoad} \cup Loading] /\ pure' \in BOOLEAN
    <2>1. load \in [Loads -> {NoLoad} \cup Loading] /\ pure \in BOOLEAN
      BY <1>2, FormTypes
    <2>2. mode = "edit" => app \in Applications
      BY <1>2 DEF FormTypeOK
    <2> QED  BY <1>1, <2>1, <2>2, LoadInLemma
  <1>4. EditSavesItsRecord'
    BY <1>1, SavesStay
  <1>5. FormTypeOK'
    <2>1. home' \in BOOLEAN
      BY <1>1
    <2> QED  BY <1>1, <1>2, <1>3, <2>1 DEF FormTypeOK, Loading
  <1>6. EditsItsRecord'
    BY <1>1 DEF EditsItsRecord
  <1> QED  BY <1>4, <1>5, <1>6 DEF FormInv

LEMMA UserTypesKeeps ==
    ASSUME FormInv, UserTypes
    PROVE  FormInv'
  <1>1. /\ Shown /\ Move
        /\ UNCHANGED <<open, mode, app, home, loading, alert, submitting, load, fill, save, pure>>
    BY DEF UserTypes, SetField, SetUrl, address
  <1>2. FormTypeOK /\ moves' \in 0..MaxMoves
    BY <1>1, MoveLemma DEF FormInv
  <1>3. /\ form' \in Form /\ url' \in Postings \cup {NoUrl}
        /\ \A f \in Fields : form'[f] = form[f] \/ form'[f] \in Typed
    <2>1. form \in [Fields -> Value] /\ url \in Postings \cup {NoUrl}
      BY <1>2 DEF FormTypeOK, Form
    <2>2. ASSUME NEW f \in Fields, NEW value \in Typed, SetField(f, value)
          PROVE  /\ form' \in Form /\ url' = url
                 /\ \A g \in Fields : form'[g] = form[g] \/ form'[g] \in Typed
      <3>1. value \in Value
        BY EmptyForms
      <3>2. form' = [form EXCEPT ![f] = value] /\ url' = url
        BY <2>2 DEF SetField
      <3> QED  BY <2>1, <3>1, <3>2 DEF Form
    <2>3. ASSUME NEW u \in Urls \cup {NoUrl}, SetUrl(u)
          PROVE  form' = form /\ url' = u
      BY <2>3 DEF SetUrl
    <2> QED  BY <2>1, <2>2, <2>3 DEF UserTypes, Form, Postings
  <1>4. EditSavesItsRecord'
    BY <1>1, SavesStay
  <1>5. FormTypeOK'
    BY <1>1, <1>2, <1>3 DEF FormTypeOK
  <1>6. EditsItsRecord'
    BY <1>1, <1>3 DEF FormInv, EditsItsRecord, OfRecord
  <1> QED  BY <1>4, <1>5, <1>6 DEF FormInv

LEMMA AutofillKeeps ==
    ASSUME FormInv, Autofill
    PROVE  FormInv'
  <1>1. /\ mode = "create" /\ Move
        /\ \/ url # NoUrl /\ fill' = [step |-> "asked", url |-> url] /\ alert' = FALSE
           \/ alert' = TRUE /\ UNCHANGED fill
        /\ UNCHANGED <<open, mode, app, home, form, url, loading, submitting, load, save, pure>>
    BY DEF Autofill, address, values
  <1>2. FormTypeOK /\ moves' \in 0..MaxMoves
    BY <1>1, MoveLemma DEF FormInv
  <1>3. fill' \in {NoFill} \cup Filling /\ alert' \in BOOLEAN
    <2>1. alert \in BOOLEAN /\ fill \in {NoFill} \cup Filling /\ url \in Postings \cup {NoUrl}
      BY <1>2, FormTypes
    <2>2. ASSUME url # NoUrl PROVE [step |-> "asked", url |-> url] \in Filling
      BY <2>1, <2>2 DEF Filling
    <2>3. alert' \in BOOLEAN
      BY <1>1, <2>1
    <2> QED  BY <1>1, <2>1, <2>2, <2>3
  <1>4. EditSavesItsRecord'
    BY <1>1, SavesStay
  <1>5. FormTypeOK'
    BY <1>1, <1>2, <1>3 DEF FormTypeOK, Filling
  <1>6. EditsItsRecord'
    BY <1>1 DEF EditsItsRecord
  <1> QED  BY <1>4, <1>5, <1>6 DEF FormInv

\* What is submitted is what is drawn.
LEMMA SubmitKeeps ==
    ASSUME FormInv, NEW s \in Saves, Submit(s)
    PROVE  FormInv'
  <1> DEFINE q == [step |-> SaveStep, mode |-> mode, app |-> app, form |-> form,
                   here |-> TRUE, pure |-> pure]
  <1>1. /\ open /\ ~loading /\ save[s] = NoSave /\ Move
        /\ \/ save' = [save EXCEPT ![s] = q] /\ submitting' = TRUE /\ alert' = FALSE
           \/ alert' = TRUE /\ UNCHANGED <<save, submitting>>
        /\ UNCHANGED <<open, mode, app, home, form, url, loading, load, fill, pure>>
    BY DEF Submit, Shown, address, values
  <1>2. FormTypeOK /\ moves' \in 0..MaxMoves
    BY <1>1, MoveLemma DEF FormInv
  <1>3. q \in Saving
    <2>1. SaveStep \in {"sent", "served", "failed"}
      BY DEF SaveStep
    <2> QED  BY <1>2, <2>1 DEF FormTypeOK, Saving
  <1>4. /\ q.mode = mode /\ q.app = app /\ q.form = form /\ q.pure = pure
    OBVIOUS
  <1>5. mode = "edit" /\ pure => \A f \in Fields : form[f] \in OfRecord(app)[f]
    BY <1>1 DEF FormInv, EditsItsRecord
  <1> HIDE DEF q
  <1>6. save' \in [Saves -> {NoSave} \cup Saving] /\ submitting' \in BOOLEAN /\ alert' \in BOOLEAN
    BY <1>1, <1>2, <1>3, FormTypes
  <1>7. EditSavesItsRecord'
    <2>1. CASE UNCHANGED save
      BY <2>1, SavesStay
    <2>2. CASE save' = [save EXCEPT ![s] = q]
      <3>1. save'[s] = q /\ \A k \in Saves \ {s} : save'[k] = save[k]
        BY <1>2, <2>2, FormTypes
      <3>2. q.mode = "edit" /\ q.pure => \A f \in Fields : q.form[f] \in OfRecord(q.app)[f]
        BY <1>4, <1>5
      <3>3. EditSavesItsRecord
        BY DEF FormInv
      <3>4. ASSUME NEW k \in Saves, save'[k] # NoSave, save'[k].mode = "edit", save'[k].pure,
                   NEW f \in Fields
            PROVE  \/ save'[k].form[f] \in Typed
                   \/ save'[k].form[f] = IF f \in Has[save'[k].app]
                                         THEN [from |-> "record", of |-> save'[k].app]
                                         ELSE IF f = Currency THEN Default ELSE Blank
        <4>1. CASE k = s
          BY <3>1, <3>2, <3>4, <4>1 DEF OfRecord
        <4>2. CASE k # s
          BY <3>1, <3>3, <3>4, <4>2 DEF EditSavesItsRecord
        <4> QED  BY <4>1, <4>2
      <3> QED  BY <3>4 DEF EditSavesItsRecord
    <2> QED  BY <1>1, <2>1, <2>2
  <1>8. FormTypeOK'
    BY <1>1, <1>2, <1>6 DEF FormTypeOK, Saving
  <1>9. EditsItsRecord'
    BY <1>1 DEF FormInv, EditsItsRecord
  <1> QED  BY <1>7, <1>8, <1>9 DEF FormInv

LEMMA ServeLoadKeeps ==
    ASSUME FormInv, NEW l \in Loads, ServeLoad(l)
    PROVE  FormInv'
  <1>1. /\ load[l].step = "asked"
        /\ UNCHANGED <<open, mode, app, home, form, url, loading, alert, submitting, fill, save,
                       pure, moves>>
    BY DEF ServeLoad, address, values
  <1>2. PICK outcome \in {"served", "failed"} : load' = [load EXCEPT ![l].step = outcome]
    BY DEF ServeLoad
  <1> DEFINE q == load[l]
             o == [q EXCEPT !.step = outcome]
  <1>3. load \in [Loads -> {NoLoad} \cup Loading] /\ FormTypeOK
    BY FormTypes DEF FormInv
  <1>4. q \in Loading
    BY <1>1, <1>3, FreeSlots
  <1>5. load' = [load EXCEPT ![l] = o]
    BY <1>2
  <1>6. o \in Loading /\ o.app = q.app
    <2> HIDE DEF q
    <2> QED  BY <1>4, StepLemma
  <1> HIDE DEF o
  <1>7. /\ load' \in [Loads -> {NoLoad} \cup Loading]
        /\ load'[l] = o /\ \A k \in Loads \ {l} : load'[k] = load[k]
    BY <1>3, <1>5, <1>6
  <1>8. EditSavesItsRecord'
    BY <1>1, SavesStay
  <1>9. FormTypeOK'
    BY <1>1, <1>3, <1>7 DEF FormTypeOK, Loading
  <1>10. EditsItsRecord'
    BY <1>1, <1>4, <1>6, <1>7, FreeSlots DEF FormInv, EditsItsRecord
  <1> QED  BY <1>8, <1>9, <1>10 DEF FormInv

LEMMA TakeRecordKeeps ==
    ASSUME FormInv, NEW l \in Loads, TakeRecord(l)
    PROVE  FormInv'
  <1> DEFINE a == load[l].app
  <1>1. /\ load[l].step \in {"served", "failed"} /\ loading' = FALSE
        /\ load' = [load EXCEPT ![l] = NoLoad]
        /\ \/ form' = FormOf(a) /\ url' = a /\ UNCHANGED <<alert, pure>>
           \/ alert' = TRUE /\ pure' = FALSE /\ UNCHANGED <<form, url>>
        /\ UNCHANGED <<open, mode, app, home, submitting, fill, save, moves>>
    BY DEF TakeRecord, address, values
  <1>2. load \in [Loads -> {NoLoad} \cup Loading] /\ FormTypeOK
    BY FormTypes DEF FormInv
  <1>3. load[l] \in Loading /\ load[l] # NoLoad /\ a \in Applications
    BY <1>1, <1>2, FreeSlots
  <1>4. /\ load' \in [Loads -> {NoLoad} \cup Loading]
        /\ \A k \in Loads : load'[k] # NoLoad => load'[k] = load[k]
    BY <1>1, <1>2
  <1>5. EditSavesItsRecord'
    BY <1>1, SavesStay
  <1>6. FormTypeOK'
    <2>1. form' \in Form /\ url' \in Postings \cup {NoUrl}
      BY <1>1, <1>2, <1>3, EmptyForms DEF FormTypeOK, Postings
    <2>2. alert' \in BOOLEAN /\ pure' \in BOOLEAN
      BY <1>1, <1>2 DEF FormTypeOK
    <2> QED  BY <1>1, <1>2, <1>4, <2>1, <2>2 DEF FormTypeOK, Loading
  <1>7. EditsItsRecord'
    <2> SUFFICES ASSUME open', pure', mode' = "edit" PROVE EditsItsRecord'
      BY DEF EditsItsRecord
    <2>1. open /\ pure /\ mode = "edit" /\ form' = FormOf(a)
      BY <1>1
    <2>2. /\ fill = NoFill
          /\ \A k \in Loads : load[k] # NoLoad => load[k].app = app
      BY <2>1 DEF FormInv, EditsItsRecord
    <2>3. a = app
      BY <1>3, <2>2
    <2>4. \A f \in Fields : form'[f] \in OfRecord(app')[f]
      BY <1>1, <1>3, <2>1, <2>3, EmptyForms
    <2> QED  BY <1>1, <1>4, <2>2, <2>4 DEF EditsItsRecord
  <1> QED  BY <1>5, <1>6, <1>7 DEF FormInv

LEMMA ServeFillKeeps ==
    ASSUME FormInv, ServeFill
    PROVE  FormInv'
  <1>1. /\ fill.step = "asked"
        /\ UNCHANGED <<open, mode, app, home, form, url, loading, alert, submitting, load, save,
                       pure, moves>>
    BY DEF ServeFill, address, values
  <1>2. PICK outcome \in {"served", "failed"} : fill' = [fill EXCEPT !.step = outcome]
    BY DEF ServeFill
  <1>3. fill \in {NoFill} \cup Filling /\ FormTypeOK
    BY FormTypes DEF FormInv
  <1>4. fill \in Filling /\ fill # NoFill
    BY <1>1, <1>3, FreeSlots
  <1>5. fill' \in Filling
    BY <1>2, <1>4, StepLemma
  <1>6. EditSavesItsRecord'
    BY <1>1, SavesStay
  <1>7. FormTypeOK'
    BY <1>1, <1>3, <1>5 DEF FormTypeOK, Filling
  <1>8. EditsItsRecord'
    BY <1>1, <1>4 DEF FormInv, EditsItsRecord
  <1> QED  BY <1>6, <1>7, <1>8 DEF FormInv

\* An autofill changes fields of a form that adds an application.
LEMMA TakeFillKeeps ==
    ASSUME FormInv, TakeFill
    PROVE  FormInv'
  <1>1. /\ fill.step \in {"served", "failed"} /\ fill' = NoFill
        /\ alert' = (alert \/ fill.step = "failed")
        /\ UNCHANGED <<open, mode, app, home, url, loading, submitting, load, save, pure, moves>>
    BY DEF TakeFill, address
  <1>2. fill \in {NoFill} \cup Filling /\ FormTypeOK
    BY FormTypes DEF FormInv
  <1>3. fill \in Filling /\ fill # NoFill /\ fill.url \in Postings
    BY <1>1, <1>2, FreeSlots
  <1>4. form' \in Form
    <2>1. form \in [Fields -> Value]
      BY <1>2 DEF FormTypeOK, Form
    <2> DEFINE v == [from |-> "posting", of |-> fill.url]
    <2>2. v \in Value
      BY <1>3 DEF Value
    <2>3. CASE fill.step = "served"
      <3>1. PICK said \in SUBSET Filled :
                form' = [f \in Fields |-> IF f \in said /\ Fills(f) THEN v ELSE form[f]]
        BY <2>3 DEF TakeFill
      <3> HIDE DEF v
      <3> QED  BY <2>1, <2>2, <3>1 DEF Form
    <2>4. CASE fill.step # "served"
      BY <2>1, <2>4 DEF TakeFill, Form
    <2> QED  BY <2>3, <2>4
  <1>5. EditSavesItsRecord'
    BY <1>1, SavesStay
  <1>6. alert' \in BOOLEAN
    BY <1>1
  <1>7. FormTypeOK'
    BY <1>1, <1>2, <1>4, <1>6 DEF FormTypeOK
  <1>8. EditsItsRecord'
    BY <1>1, <1>3 DEF FormInv, EditsItsRecord
  <1> QED  BY <1>5, <1>7, <1>8 DEF FormInv

LEMMA ServeSaveKeeps ==
    ASSUME FormInv, NEW s \in Saves, ServeSave(s)
    PROVE  FormInv'
  <1>1. /\ save[s].step = "sent"
        /\ UNCHANGED <<open, mode, app, home, form, url, loading, alert, submitting, load, fill,
                       pure, moves>>
    BY DEF ServeSave, address, values
  <1>2. PICK outcome \in {"served", "failed"} : save' = [save EXCEPT ![s].step = outcome]
    BY DEF ServeSave
  <1> DEFINE q == save[s]
             o == [q EXCEPT !.step = outcome]
  <1>3. save \in [Saves -> {NoSave} \cup Saving] /\ FormTypeOK /\ EditSavesItsRecord
    BY FormTypes DEF FormInv
  <1>4. q \in Saving /\ q # NoSave
    BY <1>1, <1>3, FreeSlots
  <1>5. save' = [save EXCEPT ![s] = o]
    BY <1>2
  <1>6. /\ o \in Saving /\ o.mode = q.mode /\ o.app = q.app /\ o.form = q.form
        /\ o.pure = q.pure
    <2> HIDE DEF q
    <2>1. outcome \in {"sent", "served", "failed"}
      OBVIOUS
    <2> QED  BY <1>4, <2>1, StepLemma
  <1> HIDE DEF o
  <1>7. /\ save' = [k \in Saves |-> save'[k]]
        /\ save'[s] = o /\ \A k \in Saves \ {s} : save'[k] = save[k]
    BY <1>3, <1>5
  <1>8. ASSUME NEW k \in Saves PROVE Carries(k)
    <2>1. CASE k = s
      BY <1>4, <1>6, <1>7, <2>1 DEF Carries
    <2>2. CASE k # s
      BY <1>3, <1>7, <2>2 DEF Carries
    <2> QED  BY <2>1, <2>2
  <1>9. save' \in [Saves -> {NoSave} \cup Saving] /\ EditSavesItsRecord'
    BY <1>3, <1>7, <1>8, SavesCarry
  <1>10. FormTypeOK'
    BY <1>1, <1>3, <1>9 DEF FormTypeOK, Saving
  <1>11. EditsItsRecord'
    BY <1>1 DEF FormInv, EditsItsRecord
  <1> QED  BY <1>9, <1>10, <1>11 DEF FormInv

LEMMA FinishSaveKeeps ==
    ASSUME FormInv, NEW s \in Saves, FinishSave(s)
    PROVE  FormInv'
  <1>1. /\ open' = FALSE /\ load' = NoLoads /\ fill' = NoFill
        /\ submitting' = (submitting /\ ~save[s].here)
        /\ UNCHANGED <<mode, app, home, form, url, loading, alert, pure, moves>>
    BY DEF FinishSave, values
  <1>2. save' \in [Saves -> {NoSave} \cup Saving] /\ EditSavesItsRecord'
    <2>1. save' = [k \in Saves |-> IF k \in {s} THEN NoSave ELSE Elsewhere(k)]
      BY DEF FinishSave
    <2>2. {s} \in SUBSET Saves
      OBVIOUS
    <2> QED  BY <2>1, <2>2, SavesElsewhere
  <1>3. FormTypeOK'
    <2>1. submitting' \in BOOLEAN
      BY <1>1
    <2> QED  BY <1>1, <1>2, <2>1, EmptyForms DEF FormInv, FormTypeOK, Loading, Saving
  <1>4. EditsItsRecord'
    BY <1>1 DEF EditsItsRecord
  <1> QED  BY <1>2, <1>3, <1>4 DEF FormInv

LEMMA FailSaveKeeps ==
    ASSUME FormInv, NEW s \in Saves, FailSave(s)
    PROVE  FormInv'
  <1>1. /\ alert' = (alert \/ save[s].here) /\ submitting' = (submitting /\ ~save[s].here)
        /\ save' = [save EXCEPT ![s] = NoSave]
        /\ UNCHANGED <<open, mode, app, home, form, url, loading, load, fill, pure, moves>>
    BY DEF FailSave, address, values
  <1>2. save' \in [Saves -> {NoSave} \cup Saving] /\ EditSavesItsRecord'
    <2>1. save \in [Saves -> {NoSave} \cup Saving] /\ EditSavesItsRecord
      BY FormTypes DEF FormInv
    <2> QED  BY <1>1, <2>1 DEF EditSavesItsRecord
  <1>3. FormTypeOK'
    <2>1. submitting' \in BOOLEAN /\ alert' \in BOOLEAN
      BY <1>1
    <2> QED  BY <1>1, <1>2, <2>1 DEF FormInv, FormTypeOK, Saving
  <1>4. EditsItsRecord'
    BY <1>1 DEF FormInv, EditsItsRecord
  <1> QED  BY <1>2, <1>3, <1>4 DEF FormInv

LEMMA FormInvNext == FormInv /\ [FormNext]_formVars => FormInv'
  <1> SUFFICES ASSUME FormInv, [FormNext]_formVars PROVE FormInv'
    OBVIOUS
  <1>1. ASSUME NEW at \in Addresses, Open(at[1], at[2]) \/ ChangeAddress(at[1], at[2])
        PROVE  FormInv'
    BY <1>1, OpenKeeps, ChangeAddressKeeps
  <1>2. CASE LeaveForm \/ SwitchWorkspace
    BY <1>2, LeaveKeeps, SwitchKeeps
  <1>3. CASE UserTypes
    BY <1>3, UserTypesKeeps
  <1>4. CASE Autofill
    BY <1>4, AutofillKeeps
  <1>5. ASSUME NEW s \in Saves, Submit(s) PROVE FormInv'
    BY <1>5, SubmitKeeps
  <1>6. CASE AnswerArrives
    BY <1>6, ServeLoadKeeps, TakeRecordKeeps, ServeFillKeeps, TakeFillKeeps, ServeSaveKeeps,
       FinishSaveKeeps, FailSaveKeeps DEF AnswerArrives
  <1>7. CASE UNCHANGED formVars
    BY <1>7 DEF formVars, address, values, FormInv, FormTypeOK, EditsItsRecord,
       EditSavesItsRecord
  <1> QED  BY <1>1, <1>2, <1>3, <1>4, <1>5, <1>6, <1>7 DEF FormNext

\* Everything the form of an application and its requests hold stays of its kind: a field
\* keeps a value and where it comes from, and the form of an edit has its record.
THEOREM FormTypeCorrect == FormSpec => []FormTypeOK
  <1>1. FormInv => FormTypeOK
    BY DEF FormInv
  <1> QED  BY <1>1, FormInvInit, FormInvNext, PTL DEF FormSpec

\* An edit saves what its record had or what the user typed, however loads, saves and
\* changes of page cross: submit of ApplicationFormPage, for a form that has kept its address.
THEOREM EditsSaveTheirRecord == FormSpec => []EditSavesItsRecord
  <1>1. FormInv => EditSavesItsRecord
    BY DEF FormInv
  <1> QED  BY <1>1, FormInvInit, FormInvNext, PTL DEF FormSpec

\* Only the user, a record that arrives and a form that mounts anew replace what was typed.
\* An autofill does so with a "USD" that stands without pay alone.
LEMMA TypedStays ==
    ASSUME FormInv, [FormNext]_formVars, NEW f \in Fields,
           form[f].from \in {"user", "usd", "wrong"}, form'[f] # form[f]
    PROVE  \/ UserTypes \/ (\E l \in Loads : TakeRecord(l)) \/ ~open
           \/ TakeFill /\ f = Currency /\ form[f] = TypedUSD /\ Unpaid
  <1>1. CASE TakeFill
    <2>1. ~IsBlank(form[f])
      BY DEF IsBlank
    <2>2. form \in [Fields -> Value] /\ form[f] \in Value
      BY DEF FormInv, FormTypeOK, Form
    <2>3. Fills(f)
      BY <1>1, <2>2 DEF TakeFill
    <2>4. f = Currency /\ IsUSD(form[f]) /\ Unpaid
      BY <2>1, <2>3 DEF Fills
    <2>5. form[f].from = "usd"
      BY <2>4 DEF IsUSD
    <2>6. form[f] = TypedUSD
      BY <2>2, <2>5 DEF Value, TypedUSD
    <2> QED  BY <1>1, <2>4, <2>6
  <1>2. form' # form
    OBVIOUS
  <1>3. ASSUME NEW at \in Addresses, Open(at[1], at[2]) \/ ChangeAddress(at[1], at[2])
        PROVE  ~open
    BY <1>2, <1>3 DEF Open, ChangeAddress, values
  <1>4. ~LeaveForm /\ ~SwitchWorkspace /\ ~Autofill /\ \A s \in Saves : ~Submit(s)
    BY <1>2 DEF LeaveForm, SwitchWorkspace, Autofill, Submit, values
  <1>5. /\ \A l \in Loads : ~ServeLoad(l)
        /\ ~ServeFill
        /\ \A s \in Saves : ~ServeSave(s) /\ ~FinishSave(s) /\ ~FailSave(s)
    BY <1>2 DEF ServeLoad, ServeFill, ServeSave, FinishSave, FailSave, values
  <1>6. FormNext
    BY <1>2 DEF formVars, values
  <1> QED  BY <1>1, <1>3, <1>4, <1>5, <1>6 DEF FormNext, AnswerArrives

\* What the user has typed outlives every autofill, however late its answer comes:
\* mergeAutofillFields reads the fields as they are by then.  It takes only a currency of
\* "USD" without pay for its own default, and replaces it although the user typed it.
THEOREM AutofillsKeepWhatIsTyped == FormSpec => TypedIsKept
  <1> DEFINE Kept == \A f \in Fields :
          form[f].from \in {"user", "usd", "wrong"} /\ form'[f] # form[f] =>
              \/ UserTypes \/ (\E l \in Loads : TakeRecord(l)) \/ ~open
              \/ /\ TakeFill /\ f = Currency /\ form[f] = TypedUSD
                 /\ \A p \in Pay : form[p].from \in {"blank", "cleared"}
  <1>1. FormInv /\ [FormNext]_formVars => [Kept]_formVars
    BY TypedStays DEF Unpaid, IsBlank
  <1> QED  BY <1>1, FormInvInit, FormInvNext, PTL DEF FormSpec, TypedIsKept
----------------------------------------------------------------------------
(***************************************************************************)
(* Analysis, for any applications, requests and bounds.  A request that    *)
(* writes either has the panel that sent it waiting, with its button       *)
(* disabled (Watched), so that there is one at a time (OneAtWork), or has  *)
(* been abandoned (LeftBehind): what one has found missing, only an        *)
(* abandoned one can have written since (StillMissing).                    *)
(***************************************************************************)
\* A request that writes, and one that is still about to.
Writes(r) == request[r].kind \in {"generate", "upload"}
AtWork(r) == Writes(r) /\ request[r].step \notin {"idle", "answered"}

\* A request is about an application exactly where it has to be.
Named ==
    /\ screen.at = "tailor" => screen.job \in Jobs
    /\ \A r \in Requests :
          /\ request[r].kind \in {"analysis", "generate"} => request[r].job \in Jobs
          /\ request[r].kind = "upload" => request[r].job = NoJob

\* The panel whose writing request the tab waits for is there, with its button disabled.
Watched ==
    \A r \in Requests : Writes(r) /\ request[r].live =>
        /\ screen.busy
        /\ screen.at = IF request[r].kind = "generate" THEN "tailor" ELSE "profile"
        /\ request[r].kind = "generate" => screen.job = request[r].job

OneAtWork ==
    \A r, q \in Requests :
        Writes(r) /\ request[r].live /\ Writes(q) /\ request[q].live => r = q

\* What writes on without its panel has been abandoned.
LeftBehind ==
    \A r \in Requests : AtWork(r) /\ ~request[r].live => request[r].job \in abandoned

\* What a request has found missing is missing still, unless it crosses an abandoned one.
StillMissing ==
    \A r \in Requests : request[r].step = "found" =>
        /\ request[r].kind = "generate" /\ ~request[r].exists =>
              \/ analysis[request[r].job] = NoAnalysis
              \/ request[r].job \in abandoned
        /\ request[r].kind = "upload" /\ request[r].row = 0 => row = 0 \/ NoJob \in abandoned

AnalysisInv ==
    /\ AnalysisTypeOK /\ Named /\ Watched /\ OneAtWork /\ LeftBehind /\ StillMissing
    /\ ClashesExplained

LEMMA RequestFields ==
    ASSUME NEW q \in RequestState
    PROVE  /\ q.kind \in Kinds \cup {"none"}
           /\ q.step \in {"idle", "sent", "asked", "provided", "found", "written", "answered"}
           /\ q.job \in Jobs \cup {NoJob} /\ q.inputs \in Analysed /\ q.exists \in BOOLEAN
           /\ q.row \in Edits
           /\ q.outcome \in {"none", "ok", "refused", "conflict", "broken", "lost"}
           /\ q.result \in Analysed /\ q.live \in BOOLEAN
  BY DEF RequestState

LEMMA NothingLemma ==
    /\ NoAnalysis \in Analysed /\ 0 \in Edits
    /\ Idle \in RequestState /\ NoPanel \in Screen
    /\ Idle.kind = "none" /\ Idle.step = "idle" /\ Idle.live = FALSE /\ Idle.outcome = "none"
    /\ Idle.job = NoJob
    /\ NoPanel.at = "elsewhere"
  <1>1. 0 \in Edits
    BY AnalysisAssumption DEF Edits
  <1>2. NoAnalysis \in Analysed
    BY <1>1 DEF NoAnalysis, Analysed
  <1>3. Idle \in RequestState /\ NoPanel \in Screen
    BY <1>1, <1>2 DEF Idle, NoPanel, RequestState, Screen
  <1>4. /\ Idle.kind = "none" /\ Idle.step = "idle" /\ Idle.live = FALSE
        /\ Idle.outcome = "none" /\ Idle.job = NoJob
    BY DEF Idle
  <1>5. NoPanel.at = "elsewhere"
    BY DEF NoPanel
  <1> QED  BY <1>1, <1>2, <1>3, <1>4, <1>5

Explained(a) == a \in abandoned \/ (a # NoJob /\ job[a].state = "erased")

\* One request goes on, for the same panel and about the same application.
LEMMA GoesOn ==
    ASSUME AnalysisInv, NEW r \in Requests, NEW o \in RequestState,
           request' = [request EXCEPT ![r] = o],
           o.kind = request[r].kind, o.job = request[r].job, o.live = request[r].live,
           request[r].step \notin {"idle", "answered"},
           UNCHANGED <<job, screen, abandoned>>,
           resume' \in Edits, row' \in Edits, edits' \in Edits, lost' \in 0..MaxLost,
           analysis' \in [Jobs -> Analysed],
           o.outcome = "conflict" => request[r].outcome = "conflict" \/ Explained(o.job),
           StillMissing'
    PROVE  AnalysisInv'
  <1>0. /\ AnalysisTypeOK /\ Named /\ Watched /\ OneAtWork /\ LeftBehind /\ ClashesExplained
        /\ request \in [Requests -> RequestState]
    BY DEF AnalysisInv, AnalysisTypeOK
  <1>1. /\ request'[r] = o /\ \A q \in Requests \ {r} : request'[q] = request[q]
        /\ request' \in [Requests -> RequestState]
    BY <1>0
  <1>2. AnalysisTypeOK'
    BY <1>0, <1>1 DEF AnalysisTypeOK
  <1>3. \A q \in Requests : /\ request'[q].kind = request[q].kind
                            /\ request'[q].job = request[q].job
                            /\ request'[q].live = request[q].live
    BY <1>1
  <1>4. Named'
    BY <1>0, <1>3 DEF Named
  <1>5. Watched'
    BY <1>0, <1>3 DEF Watched, Writes
  <1>6. OneAtWork'
    BY <1>0, <1>3 DEF OneAtWork, Writes
  <1>7. \A q \in Requests : AtWork(q)' => AtWork(q)
    BY <1>1, <1>3 DEF AtWork, Writes
  <1>8. LeftBehind'
    BY <1>0, <1>3, <1>7 DEF LeftBehind
  <1>9. ClashesExplained'
    BY <1>0, <1>1 DEF ClashesExplained, Explained
  <1> QED  BY <1>2, <1>4, <1>5, <1>6, <1>8, <1>9 DEF AnalysisInv

\* What was found missing stays missing where nothing is written.
LEMMA MissingStays ==
    ASSUME AnalysisInv, NEW r \in Requests, \A q \in Requests \ {r} : request'[q] = request[q],
           request'[r].step # "found", abandoned' = abandoned,
           \A a \in Jobs : analysis'[a] = analysis[a] \/ analysis'[a] = NoAnalysis,
           row' = row \/ row' = 0
    PROVE  StillMissing'
  <1>1. StillMissing /\ Named
    BY DEF AnalysisInv
  <1>2. ASSUME NEW q \in Requests, request'[q].step = "found"
        PROVE  /\ request'[q].kind = "generate" /\ ~request'[q].exists =>
                     \/ analysis'[request'[q].job] = NoAnalysis
                     \/ request'[q].job \in abandoned'
               /\ request'[q].kind = "upload" /\ request'[q].row = 0 =>
                     row' = 0 \/ NoJob \in abandoned'
    <2>1. q # r /\ request'[q] = request[q]
      BY <1>2
    <2> QED  BY <1>1, <1>2, <2>1 DEF StillMissing, Named
  <1> QED  BY <1>2 DEF StillMissing

LEMMA FinishLemma ==
    ASSUME NEW r \in Requests, request \in [Requests -> RequestState], lost \in 0..MaxLost,
           NEW outcome \in {"ok", "refused", "conflict", "broken"}, NEW result \in Analysed,
           Finish(r, outcome, result)
    PROVE  /\ lost' \in 0..MaxLost
           /\ \E o \in RequestState :
                 /\ request' = [request EXCEPT ![r] = o]
                 /\ o.kind = request[r].kind /\ o.job = request[r].job
                 /\ o.live = request[r].live /\ o.step = "answered"
                 /\ o.outcome \in {outcome, "lost"}
  <1>1. PICK got \in {outcome, "lost"} :
            /\ got # outcome => lost < MaxLost
            /\ lost' = IF got # outcome THEN lost + 1 ELSE lost
            /\ request' = [request EXCEPT ![r].step = "answered", ![r].outcome = got,
                                          ![r].result = result]
    BY DEF Finish
  <1> DEFINE q == request[r]
             o == [q EXCEPT !.step = "answered", !.outcome = got, !.result = result]
  <1>2. lost' \in 0..MaxLost
    BY <1>1, AnalysisAssumption
  <1>3. request' = [request EXCEPT ![r] = o]
    BY <1>1
  <1>4. q \in RequestState
    OBVIOUS
  <1>5. /\ o \in RequestState /\ o.kind = q.kind /\ o.job = q.job /\ o.live = q.live
        /\ o.step = "answered" /\ o.outcome = got
    <2> HIDE DEF q
    <2> QED  BY <1>4 DEF RequestState
  <1> HIDE DEF o
  <1> QED  BY <1>2, <1>3, <1>5

\* A request that is answered and has written nothing, or has removed the resume.
LEMMA FinishKeeps ==
    ASSUME AnalysisInv, NEW r \in Requests, request[r].step \notin {"idle", "answered"},
           NEW outcome \in {"ok", "refused", "conflict", "broken"}, NEW result \in Analysed,
           Finish(r, outcome, result),
           outcome = "conflict" => Explained(request[r].job),
           UNCHANGED <<job, analysis, edits, screen, abandoned>>,
           row' = row \/ row' = 0, resume' \in Edits
    PROVE  AnalysisInv'
  <1>1. /\ request \in [Requests -> RequestState] /\ lost \in 0..MaxLost
        /\ analysis \in [Jobs -> Analysed] /\ row \in Edits /\ edits \in Edits
    BY DEF AnalysisInv, AnalysisTypeOK
  <1>2. lost' \in 0..MaxLost
    BY <1>1, FinishLemma
  <1>3. PICK o \in RequestState :
                 /\ request' = [request EXCEPT ![r] = o]
                 /\ o.kind = request[r].kind /\ o.job = request[r].job
                 /\ o.live = request[r].live /\ o.step = "answered"
                 /\ o.outcome \in {outcome, "lost"}
    BY <1>1, FinishLemma
  <1>4. /\ request'[r] = o /\ \A q \in Requests \ {r} : request'[q] = request[q]
    BY <1>1, <1>3
  <1>5. request'[r].step # "found"
    BY <1>3, <1>4
  <1>6. StillMissing'
    BY <1>4, <1>5, MissingStays
  <1>7. row' \in Edits /\ edits' \in Edits /\ analysis' \in [Jobs -> Analysed]
    BY <1>1, NothingLemma
  <1>8. o.outcome = "conflict" => request[r].outcome = "conflict" \/ Explained(o.job)
    BY <1>3
  <1> QED  BY <1>2, <1>3, <1>6, <1>7, <1>8, GoesOn

\* Of two requests that are about to write the same thing, one has been abandoned.
LEMMA CrossedLemma ==
    ASSUME AnalysisInv, NEW r \in Requests, NEW q \in Requests, r # q, AtWork(r), AtWork(q),
           request[q].job = request[r].job
    PROVE  request[q].job \in abandoned
  BY DEF AnalysisInv, OneAtWork, LeftBehind, AtWork

LEMMA ReadsKeep ==
    ASSUME AnalysisInv, NEW r \in Requests, ServeAnalysis(r) \/ RefuseFile(r) \/ ServeResume(r)
    PROVE  AnalysisInv'
  <1>1. /\ analysis \in [Jobs -> Analysed] /\ row \in Edits /\ resume \in Edits
        /\ request[r] \in RequestState
    BY DEF AnalysisInv, AnalysisTypeOK
  <1>2. /\ request[r].step \notin {"idle", "answered"}
        /\ UNCHANGED <<job, analysis, edits, screen, abandoned, row, resume>>
    BY DEF ServeAnalysis, RefuseFile, ServeResume, At, database
  <1>3. \E outcome \in {"ok", "refused", "conflict", "broken"}, result \in Analysed :
           Finish(r, outcome, result) /\ outcome # "conflict"
    <2>1. CASE ServeAnalysis(r)
      <3>1. request[r].kind = "analysis"
        BY <2>1 DEF ServeAnalysis, At
      <3>2. request[r].job \in Jobs
        BY <3>1 DEF AnalysisInv, Named
      <3> QED  BY <1>1, <2>1, <3>2, NothingLemma DEF ServeAnalysis
    <2>2. CASE RefuseFile(r)
      BY <2>2, NothingLemma DEF RefuseFile
    <2>3. CASE ServeResume(r)
      <3>1. [NoAnalysis EXCEPT !.resume = resume] \in Analysed
        BY <1>1, NothingLemma DEF Analysed
      <3> QED  BY <2>3, <3>1 DEF ServeResume
    <2> QED  BY <2>1, <2>2, <2>3
  <1> QED  BY <1>1, <1>2, <1>3, FinishKeeps

LEMMA ReadInputsKeeps ==
    ASSUME AnalysisInv, NEW r \in Requests, ReadInputs(r)
    PROVE  AnalysisInv'
  <1> DEFINE a == request[r].job
  <1>1. /\ analysis \in [Jobs -> Analysed] /\ row \in Edits /\ resume \in Edits
        /\ request \in [Requests -> RequestState] /\ job \in [Jobs -> Job]
        /\ edits \in Edits /\ lost \in 0..MaxLost
    BY DEF AnalysisInv, AnalysisTypeOK
  <1>2. /\ request[r].step \notin {"idle", "answered"} /\ request[r].kind = "generate"
        /\ UNCHANGED <<job, analysis, edits, screen, abandoned, row, resume>>
    BY DEF ReadInputs, At, database
  <1>3. a \in Jobs
    BY <1>2 DEF AnalysisInv, Named
  <1>4. CASE Finish(r, "refused", NoAnalysis)
    BY <1>1, <1>2, <1>4, NothingLemma, FinishKeeps
  <1>5. ASSUME request' = [request EXCEPT ![r].step = "asked",
                   ![r].inputs = [description |-> job[a].description, resume |-> resume]],
               UNCHANGED lost
        PROVE  AnalysisInv'
    <2> DEFINE inputs == [description |-> job[a].description, resume |-> resume]
               q == request[r]
               o == [q EXCEPT !.step = "asked", !.inputs = inputs]
    <2>1. inputs \in Analysed
      BY <1>1, <1>3 DEF Job, Analysed
    <2>2. request' = [request EXCEPT ![r] = o]
      BY <1>5
    <2>3. q \in RequestState
      BY <1>1
    <2>4. /\ o \in RequestState /\ o.kind = q.kind /\ o.job = q.job /\ o.live = q.live
          /\ o.step = "asked" /\ o.outcome = q.outcome
      <3> HIDE DEF q, inputs
      <3> QED  BY <2>1, <2>3 DEF RequestState
    <2> HIDE DEF o
    <2>5. request'[r] = o /\ \A p \in Requests \ {r} : request'[p] = request[p]
      BY <1>1, <2>2
    <2>6. StillMissing'
      BY <1>2, <2>4, <2>5, MissingStays
    <2>7. o.outcome = "conflict" => request[r].outcome = "conflict" \/ Explained(o.job)
      BY <2>4
    <2> QED  BY <1>1, <1>2, <1>5, <2>2, <2>4, <2>6, <2>7, GoesOn
  <1> QED  BY <1>4, <1>5 DEF ReadInputs

\* A request goes on by its step alone, or is answered without a word of its own.
LEMMA StepKeeps ==
    ASSUME AnalysisInv, NEW r \in Requests, request[r].step \notin {"idle", "answered"},
           NEW step \in {"provided", "written", "answered"},
           NEW outcome \in {request[r].outcome, "refused", "lost"}, NEW found \in Edits,
           request' = [request EXCEPT ![r] = [request[r] EXCEPT !.step = step,
                                                 !.outcome = outcome, !.row = found]],
           UNCHANGED <<job, screen, abandoned>>,
           lost' \in 0..MaxLost,
           resume' \in Edits, row' \in Edits, edits' \in Edits, analysis' \in [Jobs -> Analysed],
           StillMissing'
    PROVE  AnalysisInv'
  <1> DEFINE q == request[r]
             o == [q EXCEPT !.step = step, !.outcome = outcome, !.row = found]
  <1>1. q \in RequestState
    BY DEF AnalysisInv, AnalysisTypeOK
  <1>2. request' = [request EXCEPT ![r] = o]
    OBVIOUS
  <1>3. /\ o \in RequestState /\ o.kind = q.kind /\ o.job = q.job /\ o.live = q.live
        /\ o.outcome = outcome
    <2>1. outcome \in {q.outcome, "refused", "lost"}
      OBVIOUS
    <2> HIDE DEF q
    <2> QED  BY <1>1, <2>1 DEF RequestState
  <1> HIDE DEF o
  <1>4. o.outcome = "conflict" => request[r].outcome = "conflict" \/ Explained(o.job)
    BY <1>3
  <1> QED  BY <1>2, <1>3, <1>4, GoesOn

LEMMA ProvideKeeps ==
    ASSUME AnalysisInv, NEW r \in Requests, Provide(r) \/ LoseRequest(r)
    PROVE  AnalysisInv'
  <1> DEFINE q == request[r]
             To(step, outcome) == [q EXCEPT !.step = step, !.outcome = outcome, !.row = q.row]
  <1>1. /\ analysis \in [Jobs -> Analysed] /\ row \in Edits /\ resume \in Edits
        /\ request \in [Requests -> RequestState] /\ edits \in Edits /\ lost \in 0..MaxLost
    BY DEF AnalysisInv, AnalysisTypeOK
  <1>2. /\ q.step \notin {"idle", "answered"}
        /\ UNCHANGED <<job, analysis, edits, screen, abandoned, row, resume>>
    BY DEF Provide, LoseRequest, At, database
  <1>3. lost' \in 0..MaxLost
    BY <1>1, AnalysisAssumption DEF Provide, LoseRequest, Proceed
  <1>4. \E step \in {"provided", "written", "answered"},
           outcome \in {q.outcome, "refused", "lost"} :
           request' = [request EXCEPT ![r] = To(step, outcome)]
    <2>1. CASE Proceed(r, "provided")
      <3>1. [q EXCEPT !.step = "provided"] = To("provided", q.outcome)
        <4>1. q \in RequestState
          BY <1>1
        <4> HIDE DEF q
        <4> QED  BY <4>1 DEF RequestState
      <3>2. request' = [request EXCEPT ![r] = [q EXCEPT !.step = "provided"]]
        BY <2>1 DEF Proceed
      <3> QED  BY <3>1, <3>2
    <2>2. ASSUME NEW outcome \in {"refused", "lost"},
                 request' = [request EXCEPT ![r].step = "answered", ![r].outcome = outcome]
          PROVE  request' = [request EXCEPT ![r] = To("answered", outcome)]
      <3>1. [q EXCEPT !.step = "answered", !.outcome = outcome] = To("answered", outcome)
        <4>1. q \in RequestState
          BY <1>1
        <4> HIDE DEF q
        <4> QED  BY <4>1 DEF RequestState
      <3>2. request' = [request EXCEPT ![r] = [q EXCEPT !.step = "answered",
                                                        !.outcome = outcome]]
        BY <2>2
      <3> QED  BY <3>1, <3>2
    <2> QED  BY <2>1, <2>2 DEF Provide, LoseRequest
  <1>5. q.row \in Edits
    BY <1>1 DEF RequestState
  <1>6. PICK step \in {"provided", "written", "answered"},
             outcome \in {q.outcome, "refused", "lost"} :
           request' = [request EXCEPT ![r] = To(step, outcome)]
    BY <1>4
  <1>7. request'[r].step # "found"
    <2>1. q \in RequestState
      BY <1>1
    <2>2. To(step, outcome).step = step
      <3> HIDE DEF q
      <3> QED  BY <2>1 DEF RequestState
    <2> HIDE DEF To
    <2> QED  BY <1>1, <1>6, <2>2
  <1>8. \A p \in Requests \ {r} : request'[p] = request[p]
    BY <1>1, <1>6
  <1>9. StillMissing'
    BY <1>2, <1>7, <1>8, MissingStays
  <1>10. row' \in Edits /\ resume' \in Edits /\ edits' \in Edits /\ analysis' \in [Jobs -> Analysed]
    BY <1>1, <1>2
  <1> QED  BY <1>2, <1>3, <1>5, <1>6, <1>9, <1>10, StepKeeps

LEMMA LookUpKeeps ==
    ASSUME AnalysisInv, NEW r \in Requests, LookUp(r)
    PROVE  AnalysisInv'
  <1> DEFINE q == request[r]
             exists == q.kind = "generate" /\ analysis[q.job] # NoAnalysis
             found == IF q.kind = "generate" THEN 0 ELSE row
             o == [q EXCEPT !.step = "found", !.exists = exists, !.row = found]
  <1>1. /\ analysis \in [Jobs -> Analysed] /\ row \in Edits /\ resume \in Edits
        /\ request \in [Requests -> RequestState] /\ edits \in Edits /\ lost \in 0..MaxLost
    BY DEF AnalysisInv, AnalysisTypeOK
  <1>2. /\ q.step \notin {"idle", "answered"}
        /\ UNCHANGED <<job, analysis, edits, screen, abandoned, row, resume, lost>>
    BY DEF LookUp, At, database
  <1>3. request' = [request EXCEPT ![r] = o]
    BY <1>1 DEF LookUp
  <1>4. found \in Edits /\ exists \in BOOLEAN /\ q \in RequestState
    BY <1>1, NothingLemma
  <1>5. /\ o \in RequestState /\ o.kind = q.kind /\ o.job = q.job /\ o.live = q.live
        /\ o.step = "found" /\ o.outcome = q.outcome /\ o.exists = exists /\ o.row = found
    <2> HIDE DEF q, exists, found
    <2> QED  BY <1>4 DEF RequestState
  <1>6. q.kind = "generate" /\ ~exists => analysis[q.job] = NoAnalysis
    OBVIOUS
  <1>7. q.kind = "upload" /\ found = 0 => row = 0
    OBVIOUS
  <1> HIDE DEF o, exists, found
  <1>8. request'[r] = o /\ \A p \in Requests \ {r} : request'[p] = request[p]
    BY <1>1, <1>3
  <1>9. StillMissing'
    <2> SUFFICES ASSUME NEW p \in Requests, request'[p].step = "found"
                 PROVE  /\ request'[p].kind = "generate" /\ ~request'[p].exists =>
                              \/ analysis'[request'[p].job] = NoAnalysis
                              \/ request'[p].job \in abandoned'
                        /\ request'[p].kind = "upload" /\ request'[p].row = 0 =>
                              row' = 0 \/ NoJob \in abandoned'
      BY DEF StillMissing
    <2>1. CASE p = r
      BY <1>2, <1>5, <1>6, <1>7, <1>8, <2>1
    <2>2. CASE p # r
      BY <1>2, <1>8, <2>2 DEF AnalysisInv, StillMissing
    <2> QED  BY <2>1, <2>2
  <1>10. o.outcome = "conflict" => request[r].outcome = "conflict" \/ Explained(o.job)
    BY <1>5
  <1> QED  BY <1>1, <1>2, <1>3, <1>5, <1>9, <1>10, GoesOn

LEMMA ReadBackKeeps ==
    ASSUME AnalysisInv, NEW r \in Requests, ReadBack(r)
    PROVE  AnalysisInv'
  <1> DEFINE read == IF request[r].kind = "generate" THEN analysis[request[r].job]
                     ELSE IF row = request[r].row THEN [NoAnalysis EXCEPT !.resume = resume]
                     ELSE NoAnalysis
  <1>1. /\ analysis \in [Jobs -> Analysed] /\ resume \in Edits
    BY DEF AnalysisInv, AnalysisTypeOK
  <1>2. /\ request[r].step \notin {"idle", "answered"}
        /\ UNCHANGED <<job, analysis, edits, screen, abandoned, row, resume>>
    BY DEF ReadBack, database
  <1>3. [NoAnalysis EXCEPT !.resume = resume] \in Analysed
    BY <1>1, NothingLemma DEF Analysed
  <1>4. read \in Analysed
    BY <1>1, <1>3, NothingLemma DEF AnalysisInv, Named
  <1>5. Finish(r, IF read = NoAnalysis THEN "broken" ELSE "ok", read)
    BY DEF ReadBack
  <1>6. resume' \in Edits /\ row' = row
    BY <1>1, <1>2
  <1> HIDE DEF read
  <1>7. CASE read = NoAnalysis
    <2>1. Finish(r, "broken", read)
      BY <1>5, <1>7
    <2> QED  BY <1>2, <1>4, <1>6, <2>1, FinishKeeps
  <1>8. CASE read # NoAnalysis
    <2>1. Finish(r, "ok", read)
      BY <1>5, <1>8
    <2> QED  BY <1>2, <1>4, <1>6, <2>1, FinishKeeps
  <1> QED  BY <1>7, <1>8

LEMMA WriteAnalysisKeeps ==
    ASSUME AnalysisInv, NEW r \in Requests, WriteAnalysis(r)
    PROVE  AnalysisInv'
  <1> DEFINE q == request[r]
             a == q.job
             gone == analysis[a] = NoAnalysis
             erased == job[a].state = "erased"
  <1>1. /\ analysis \in [Jobs -> Analysed] /\ row \in Edits /\ resume \in Edits
        /\ request \in [Requests -> RequestState] /\ edits \in Edits /\ lost \in 0..MaxLost
        /\ StillMissing
    BY DEF AnalysisInv, AnalysisTypeOK
  <1>2. /\ q.step = "found" /\ q.kind = "generate"
        /\ UNCHANGED <<job, edits, screen, abandoned, row, resume>>
    BY DEF WriteAnalysis, At
  <1>3. a \in Jobs /\ q \in RequestState
    BY <1>1, <1>2 DEF AnalysisInv, Named
  <1>4. CASE Finish(r, "broken", NoAnalysis) /\ UNCHANGED analysis
    BY <1>1, <1>2, <1>4, NothingLemma, FinishKeeps
  <1>5. ASSUME ~q.exists, ~gone \/ erased,
               Finish(r, "conflict", NoAnalysis), UNCHANGED analysis
        PROVE  AnalysisInv'
    <2>1. Explained(a)
      <3>1. CASE ~gone
        BY <1>1, <1>2, <1>5, <3>1 DEF StillMissing, Explained
      <3>2. CASE erased
        BY <1>3, <3>2, AnalysisAssumption DEF Explained
      <3> QED  BY <1>5, <3>1, <3>2
    <2> QED  BY <1>1, <1>2, <1>5, <2>1, NothingLemma, FinishKeeps
  <1>6. ASSUME analysis' = [analysis EXCEPT ![a] = q.inputs], Proceed(r, "written")
        PROVE  AnalysisInv'
    <2>1. [q EXCEPT !.step = "written"]
              = [q EXCEPT !.step = "written", !.outcome = q.outcome, !.row = q.row]
      <3> HIDE DEF q
      <3> QED  BY <1>3 DEF RequestState
    <2>2. request' = [request EXCEPT ![r] = [q EXCEPT !.step = "written"]] /\ UNCHANGED lost
      BY <1>6 DEF Proceed
    <2>3. q.row \in Edits /\ q.inputs \in Analysed
      BY <1>3, RequestFields
    <2>4. analysis' \in [Jobs -> Analysed]
      BY <1>1, <1>6, <2>3
    <2>5. request'[r].step = "written" /\ \A p \in Requests \ {r} : request'[p] = request[p]
      BY <1>1, <1>3, <2>2 DEF RequestState
    <2>6. StillMissing'
      <3> SUFFICES ASSUME NEW p \in Requests, request'[p].step = "found"
                   PROVE  /\ request'[p].kind = "generate" /\ ~request'[p].exists =>
                                \/ analysis'[request'[p].job] = NoAnalysis
                                \/ request'[p].job \in abandoned'
                          /\ request'[p].kind = "upload" /\ request'[p].row = 0 =>
                                row' = 0 \/ NoJob \in abandoned'
        BY DEF StillMissing
      <3>1. p # r /\ request'[p] = request[p]
        BY <2>5
      <3>2. CASE request[p].job # a \/ request[p].kind # "generate"
        BY <1>1, <1>2, <1>6, <3>1, <3>2 DEF StillMissing, AnalysisInv, Named
      <3>3. CASE request[p].job = a /\ request[p].kind = "generate"
        <4>1. AtWork(p) /\ AtWork(r)
          BY <1>2, <3>1, <3>3 DEF AtWork, Writes
        <4>2. request[p].job \in abandoned
          BY <3>1, <3>3, <4>1, CrossedLemma
        <4> QED  BY <1>2, <3>1, <3>3, <4>2
      <3> QED  BY <3>2, <3>3
    <2>7. request' = [request EXCEPT ![r] =
              [q EXCEPT !.step = "written", !.outcome = q.outcome, !.row = q.row]]
      BY <2>1, <2>2
    <2> QED  BY <1>1, <1>2, <2>2, <2>3, <2>4, <2>6, <2>7, StepKeeps
  <1> QED  BY <1>4, <1>5, <1>6 DEF WriteAnalysis

LEMMA WriteResumeKeeps ==
    ASSUME AnalysisInv, NEW r \in Requests, WriteResume(r)
    PROVE  AnalysisInv'
  <1> DEFINE q == request[r]
  <1>1. /\ analysis \in [Jobs -> Analysed] /\ row \in Edits /\ resume \in Edits
        /\ request \in [Requests -> RequestState] /\ edits \in Edits /\ lost \in 0..MaxLost
        /\ StillMissing
    BY DEF AnalysisInv, AnalysisTypeOK
  <1>2. /\ q.step = "found" /\ q.kind = "upload" /\ edits < MaxEdits
        /\ UNCHANGED <<job, analysis, screen, abandoned>>
    BY DEF WriteResume, At
  <1>3. q.job = NoJob /\ q \in RequestState
    BY <1>1, <1>2 DEF AnalysisInv, Named
  <1>4. ASSUME UNCHANGED <<resume, row, edits>>, row # q.row,
               Finish(r, IF q.row = 0 THEN "conflict" ELSE "broken", NoAnalysis)
        PROVE  AnalysisInv'
    <2>1. CASE q.row = 0
      <3>1. Explained(q.job)
        BY <1>1, <1>2, <1>3, <1>4, <2>1 DEF StillMissing, Explained
      <3>2. Finish(r, "conflict", NoAnalysis)
        BY <1>4, <2>1
      <3> QED  BY <1>1, <1>2, <1>4, <3>1, <3>2, NothingLemma, FinishKeeps
    <2>2. CASE q.row # 0
      <3>1. Finish(r, "broken", NoAnalysis)
        BY <1>4, <2>2
      <3> QED  BY <1>1, <1>2, <1>4, <3>1, NothingLemma, FinishKeeps
    <2> QED  BY <2>1, <2>2
  <1>5. ASSUME edits' = edits + 1, resume' = edits + 1,
               row' = IF row = 0 THEN edits + 1 ELSE row,
               request' = [request EXCEPT ![r].step = "written", ![r].row = row'],
               UNCHANGED lost
        PROVE  AnalysisInv'
    <2>1. edits' \in Edits /\ resume' \in Edits /\ row' \in Edits
      BY <1>1, <1>2, <1>5, AnalysisAssumption DEF Edits
    <2>2. PICK found \in Edits : found = row'
      BY <2>1
    <2>3. [q EXCEPT !.step = "written", !.row = found]
              = [q EXCEPT !.step = "written", !.outcome = q.outcome, !.row = found]
      <3> HIDE DEF q
      <3> QED  BY <1>3 DEF RequestState
    <2>4. request' = [request EXCEPT ![r] = [q EXCEPT !.step = "written", !.row = found]]
      BY <1>5, <2>2
    <2>5. request' = [request EXCEPT ![r] =
              [q EXCEPT !.step = "written", !.outcome = q.outcome, !.row = found]]
      BY <2>3, <2>4
    <2>6. request'[r].step = "written" /\ \A p \in Requests \ {r} : request'[p] = request[p]
      BY <1>1, <1>3, <2>4 DEF RequestState
    <2>7. StillMissing'
      <3> SUFFICES ASSUME NEW p \in Requests, request'[p].step = "found"
                   PROVE  /\ request'[p].kind = "generate" /\ ~request'[p].exists =>
                                \/ analysis'[request'[p].job] = NoAnalysis
                                \/ request'[p].job \in abandoned'
                          /\ request'[p].kind = "upload" /\ request'[p].row = 0 =>
                                row' = 0 \/ NoJob \in abandoned'
        BY DEF StillMissing
      <3>1. p # r /\ request'[p] = request[p]
        BY <2>6
      <3>2. CASE request[p].kind # "upload"
        BY <1>1, <1>2, <3>1, <3>2 DEF StillMissing
      <3>3. CASE request[p].kind = "upload"
        <4>1. AtWork(p) /\ AtWork(r)
          BY <1>2, <3>1, <3>3 DEF AtWork, Writes
        <4>2. request[p].job = NoJob
          BY <3>3 DEF AnalysisInv, Named
        <4>3. request[p].job \in abandoned
          BY <1>3, <3>1, <4>1, <4>2, CrossedLemma
        <4> QED  BY <1>2, <3>1, <3>3, <4>2, <4>3
      <3> QED  BY <3>2, <3>3
    <2>8. analysis' \in [Jobs -> Analysed] /\ lost' \in 0..MaxLost
      BY <1>1, <1>2, <1>5
    <2> QED  BY <1>1, <1>2, <2>1, <2>5, <2>7, <2>8, StepKeeps
  <1> QED  BY <1>2, <1>4, <1>5 DEF WriteResume

LEMMA DeleteResumeKeeps ==
    ASSUME AnalysisInv, NEW r \in Requests, DeleteResume(r)
    PROVE  AnalysisInv'
  <1>1. row \in Edits /\ resume \in Edits
    BY DEF AnalysisInv, AnalysisTypeOK
  <1>2. /\ request[r].step \notin {"idle", "answered"}
        /\ UNCHANGED <<job, analysis, edits, screen, abandoned>>
        /\ Finish(r, "ok", NoAnalysis)
    BY DEF DeleteResume, At
  <1>3. resume' \in Edits /\ (row' = row \/ row' = 0)
    BY <1>1, NothingLemma DEF DeleteResume
  <1> QED  BY <1>2, <1>3, NothingLemma, FinishKeeps

\* The tab waits for nothing that writes.
NothingWatched == \A q \in Requests : ~(Writes(q) /\ request[q].live)

\* A click sends a request: one that writes only if the tab waits for no other.
LEMMA PostsKeeps ==
    ASSUME AnalysisInv, NEW r \in Requests, NEW kind \in Kinds, NEW a \in Jobs \cup {NoJob},
           Posts(r, kind, a), UNCHANGED <<database, lost, abandoned>>,
           kind \in {"analysis", "generate"} => a \in Jobs,
           kind = "upload" => a = NoJob,
           screen' \in Screen, screen'.at = "tailor" => screen'.job \in Jobs,
           \/ /\ NothingWatched
              /\ kind \in {"generate", "upload"} =>
                    /\ screen'.busy
                    /\ screen'.at = IF kind = "generate" THEN "tailor" ELSE "profile"
                    /\ kind = "generate" => screen'.job = a
           \/ /\ kind \notin {"generate", "upload"}
              /\ screen'.busy = screen.busy /\ screen'.at = screen.at /\ screen'.job = screen.job
    PROVE  AnalysisInv'
  <1>0. /\ AnalysisTypeOK /\ Named /\ Watched /\ OneAtWork /\ LeftBehind /\ ClashesExplained
        /\ request \in [Requests -> RequestState]
        /\ UNCHANGED <<job, resume, row, analysis, edits, lost, abandoned>>
    BY DEF AnalysisInv, AnalysisTypeOK, database
  <1> DEFINE o == [Idle EXCEPT !.kind = kind, !.step = "sent", !.job = a, !.live = TRUE]
  <1>a. request[r] = Idle /\ request' = [request EXCEPT ![r] = o]
    BY DEF Posts
  <1>1. /\ o \in RequestState
        /\ o.kind = kind /\ o.job = a /\ o.step = "sent"
        /\ o.live = TRUE /\ o.outcome = "none"
    BY NothingLemma DEF RequestState
  <1> HIDE DEF o
  <1>2. /\ request'[r] = o /\ \A q \in Requests \ {r} : request'[q] = request[q]
        /\ request' \in [Requests -> RequestState]
    BY <1>0, <1>1, <1>a
  <1>3. AnalysisTypeOK'
    BY <1>0, <1>2 DEF AnalysisTypeOK
  <1>4. Named'
    BY <1>0, <1>1, <1>2 DEF Named
  <1>5. Watched'
    BY <1>0, <1>1, <1>2 DEF Watched, NothingWatched, Writes
  <1>6. OneAtWork'
    BY <1>0, <1>1, <1>2 DEF OneAtWork, NothingWatched, Writes
  <1>7. LeftBehind'
    BY <1>0, <1>1, <1>2 DEF LeftBehind, AtWork, Writes
  <1>8. StillMissing'
    <2>1. request'[r].step # "found"
      BY <1>1, <1>2
    <2> QED  BY <1>0, <1>2, <2>1, MissingStays
  <1>9. ClashesExplained'
    BY <1>0, <1>1, <1>2 DEF ClashesExplained
  <1> QED  BY <1>3, <1>4, <1>5, <1>6, <1>7, <1>8, <1>9 DEF AnalysisInv

LEMMA OpenTailorKeeps ==
    ASSUME AnalysisInv, NEW r \in Requests, NEW a \in Jobs, OpenTailor(r, a)
    PROVE  AnalysisInv'
  <1> DEFINE described == job[a].description # 0
             s == [NoPanel EXCEPT !.at = "tailor", !.job = a, !.loading = TRUE,
                                  !.described = described]
  <1>1. screen' = s
    BY DEF OpenTailor
  <1>2. described \in BOOLEAN
    OBVIOUS
  <1>3. s \in Screen /\ s.at = "tailor" /\ s.job = a
    <2> HIDE DEF described
    <2> QED  BY <1>2, NothingLemma DEF Screen
  <1> HIDE DEF s
  <1>4. NothingWatched
    BY DEF OpenTailor, AnalysisInv, Watched, NothingWatched
  <1>5. /\ Posts(r, "analysis", a) /\ UNCHANGED <<database, lost, abandoned>>
        /\ "analysis" \in Kinds
    BY DEF OpenTailor, Kinds
  <1> QED  BY <1>1, <1>3, <1>4, <1>5, PostsKeeps

LEMMA OpenProfileKeeps ==
    ASSUME AnalysisInv, NEW r \in Requests, OpenProfile(r)
    PROVE  AnalysisInv'
  <1> DEFINE s == [NoPanel EXCEPT !.at = "profile", !.loading = TRUE]
  <1>1. screen' = s
    BY DEF OpenProfile
  <1>2. s \in Screen /\ s.at = "profile"
    BY NothingLemma DEF Screen
  <1> HIDE DEF s
  <1>3. NothingWatched
    BY DEF OpenProfile, AnalysisInv, Watched, NothingWatched
  <1>4. /\ Posts(r, "resume", NoJob) /\ UNCHANGED <<database, lost, abandoned>>
        /\ "resume" \in Kinds
    BY DEF OpenProfile, Kinds
  <1> QED  BY <1>1, <1>2, <1>3, <1>4, PostsKeeps

LEMMA BusyLemma ==
    ASSUME screen \in Screen, NEW busy \in BOOLEAN,
           screen' = [screen EXCEPT !.busy = busy, !.failed = FALSE]
    PROVE  /\ screen' \in Screen /\ screen'.busy = busy
           /\ screen'.at = screen.at /\ screen'.job = screen.job
  BY DEF Screen

LEMMA WritersKeep ==
    ASSUME AnalysisInv, NEW r \in Requests, Generate(r) \/ Upload(r)
    PROVE  AnalysisInv'
  <1>1. screen \in Screen /\ (screen.at = "tailor" => screen.job \in Jobs)
    BY DEF AnalysisInv, AnalysisTypeOK, Named
  <1>2. ~screen.busy
    BY DEF Generate, Upload, MayGenerate
  <1>3. NothingWatched
    BY <1>2 DEF AnalysisInv, Watched, NothingWatched
  <1>4. screen' = [screen EXCEPT !.busy = TRUE, !.failed = FALSE]
    BY DEF Generate, Upload
  <1>5. /\ screen' \in Screen /\ screen'.busy = TRUE
        /\ screen'.at = screen.at /\ screen'.job = screen.job
    BY <1>1, <1>4, BusyLemma
  <1>6. UNCHANGED <<database, lost, abandoned>> /\ {"generate", "upload"} \subseteq Kinds
    BY DEF Generate, Upload, Kinds
  <1>7. CASE Generate(r)
    <2>1. screen.at = "tailor" /\ Posts(r, "generate", screen.job) /\ screen.job \in Jobs
      BY <1>1, <1>7 DEF Generate
    <2> QED  BY <1>1, <1>3, <1>5, <1>6, <2>1, PostsKeeps
  <1>8. CASE Upload(r)
    <2>1. screen.at = "profile" /\ Posts(r, "upload", NoJob)
      BY <1>8 DEF Upload
    <2> QED  BY <1>1, <1>3, <1>5, <1>6, <2>1, PostsKeeps
  <1> QED  BY <1>7, <1>8

LEMMA RemoveKeeps ==
    ASSUME AnalysisInv, NEW r \in Requests, Remove(r)
    PROVE  AnalysisInv'
  <1>1. screen \in Screen /\ (screen.at = "tailor" => screen.job \in Jobs)
    BY DEF AnalysisInv, AnalysisTypeOK, Named
  <1>2. screen' = [screen EXCEPT !.failed = FALSE]
    BY DEF Remove
  <1>3. /\ screen' \in Screen /\ screen'.busy = screen.busy
        /\ screen'.at = screen.at /\ screen'.job = screen.job
    BY <1>1, <1>2 DEF Screen
  <1>4. /\ Posts(r, "remove", NoJob) /\ UNCHANGED <<database, lost, abandoned>>
        /\ "remove" \in Kinds
    BY DEF Remove, Kinds
  <1> QED  BY <1>1, <1>3, <1>4, PostsKeeps

LEMMA LeavePanelKeeps ==
    ASSUME AnalysisInv, LeavePanel
    PROVE  AnalysisInv'
  <1>0. /\ AnalysisTypeOK /\ Named /\ LeftBehind /\ ClashesExplained /\ StillMissing
        /\ request \in [Requests -> RequestState]
        /\ UNCHANGED <<job, resume, row, analysis, edits, lost>>
    BY DEF AnalysisInv, AnalysisTypeOK, LeavePanel, database
  <1>1. request' = [r \in Requests |-> [request[r] EXCEPT !.live = FALSE]]
    BY DEF LeavePanel
  <1>2. /\ abandoned \subseteq abandoned'
        /\ \A r \in Requests : Writes(r) /\ request[r].step # "answered"
                                  => request[r].job \in abandoned'
    BY DEF LeavePanel, Writes
  <1>3. \A r \in Requests : /\ request'[r] \in RequestState
                            /\ request'[r].kind = request[r].kind
                            /\ request'[r].step = request[r].step
                            /\ request'[r].job = request[r].job
                            /\ request'[r].exists = request[r].exists
                            /\ request'[r].row = request[r].row
                            /\ request'[r].outcome = request[r].outcome
                            /\ request'[r].live = FALSE
    <2> SUFFICES ASSUME NEW r \in Requests
                 PROVE  /\ request'[r] \in RequestState
                        /\ request'[r].kind = request[r].kind
                        /\ request'[r].step = request[r].step
                        /\ request'[r].job = request[r].job
                        /\ request'[r].exists = request[r].exists
                        /\ request'[r].row = request[r].row
                        /\ request'[r].outcome = request[r].outcome
                        /\ request'[r].live = FALSE
      OBVIOUS
    <2> DEFINE q == request[r]
    <2>1. q \in RequestState
      BY <1>0
    <2>2. request'[r] = [q EXCEPT !.live = FALSE]
      BY <1>1
    <2> HIDE DEF q
    <2>3. /\ request'[r] \in RequestState
          /\ request'[r].kind = q.kind
          /\ request'[r].step = q.step
          /\ request'[r].job = q.job
          /\ request'[r].exists = q.exists
          /\ request'[r].row = q.row
          /\ request'[r].outcome = q.outcome
          /\ request'[r].live = FALSE
      BY <2>1, <2>2 DEF RequestState
    <2> QED  BY <2>3 DEF q
  <1>4. request' \in [Requests -> RequestState]
    BY <1>1, <1>3
  <1>5. screen' = NoPanel
    BY DEF LeavePanel
  <1>6. abandoned' \subseteq Jobs \cup {NoJob}
    <2>1. \A r \in Requests : request[r].job \in Jobs \cup {NoJob}
      BY <1>0 DEF RequestState
    <2>2. abandoned \subseteq Jobs \cup {NoJob}
      BY <1>0 DEF AnalysisTypeOK
    <2> QED  BY <2>1, <2>2 DEF LeavePanel
  <1>7. AnalysisTypeOK'
    BY <1>0, <1>4, <1>5, <1>6, NothingLemma DEF AnalysisTypeOK
  <1>8. Named'
    BY <1>0, <1>3, <1>5, NothingLemma DEF Named
  <1>9. Watched' /\ OneAtWork'
    BY <1>3 DEF Watched, OneAtWork
  <1>10. LeftBehind'
    BY <1>2, <1>3 DEF LeftBehind, AtWork, Writes
  <1>11. StillMissing'
    BY <1>0, <1>2, <1>3 DEF StillMissing
  <1>12. ClashesExplained'
    BY <1>0, <1>2, <1>3 DEF ClashesExplained
  <1> QED  BY <1>7, <1>8, <1>9, <1>10, <1>11, <1>12 DEF AnalysisInv

\* What an answer leaves as it is: the panel, and the button of another request.
LEMMA HeardLemma ==
    ASSUME screen \in Screen, NEW kind \in Kinds \cup {"none"},
           NEW outcome \in {"none", "ok", "refused", "conflict", "broken", "lost"},
           NEW result \in Analysed,
           screen' = Heard(kind, outcome, result)
    PROVE  /\ screen' \in Screen
           /\ screen'.at = screen.at /\ screen'.job = screen.job
           /\ kind \notin {"generate", "upload"} => screen'.busy = screen.busy
  <1> DEFINE none == kind = "analysis" /\ outcome = "refused"
             shown == IF outcome = "ok" \/ none THEN result ELSE screen.shown
             failed == screen.failed \/ ~(outcome = "ok" \/ none)
             waits == screen.loading /\ kind \notin {"analysis", "resume"}
             busy == screen.busy /\ kind \notin {"generate", "upload"}
  <1>1. screen' = [screen EXCEPT !.shown = shown, !.failed = failed,
                                 !.loading = waits, !.busy = busy]
    BY DEF Heard
  <1>2. failed \in BOOLEAN /\ waits \in BOOLEAN /\ busy \in BOOLEAN
    OBVIOUS
  <1>3. shown \in Analysed
    BY DEF Screen
  <1>4. kind \notin {"generate", "upload"} => busy = screen.busy
    BY DEF Screen
  <1> HIDE DEF none, shown, failed, waits, busy
  <1>5. screen' \in Screen /\ screen'.at = screen.at /\ screen'.job = screen.job
    BY <1>1, <1>2, <1>3 DEF Screen
  <1>6. screen'.busy = busy
    BY <1>1 DEF Screen
  <1> QED  BY <1>4, <1>5, <1>6

LEMMA DisconnectKeeps ==
    ASSUME AnalysisInv, NEW r \in Requests, Disconnect(r)
    PROVE  AnalysisInv'
  <1> DEFINE q == request[r]
             o == [q EXCEPT !.live = FALSE]
  <1>0. /\ AnalysisTypeOK /\ Named /\ Watched /\ OneAtWork /\ LeftBehind /\ ClashesExplained
        /\ StillMissing
        /\ request \in [Requests -> RequestState] /\ screen \in Screen /\ lost \in 0..MaxLost
        /\ UNCHANGED <<job, resume, row, analysis, edits>>
    BY DEF AnalysisInv, AnalysisTypeOK, Disconnect, database
  <1>1. request' = [request EXCEPT ![r] = o] /\ q.live /\ q \in RequestState
    BY <1>0 DEF Disconnect
  <1>2. /\ o \in RequestState /\ o.kind = q.kind /\ o.step = q.step /\ o.job = q.job
        /\ o.exists = q.exists /\ o.row = q.row /\ o.outcome = q.outcome
    <2> HIDE DEF q
    <2> QED  BY <1>1 DEF RequestState
  <1>3. ~o.live
    <2> HIDE DEF q
    <2> QED  BY <1>1 DEF RequestState
  <1> HIDE DEF o
  <1>4. /\ request'[r] = o /\ \A p \in Requests \ {r} : request'[p] = request[p]
        /\ request' \in [Requests -> RequestState]
    BY <1>0, <1>1, <1>2
  <1>5. /\ screen' \in Screen
        /\ screen'.at = screen.at /\ screen'.job = screen.job
        /\ q.kind \notin {"generate", "upload"} => screen'.busy = screen.busy
    <2>1. screen' = Heard(q.kind, "lost", NoAnalysis)
      BY DEF Disconnect
    <2>2. q.kind \in Kinds \cup {"none"}
      BY <1>1, RequestFields
    <2> HIDE DEF q
    <2> QED  BY <1>0, <2>1, <2>2, NothingLemma, HeardLemma
  <1>6. abandoned' = abandoned \cup {q.job} /\ q.job \in Jobs \cup {NoJob}
    BY <1>1, RequestFields DEF Disconnect
  <1>7. lost' \in 0..MaxLost
    BY <1>0, AnalysisAssumption DEF Disconnect
  <1>8. AnalysisTypeOK'
    BY <1>0, <1>4, <1>5, <1>6, <1>7 DEF AnalysisTypeOK
  <1>9. Named'
    BY <1>0, <1>2, <1>4, <1>5 DEF Named
  <1>10. Watched'
    <2> SUFFICES ASSUME NEW p \in Requests, Writes(p)', request'[p].live
                 PROVE  /\ screen'.busy
                        /\ screen'.at = IF request'[p].kind = "generate" THEN "tailor"
                                        ELSE "profile"
                        /\ request'[p].kind = "generate" => screen'.job = request'[p].job
      BY DEF Watched
    <2>1. p # r /\ request'[p] = request[p] /\ Writes(p)
      BY <1>3, <1>4 DEF Writes
    <2>2. ~Writes(r)
      BY <1>0, <1>1, <2>1 DEF OneAtWork
    <2> QED  BY <1>0, <1>5, <2>1, <2>2 DEF Watched, Writes
  <1>11. OneAtWork'
    BY <1>0, <1>3, <1>4 DEF OneAtWork, Writes
  <1>12. LeftBehind'
    BY <1>0, <1>2, <1>4, <1>6 DEF LeftBehind, AtWork, Writes
  <1>13. StillMissing'
    <2> SUFFICES ASSUME NEW p \in Requests, request'[p].step = "found"
                 PROVE  /\ request'[p].kind = "generate" /\ ~request'[p].exists =>
                              \/ analysis'[request'[p].job] = NoAnalysis
                              \/ request'[p].job \in abandoned'
                        /\ request'[p].kind = "upload" /\ request'[p].row = 0 =>
                              row' = 0 \/ NoJob \in abandoned'
      BY DEF StillMissing
    <2>1. CASE p = r
      BY <1>0, <1>2, <1>4, <1>6, <2>1 DEF StillMissing
    <2>2. CASE p # r
      BY <1>0, <1>4, <1>6, <2>2 DEF StillMissing
    <2> QED  BY <2>1, <2>2
  <1>14. ClashesExplained'
    BY <1>0, <1>2, <1>4, <1>6 DEF ClashesExplained
  <1> QED  BY <1>8, <1>9, <1>10, <1>11, <1>12, <1>13, <1>14 DEF AnalysisInv

LEMMA HearAnswerKeeps ==
    ASSUME AnalysisInv, NEW r \in Requests, HearAnswer(r)
    PROVE  AnalysisInv'
  <1> DEFINE q == request[r]
  <1>0. /\ AnalysisTypeOK /\ Named /\ Watched /\ OneAtWork /\ LeftBehind /\ ClashesExplained
        /\ request \in [Requests -> RequestState] /\ screen \in Screen
        /\ UNCHANGED <<job, resume, row, analysis, edits, lost, abandoned>>
    BY DEF AnalysisInv, AnalysisTypeOK, HearAnswer, database
  <1>1. /\ request' = [request EXCEPT ![r] = Idle]
        /\ q \in RequestState
    BY <1>0 DEF HearAnswer
  <1>2. /\ request'[r] = Idle /\ \A p \in Requests \ {r} : request'[p] = request[p]
        /\ request' \in [Requests -> RequestState]
    BY <1>0, <1>1, NothingLemma
  <1>3. /\ screen' \in Screen
        /\ screen'.at = screen.at /\ screen'.job = screen.job
        /\ ~q.live \/ q.kind \notin {"generate", "upload"} => screen'.busy = screen.busy
    <2>1. CASE q.live
      <3>1. screen' = Heard(q.kind, q.outcome, q.result)
        BY <2>1 DEF HearAnswer
      <3>2. /\ q.kind \in Kinds \cup {"none"} /\ q.result \in Analysed
            /\ q.outcome \in {"none", "ok", "refused", "conflict", "broken", "lost"}
        BY <1>1, RequestFields
      <3> HIDE DEF q
      <3> QED  BY <1>0, <2>1, <3>1, <3>2, HeardLemma
    <2>2. CASE ~q.live
      BY <1>0, <2>2 DEF HearAnswer
    <2> QED  BY <2>1, <2>2
  <1>4. AnalysisTypeOK'
    BY <1>0, <1>2, <1>3 DEF AnalysisTypeOK
  <1>5. Named'
    BY <1>0, <1>2, <1>3, NothingLemma DEF Named
  <1>6. Watched'
    <2> SUFFICES ASSUME NEW p \in Requests, Writes(p)', request'[p].live
                 PROVE  /\ screen'.busy
                        /\ screen'.at = IF request'[p].kind = "generate" THEN "tailor"
                                        ELSE "profile"
                        /\ request'[p].kind = "generate" => screen'.job = request'[p].job
      BY DEF Watched
    <2>1. p # r /\ request'[p] = request[p] /\ Writes(p)
      BY <1>2, NothingLemma DEF Writes
    <2>2. ~q.live \/ ~Writes(r)
      BY <1>0, <2>1 DEF OneAtWork
    <2> QED  BY <1>0, <1>3, <2>1, <2>2 DEF Watched, Writes
  <1>7. OneAtWork'
    BY <1>0, <1>2, NothingLemma DEF OneAtWork, Writes
  <1>8. LeftBehind'
    BY <1>0, <1>2, NothingLemma DEF LeftBehind, AtWork, Writes
  <1>9. StillMissing'
    <2>1. request'[r].step # "found"
      BY <1>2, NothingLemma
    <2> QED  BY <1>0, <1>2, <2>1, MissingStays
  <1>10. ClashesExplained'
    BY <1>0, <1>2, NothingLemma DEF ClashesExplained
  <1> QED  BY <1>4, <1>5, <1>6, <1>7, <1>8, <1>9, <1>10 DEF AnalysisInv

\* The applications live their own lives: what is erased stays erased, and
\* takes its analysis along.
LEMMA JobsKeep ==
    ASSUME AnalysisInv, job' \in [Jobs -> Job], edits' \in Edits,
           \A a \in Jobs : job[a].state = "erased" => job'[a].state = "erased",
           analysis' \in [Jobs -> Analysed],
           \A a \in Jobs : analysis'[a] = analysis[a] \/ analysis'[a] = NoAnalysis,
           UNCHANGED <<resume, row, request, screen, lost, abandoned>>
    PROVE  AnalysisInv'
  <1>0. /\ AnalysisTypeOK /\ Named /\ Watched /\ OneAtWork /\ LeftBehind /\ ClashesExplained
        /\ StillMissing
    BY DEF AnalysisInv
  <1>1. AnalysisTypeOK'
    BY <1>0 DEF AnalysisTypeOK
  <1>2. Named' /\ Watched' /\ OneAtWork' /\ LeftBehind'
    BY <1>0 DEF Named, Watched, OneAtWork, LeftBehind, AtWork, Writes
  <1>3. StillMissing'
    BY <1>0 DEF StillMissing, Named
  <1>4. ClashesExplained'
    BY <1>0 DEF ClashesExplained, AnalysisTypeOK, RequestState
  <1> QED  BY <1>1, <1>2, <1>3, <1>4 DEF AnalysisInv

LEMMA DescribeKeeps ==
    ASSUME AnalysisInv, NEW a \in Jobs, Describe(a)
    PROVE  AnalysisInv'
  <1>1. /\ job \in [Jobs -> Job] /\ edits \in Edits /\ analysis \in [Jobs -> Analysed]
        /\ UNCHANGED <<resume, row, analysis, request, screen, lost, abandoned>>
    BY DEF AnalysisInv, AnalysisTypeOK, Describe
  <1>2. edits' \in Edits /\ edits' = edits + 1
    BY <1>1, AnalysisAssumption DEF Describe, Edits
  <1>3. PICK description \in {0, edits + 1} : job' = [job EXCEPT ![a].description = description]
    BY DEF Describe
  <1> DEFINE o == [job[a] EXCEPT !.description = description]
  <1>4. job' = [job EXCEPT ![a] = o]
    BY <1>3
  <1>5. o \in Job /\ o.state = job[a].state
    BY <1>1, <1>2, NothingLemma DEF Job
  <1> HIDE DEF o
  <1>6. job' \in [Jobs -> Job] /\ \A b \in Jobs : job'[b].state = job[b].state
    BY <1>1, <1>4, <1>5
  <1> QED  BY <1>1, <1>2, <1>6, JobsKeep

LEMMA ChangeStateKeeps ==
    ASSUME AnalysisInv, NEW a \in Jobs, NEW from \in {"active", "deleted"},
           NEW to \in {"active", "deleted", "erased"}, ChangeState(a, from, to)
    PROVE  AnalysisInv'
  <1>1. /\ job \in [Jobs -> Job] /\ edits \in Edits /\ analysis \in [Jobs -> Analysed]
        /\ UNCHANGED <<resume, row, edits, request, screen, lost, abandoned>>
    BY DEF AnalysisInv, AnalysisTypeOK, ChangeState
  <1> DEFINE o == [job[a] EXCEPT !.state = to]
  <1>2. job' = [job EXCEPT ![a] = o] /\ job[a].state # "erased"
    BY DEF ChangeState
  <1>3. o \in Job
    BY <1>1 DEF Job
  <1> HIDE DEF o
  <1>4. /\ job' \in [Jobs -> Job]
        /\ \A b \in Jobs : job[b].state = "erased" => job'[b].state = "erased"
    BY <1>1, <1>2, <1>3
  <1>5. /\ analysis' \in [Jobs -> Analysed]
        /\ \A b \in Jobs : analysis'[b] = analysis[b] \/ analysis'[b] = NoAnalysis
    BY <1>1, NothingLemma DEF ChangeState
  <1> QED  BY <1>1, <1>4, <1>5, JobsKeep

LEMMA AnalysisStarts == AnalysisInit => AnalysisInv
  <1> SUFFICES ASSUME AnalysisInit  PROVE AnalysisInv
    OBVIOUS
  <1>1. /\ request = [r \in Requests |-> Idle] /\ screen = NoPanel /\ abandoned = {}
        /\ resume = 0 /\ row = 0 /\ edits = 0 /\ lost = 0
        /\ analysis = [a \in Jobs |-> NoAnalysis]
    BY DEF AnalysisInit
  <1>2. job \in [Jobs -> Job]
    BY NothingLemma DEF AnalysisInit, Job
  <1>3. AnalysisTypeOK
    BY <1>1, <1>2, NothingLemma, AnalysisAssumption DEF AnalysisTypeOK
  <1>4. \A r \in Requests : request[r] = Idle
    BY <1>1
  <1>5. Named /\ Watched /\ OneAtWork
    BY <1>1, <1>4, NothingLemma DEF Named, Watched, OneAtWork, Writes
  <1>6. LeftBehind /\ StillMissing /\ ClashesExplained
    BY <1>4, NothingLemma DEF LeftBehind, AtWork, Writes, StillMissing, ClashesExplained
  <1> QED  BY <1>3, <1>5, <1>6 DEF AnalysisInv

LEMMA AnalysisSteps == AnalysisInv /\ [AnalysisNext]_analysisVars => AnalysisInv'
  <1> SUFFICES ASSUME AnalysisInv, [AnalysisNext]_analysisVars  PROVE AnalysisInv'
    OBVIOUS
  <1>1. CASE LeavePanel
    BY <1>1, LeavePanelKeeps
  <1>2. ASSUME NEW r \in Requests, Clicks(r)  PROVE AnalysisInv'
    BY <1>2, OpenTailorKeeps, OpenProfileKeeps, WritersKeep, RemoveKeeps DEF Clicks
  <1>3. ASSUME NEW r \in Requests, Serves(r)  PROVE AnalysisInv'
    BY <1>3, ReadsKeep, ReadInputsKeeps, ProvideKeeps, LookUpKeeps, WriteAnalysisKeeps,
       ReadBackKeeps, WriteResumeKeeps, DeleteResumeKeeps, DisconnectKeeps DEF Serves
  <1>4. ASSUME NEW r \in Requests, HearAnswer(r)  PROVE AnalysisInv'
    BY <1>4, HearAnswerKeeps
  <1>5. ASSUME NEW a \in Jobs, Describe(a)  PROVE AnalysisInv'
    BY <1>5, DescribeKeeps
  <1>6. ASSUME NEW a \in Jobs,
               \/ ChangeState(a, "active", "deleted") \/ ChangeState(a, "deleted", "active")
               \/ ChangeState(a, "deleted", "erased")
        PROVE  AnalysisInv'
    BY <1>6, ChangeStateKeeps
  <1>7. CASE UNCHANGED analysisVars
    <2>1. /\ AnalysisTypeOK /\ analysis \in [Jobs -> Analysed] /\ job \in [Jobs -> Job]
          /\ edits \in Edits
      BY DEF AnalysisInv, AnalysisTypeOK
    <2>2. UNCHANGED <<job, resume, row, analysis, edits, request, screen, lost, abandoned>>
      BY <1>7 DEF analysisVars, database
    <2> QED  BY <2>1, <2>2, JobsKeep
  <1> QED  BY <1>1, <1>2, <1>3, <1>4, <1>5, <1>6, <1>7 DEF AnalysisNext

LEMMA AnalysisInvariance == AnalysisSpec => []AnalysisInv
  BY AnalysisStarts, AnalysisSteps, PTL DEF AnalysisSpec

\* The requests of resume_service.py and ai_analysis_service.py, their panels
\* and what they store are of their types in every behaviour.
THEOREM AnalysisTypeCorrect == AnalysisSpec => []AnalysisTypeOK
  <1>1. AnalysisInv => AnalysisTypeOK
    BY DEF AnalysisInv
  <1> QED  BY <1>1, AnalysisInvariance, PTL

\* A generation or an upload meets a unique key or a missing application only
\* where the tab has left a panel, or lost the connection, while one was still
\* being written, or where the record was erased: whatever the requests, the
\* panels that disable their button keep one user's writes apart.
THEOREM ClashesAreExplained == AnalysisSpec => []ClashesExplained
  <1>1. AnalysisInv => ClashesExplained
    BY DEF AnalysisInv
  <1> QED  BY <1>1, AnalysisInvariance, PTL
=============================================================================

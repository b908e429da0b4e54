----------------------------- MODULE AccountPages -----------------------------
(***************************************************************************)
(* The pages of one person's account: signing up, verifying the address,   *)
(* signing in and changing the password (SignupPage.tsx,                   *)
(* VerifyEmailPage.tsx, LoginPage.tsx, ProfilePage of App.tsx), in the     *)
(* tabs of one person with one address, against a server that keeps the    *)
(* registration as Registration.tla does.  Here a request is served at     *)
(* once, except that its mail takes a while, between two commits.          *)
(*                                                                         *)
(* A call is sent, served and answered; an answer that finds its page left *)
(* changes nothing (live is FALSE).  Time passes in seconds: the server    *)
(* counts them since its last mail, the sign-up page counts down on its    *)
(* own, and a timer of a browser may be late but never early.              *)
(***************************************************************************)
EXTENDS Naturals

CONSTANTS
    Tabs, Calls,
    Cooldown,    \* email_resend_cooldown_seconds
    Countdown,   \* setResendSeconds(60)
    MaxLinks,    \* bound on the links ever issued
    MaxFaults,   \* bound on failed mails and lost calls
    NoTab

ASSUME CooldownAssumption ==
    Cooldown \in Nat \ {0} /\ Countdown \in Nat /\ Cooldown <= Countdown
ASSUME BoundsAssumption == MaxLinks \in Nat /\ MaxFaults \in Nat /\ NoTab \notin Tabs

VARIABLES
    registration,  \* "none", "pending", "expired" or "consumed": then there is an account
    link,          \* the link that token_digest stands for, 0 for none
    mailed,        \* the links that reached the mailbox
    sentAgo,       \* seconds since last_sent_at, Cooldown for that many or no mail
    page,          \* page[t]: what tab t shows
    elapsed,       \* elapsed[t]: seconds since t began to count down, at most Countdown
    call,          \* call[c]: the request c and its answer
    faults,        \* failed mails and lost calls so far
    crossed        \* tabs whose page has not begun to count down since the last mail

server == <<registration, link, mailed, sentAgo>>
vars == <<server, page, elapsed, call, faults, crossed>>
----------------------------------------------------------------------------
\* "form" and "sent" are the sign-up page's, "loading", "verified" and "invalid"
\* the verification page's; open: the provider of this tab is authenticated.
Page == [at : {"signup", "verify", "login", "profile"},
         view : {"form", "sent", "loading", "verified", "invalid"},
         open : BOOLEAN, busy : BOOLEAN, failed : BOOLEAN, resending : BOOLEAN,
         seconds : 0..Countdown]

\* The page that a request comes from: "newlink" is the verification page's
\* resend.
Origin == [signup |-> "signup", resend |-> "signup", verify |-> "verify",
           newlink |-> "verify", login |-> "login", change |-> "profile"]

\* "mailing": committed, and the server is sending the mail of this link.  "quiet" and
\* "cooling" are accepted and ignored, "unsent" is email_delivery_unavailable, "lost" a
\* network error.
Call == [request : DOMAIN Origin \cup {"none"}, tab : Tabs \cup {NoTab},
         link : 0..MaxLinks, live : BOOLEAN,
         answer : {"none", "mailing", "ok", "quiet", "cooling", "unsent", "refused",
                   "lost"}]

NoCall == [request |-> "none", tab |-> NoTab, link |-> 0, live |-> FALSE,
           answer |-> "none"]

TypeOK ==
    /\ registration \in {"none", "pending", "expired", "consumed"}
    /\ link \in 0..MaxLinks
    /\ mailed \subseteq 0..MaxLinks
    /\ sentAgo \in 0..Cooldown
    /\ page \in [Tabs -> Page]
    /\ elapsed \in [Tabs -> 0..Countdown]
    /\ call \in [Calls -> Call]
    /\ faults \in 0..MaxFaults
    /\ crossed \subseteq Tabs

\* A page as it mounts.
Fresh(at, view, open) ==
    [at |-> at, view |-> view, open |-> open, busy |-> FALSE, failed |-> FALSE,
     resending |-> FALSE, seconds |-> 0]

Init ==
    /\ registration = "none"
    /\ link = 0
    /\ mailed = {}
    /\ sentAgo = Cooldown
    /\ page = [t \in Tabs |-> Fresh("login", "form", FALSE)]
    /\ elapsed = [t \in Tabs |-> Countdown]
    /\ call = [c \in Calls |-> NoCall]
    /\ faults = 0
    /\ crossed = {}
----------------------------------------------------------------------------
(***************************************************************************)
(* What the person does                                                    *)
(***************************************************************************)
\* A page that mounts in tab t has not begun to count down.
Mounts(t, fresh) ==
    /\ page' = [page EXCEPT ![t] = fresh]
    /\ elapsed' = [elapsed EXCEPT ![t] = Countdown]
    /\ crossed' = crossed \cup {t}

Sends(t, c, request, l) ==
    /\ call[c] = NoCall
    /\ call' = [call EXCEPT ![c] = [request |-> request, tab |-> t, link |-> l,
                                    live |-> TRUE, answer |-> "none"]]

\* What the page of tab t has asked is answered to nobody once it is left.
Abandoned(t) == [c \in Calls |-> IF call[c].tab = t THEN [call[c] EXCEPT !.live = FALSE]
                                ELSE call[c]]

\* SignupPage.submit of a form that validate finds nothing wrong with.
SubmitSignup(t, c) ==
    /\ page[t].at = "signup" /\ page[t].view = "form"
    /\ ~page[t].busy
    /\ Sends(t, c, "signup", 0)
    /\ page' = [page EXCEPT ![t].busy = TRUE, ![t].failed = FALSE]
    /\ UNCHANGED <<server, elapsed, faults, crossed>>

\* The button of the sign-up page, disabled while it counts down.
MayResend(t) == page[t].view = "sent" /\ ~page[t].resending /\ page[t].seconds = 0

ResendFromSignup(t, c) ==
    /\ page[t].at = "signup" /\ MayResend(t)
    /\ Sends(t, c, "resend", 0)
    /\ page' = [page EXCEPT ![t].resending = TRUE]
    /\ UNCHANGED <<server, elapsed, faults, crossed>>

\* The form of the verification page, which keeps no countdown.
ResendFromVerify(t, c) ==
    /\ page[t].at = "verify" /\ page[t].view = "invalid"
    /\ ~page[t].resending
    /\ Sends(t, c, "newlink", 0)
    /\ page' = [page EXCEPT ![t].resending = TRUE, ![t].failed = FALSE]
    /\ UNCHANGED <<server, elapsed, faults, crossed>>

\* A link of the mailbox opens as a new document, in a tab that awaits nothing.
\* The effect sends the token once; the browser may still be signed in.
FollowLink(t, c) ==
    /\ \A k \in Calls : call[k].tab # t
    /\ \E l \in mailed : Sends(t, c, "verify", l)
    /\ \E open \in {FALSE, registration = "consumed"} :
          Mounts(t, Fresh("verify", "loading", open))
    /\ UNCHANGED <<server, faults>>

\* The verification page opens without a token.
OpenWithoutToken(t) ==
    /\ \A k \in Calls : call[k].tab # t
    /\ \E open \in {FALSE, registration = "consumed"} :
          Mounts(t, Fresh("verify", "invalid", open))
    /\ UNCHANGED <<server, call, faults>>

\* An attempt that is still in flight is joined (loginInFlight).
SubmitLogin(t, c) ==
    /\ page[t].at = "login"
    /\ ~page[t].busy
    /\ \/ /\ call[c].tab = t /\ call[c].request = "login"
          /\ call' = [call EXCEPT ![c].live = TRUE]
       \/ /\ \A k \in Calls : call[k].tab = t => call[k].request # "login"
          /\ Sends(t, c, "login", 0)
    /\ page' = [page EXCEPT ![t].busy = TRUE, ![t].failed = FALSE]
    /\ UNCHANGED <<server, elapsed, faults, crossed>>

\* ProfilePage.submitPasswordChange
SubmitChange(t, c) ==
    /\ page[t].at = "profile"
    /\ ~page[t].busy
    /\ Sends(t, c, "change", 0)
    /\ page' = [page EXCEPT ![t].busy = TRUE, ![t].failed = FALSE]
    /\ UNCHANGED <<server, elapsed, faults, crossed>>

\* The links between the pages; a signed-in tab is sent to its workspace.
Destination(t, at) == IF page[t].open THEN "profile" ELSE at

Leave(t) ==
    /\ \E at \in {"signup", "login"} :
          /\ at # page[t].at
          /\ Mounts(t, Fresh(Destination(t, at), "form", page[t].open))
    /\ call' = Abandoned(t)
    /\ UNCHANGED <<server, faults>>
----------------------------------------------------------------------------
(***************************************************************************)
(* The server                                                              *)
(***************************************************************************)
Pending(c, request) == call[c].request = request /\ call[c].answer = "none"

\* The answer arrives as it is, or is lost on its way.
Answer(c, answer, failed) ==
    \E got \in {answer, "lost"} :
        LET n == IF got = answer /\ ~failed THEN 0 ELSE 1 IN
        /\ faults + n <= MaxFaults
        /\ faults' = faults + n
        /\ call' = [call EXCEPT ![c].answer = got]

\* A new token is committed with the time of its mail, and then mailed.
Issue(c) ==
    /\ link < MaxLinks
    /\ link' = link + 1
    /\ registration' = "pending"
    /\ sentAgo' = 0
    /\ crossed' = Tabs
    /\ call' = [call EXCEPT ![c].answer = "mailing", ![c].link = link + 1]
    /\ UNCHANGED <<mailed, faults>>

KeptMark(c) ==                          \* mutant: last_sent_at outlives a failed mail
    /\ call[c].answer = "mailing"
    /\ \/ /\ mailed' = mailed \cup {call[c].link}
          /\ UNCHANGED <<sentAgo, crossed>>
          /\ Answer(c, "ok", FALSE)
       \/ /\ crossed' = {}
          /\ UNCHANGED <<mailed, sentAgo>>
          /\ Answer(c, "unsent", TRUE)
    /\ UNCHANGED <<registration, link, page, elapsed>>

\* A mail that fails clears last_sent_at, whoever has set it meanwhile.
Mail(c) ==
    /\ call[c].answer = "mailing"
    /\ \/ /\ mailed' = mailed \cup {call[c].link}
          /\ UNCHANGED <<sentAgo, crossed>>
          /\ Answer(c, "ok", FALSE)
       \/ /\ sentAgo' = Cooldown
          /\ crossed' = {}
          /\ UNCHANGED mailed
          /\ Answer(c, "unsent", TRUE)
    /\ UNCHANGED <<registration, link, page, elapsed>>

\* RegistrationService.signup says nothing of an account or a registration.
ServeSignup(c) ==
    /\ Pending(c, "signup")
    /\ \/ /\ registration \in {"pending", "consumed"}
          /\ Answer(c, "quiet", FALSE)
          /\ UNCHANGED <<server, crossed>>
       \/ registration \in {"none", "expired"} /\ Issue(c)
    /\ UNCHANGED <<page, elapsed>>

\* RegistrationService.resend, likewise.
ServeResend(c) ==
    /\ Pending(c, "resend") \/ Pending(c, "newlink")
    /\ \/ /\ registration \in {"none", "consumed"}
          /\ Answer(c, "quiet", FALSE)
          /\ UNCHANGED <<server, crossed>>
       \/ /\ registration \in {"pending", "expired"} /\ sentAgo < Cooldown
          /\ Answer(c, "cooling", FALSE)
          /\ UNCHANGED <<server, crossed>>
       \/ /\ registration \in {"pending", "expired"} /\ sentAgo = Cooldown
          /\ Issue(c)
    /\ UNCHANGED <<page, elapsed>>

\* RegistrationService.verify
ServeVerify(c) ==
    /\ Pending(c, "verify")
    /\ IF call[c].link = link /\ registration \in {"pending", "consumed"}
       THEN /\ registration' = "consumed"
            /\ Answer(c, "ok", FALSE)
       ELSE Answer(c, "refused", FALSE) /\ UNCHANGED registration
    /\ UNCHANGED <<link, mailed, sentAgo, page, elapsed, crossed>>

\* The password typed is right or wrong.
ServePassword(c) ==
    /\ Pending(c, "login") \/ Pending(c, "change")
    /\ \/ registration = "consumed" /\ Answer(c, "ok", FALSE)
       \/ Answer(c, "refused", FALSE)
    /\ UNCHANGED <<server, page, elapsed, crossed>>

\* The request never reached the server.
Lose(c) ==
    /\ call[c].request # "none" /\ call[c].answer = "none"
    /\ faults < MaxFaults \/ link = MaxLinks
    /\ faults' = IF faults < MaxFaults THEN faults + 1 ELSE faults
    /\ call' = [call EXCEPT ![c].answer = "lost"]
    /\ UNCHANGED <<server, page, elapsed, crossed>>

\* Twenty-four hours pass.
Expire ==
    /\ registration = "pending"
    /\ sentAgo = Cooldown
    /\ registration' = "expired"
    /\ UNCHANGED <<link, mailed, sentAgo, page, elapsed, call, faults, crossed>>
----------------------------------------------------------------------------
(***************************************************************************)
(* What the answers do to the pages                                        *)
(***************************************************************************)
Accepted(c) == call[c].answer \in {"ok", "quiet", "cooling"}

Answered(c, request) ==
    /\ call[c].request = request /\ call[c].answer \notin {"none", "mailing"}
    /\ UNCHANGED <<server, faults>>

Done(c) == call' = [call EXCEPT ![c] = NoCall]

\* setResendSeconds(60): the tab counts from now.
StartsCountdown(t) ==
    /\ elapsed' = [elapsed EXCEPT ![t] = 0]
    /\ crossed' = crossed \ {t}

\* After a mail that failed there is nothing to wait for.
NoCountdown(t) ==
    /\ elapsed' = [elapsed EXCEPT ![t] = Countdown]
    /\ UNCHANGED crossed

TakeSignup(c) ==
    LET t == call[c].tab IN
    /\ Answered(c, "signup") /\ Done(c)
    /\ \/ /\ ~call[c].live
          /\ UNCHANGED <<page, elapsed, crossed>>
       \/ /\ call[c].live /\ Accepted(c)
          /\ page' = [page EXCEPT ![t].view = "sent", ![t].busy = FALSE,
                                  ![t].seconds = Countdown]
          /\ StartsCountdown(t)
       \/ /\ call[c].live /\ call[c].answer = "unsent"
          /\ page' = [page EXCEPT ![t].view = "sent", ![t].busy = FALSE, ![t].failed = TRUE]
          /\ NoCountdown(t)
       \/ /\ call[c].live /\ call[c].answer = "lost"
          /\ page' = [page EXCEPT ![t].busy = FALSE]
          /\ UNCHANGED <<elapsed, crossed>>

TakeSignupResend(c) ==
    LET t == call[c].tab IN
    /\ Answered(c, "resend") /\ Done(c)
    /\ \/ /\ ~call[c].live
          /\ UNCHANGED <<page, elapsed, crossed>>
       \/ /\ call[c].live /\ Accepted(c)
          /\ page' = [page EXCEPT ![t].resending = FALSE, ![t].failed = FALSE,
                                  ![t].seconds = Countdown]
          /\ StartsCountdown(t)
       \/ /\ call[c].live /\ ~Accepted(c)
          /\ page' = [page EXCEPT ![t].resending = FALSE, ![t].failed = TRUE]
          /\ UNCHANGED <<elapsed, crossed>>

TakeVerifyResend(c) ==
    /\ Answered(c, "newlink") /\ Done(c)
    /\ page' = IF call[c].live
               THEN [page EXCEPT ![call[c].tab].resending = FALSE,
                                 ![call[c].tab].failed = ~Accepted(c)]
               ELSE page
    /\ UNCHANGED <<elapsed, crossed>>

TakeVerify(c) ==
    /\ Answered(c, "verify") /\ Done(c)
    /\ page' = IF call[c].live
               THEN [page EXCEPT ![call[c].tab].view =
                                 IF Accepted(c) THEN "verified" ELSE "invalid"]
               ELSE page
    /\ UNCHANGED <<elapsed, crossed>>

\* The form of tab t is free again, with an error.
Refuses(t, live) ==
    /\ page' = IF live THEN [page EXCEPT ![t].busy = FALSE, ![t].failed = TRUE] ELSE page
    /\ UNCHANGED <<elapsed, crossed>>

\* The provider opens the tab, whichever page it shows by then; the restoration
\* in between is Browser.tla's.
TakeLogin(c) ==
    LET t == call[c].tab IN
    /\ Answered(c, "login")
    /\ \/ /\ Accepted(c)
          /\ Mounts(t, Fresh("profile", "form", TRUE))
          /\ call' = [Abandoned(t) EXCEPT ![c] = NoCall]
       \/ ~Accepted(c) /\ Refuses(t, call[c].live) /\ Done(c)

\* A changed password closes the tab to its user.
TakeChange(c) ==
    LET t == call[c].tab IN
    /\ Answered(c, "change")
    /\ \/ /\ Accepted(c)
          /\ Mounts(t, Fresh("login", "form", FALSE))
          /\ call' = [Abandoned(t) EXCEPT ![c] = NoCall]
       \/ ~Accepted(c) /\ Refuses(t, call[c].live) /\ Done(c)
----------------------------------------------------------------------------
(***************************************************************************)
(* Time                                                                    *)
(***************************************************************************)
Tick ==
    /\ sentAgo < Cooldown \/ \E t \in Tabs : elapsed[t] < Countdown
    /\ sentAgo' = IF sentAgo < Cooldown THEN sentAgo + 1 ELSE sentAgo
    /\ elapsed' = [t \in Tabs |-> IF elapsed[t] < Countdown THEN elapsed[t] + 1 ELSE Countdown]
    /\ UNCHANGED <<registration, link, mailed, page, call, faults, crossed>>

\* The interval of the sign-up page, a second or more after it was set.
CountDown(t) ==
    /\ page[t].seconds > 0
    /\ elapsed[t] > Countdown - page[t].seconds
    /\ page' = [page EXCEPT ![t].seconds = @ - 1]
    /\ UNCHANGED <<server, elapsed, call, faults, crossed>>
----------------------------------------------------------------------------
Acts(t, c) ==
    \/ SubmitSignup(t, c) \/ ResendFromSignup(t, c) \/ ResendFromVerify(t, c)
    \/ FollowLink(t, c) \/ SubmitLogin(t, c) \/ SubmitChange(t, c)

Serve(c) ==
    \/ ServeSignup(c) \/ ServeResend(c) \/ Mail(c)
    \/ ServeVerify(c) \/ ServePassword(c) \/ Lose(c)

Take(c) ==
    \/ TakeSignup(c) \/ TakeSignupResend(c) \/ TakeVerifyResend(c)
    \/ TakeVerify(c) \/ TakeLogin(c) \/ TakeChange(c)

Next ==
    \/ \E t \in Tabs : \/ Leave(t) \/ OpenWithoutToken(t) \/ CountDown(t)
                      \/ \E c \in Calls : Acts(t, c)
    \/ \E c \in Calls : Serve(c) \/ Take(c)
    \/ Expire \/ Tick

Spec == Init /\ [][Next]_vars
----------------------------------------------------------------------------
\* A new link that the sign-up page offers is one that the server sends: the
\* button comes back (SignupPage.tsx) no earlier than the server's cooldown
\* ends (RegistrationService.resend, which ignores an earlier request without
\* a word), unless a mail that this page was not told of has gone out since.
ResendIsHeard ==
    \A c \in Calls :
        Pending(c, "resend") /\ call[c].live /\ sentAgo < Cooldown
            => call[c].tab \in crossed
=============================================================================

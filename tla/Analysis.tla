------------------------------- MODULE Analysis -------------------------------
(***************************************************************************)
(* One user's resume and the analyses made of it for job applications:     *)
(* resume_service.py and ai_analysis_service.py, whose requests read, wait *)
(* (for the AI provider: half a minute) and write without a lock, and the  *)
(* two panels of the browser that call them (ResumeProfilePanel.tsx,       *)
(* AiResumeTailorPanel.tsx), in one tab of that user.                      *)
(*                                                                         *)
(* A description or a resume is the number of the edit that wrote it, 0    *)
(* for none; an analysis is the pair that it was generated from.           *)
(***************************************************************************)
EXTENDS Naturals

CONSTANTS
    Jobs,       \* the job applications
    Requests,
    MaxEdits,   \* bound on the descriptions and resumes ever written
    MaxLost,    \* bound on messages lost and answers the provider fails to give
    NoJob

ASSUME AnalysisAssumption ==
    MaxEdits \in Nat /\ MaxLost \in Nat /\ NoJob \notin Jobs

VARIABLES
    job,        \* job[a]: an application as its workspace keeps it
    resume,     \* the user's resume
    row,        \* the edit that inserted the resume's row: a later upload updates it
    analysis,   \* analysis[a]: what the user has had analysed of a
    edits,      \* edits so far
    request,    \* request[r]: a request, from the click to the answer
    screen,     \* the panel that the tab shows
    lost,       \* messages and answers lost so far
    abandoned   \* what was still being written when the tab stopped waiting for it

database == <<job, resume, row, analysis, edits>>
analysisVars == <<database, request, screen, lost, abandoned>>
----------------------------------------------------------------------------
Edits == 0..MaxEdits

Job == [description : Edits, state : {"active", "deleted", "erased"}]

Analysed == [description : Edits, resume : Edits]
NoAnalysis == [description |-> 0, resume |-> 0]

Kinds == {"analysis", "generate", "resume", "upload", "remove"}

\* The outcomes are a result, a refusal, the 409 of a unique key or a missing
\* application ("conflict"), an error that nothing handles ("broken", a 500),
\* and a network error.
RequestState ==
    [kind : Kinds \cup {"none"}, step : {"idle", "sent", "asked", "provided", "found",
                                         "written", "answered"},
     job : Jobs \cup {NoJob}, inputs : Analysed,
     exists : BOOLEAN, row : Edits,       \* what LookUp found
     outcome : {"none", "ok", "refused", "conflict", "broken", "lost"},
     result : Analysed, live : BOOLEAN]

Idle == [kind |-> "none", step |-> "idle", job |-> NoJob, inputs |-> NoAnalysis,
         exists |-> FALSE, row |-> 0, outcome |-> "none", result |-> NoAnalysis, live |-> FALSE]

\* shown is an analysis, or a resume in its field; busy is generating or
\* uploading; described: the application was loaded with a description.
Screen == [at : {"elsewhere", "tailor", "profile"}, job : Jobs \cup {NoJob},
           shown : Analysed, loading : BOOLEAN, busy : BOOLEAN, failed : BOOLEAN,
           described : BOOLEAN]

NotYetDescribed ==                      \* mutant: a field that the mount leaves undefined
    [at |-> "elsewhere", job |-> NoJob, shown |-> NoAnalysis,
     loading |-> FALSE, busy |-> FALSE, failed |-> FALSE]

NoPanel == [at |-> "elsewhere", job |-> NoJob, shown |-> NoAnalysis,
              loading |-> FALSE, busy |-> FALSE, failed |-> FALSE, described |-> FALSE]

AnalysisTypeOK ==
    /\ job \in [Jobs -> Job]
    /\ resume \in Edits /\ row \in Edits
    /\ analysis \in [Jobs -> Analysed]
    /\ edits \in Edits
    /\ request \in [Requests -> RequestState]
    /\ screen \in Screen
    /\ lost \in 0..MaxLost
    /\ abandoned \subseteq Jobs \cup {NoJob}

AnalysisInit ==
    /\ job = [a \in Jobs |-> [description |-> 0, state |-> "active"]]
    /\ resume = 0 /\ row = 0
    /\ analysis = [a \in Jobs |-> NoAnalysis]
    /\ edits = 0
    /\ request = [r \in Requests |-> Idle]
    /\ screen = NoPanel
    /\ lost = 0
    /\ abandoned = {}
----------------------------------------------------------------------------
(***************************************************************************)
(* The tab                                                                 *)
(***************************************************************************)
Posts(r, kind, a) ==
    /\ request[r] = Idle
    /\ request' = [request EXCEPT ![r] = [Idle EXCEPT !.kind = kind, !.step = "sent",
                                                      !.job = a, !.live = TRUE]]

\* The detail page of an active application mounts the tailor's panel, whose
\* effect asks for the analysis there is.
OpenTailor(r, a) ==
    /\ screen.at = "elsewhere"
    /\ job[a].state = "active"
    /\ Posts(r, "analysis", a)
    /\ screen' = [NoPanel EXCEPT !.at = "tailor", !.job = a, !.loading = TRUE,
                                   !.described = job[a].description # 0]
    /\ UNCHANGED <<database, lost, abandoned>>

\* The profile page mounts the resume's panel.
OpenProfile(r) ==
    /\ screen.at = "elsewhere"
    /\ Posts(r, "resume", NoJob)
    /\ screen' = [NoPanel EXCEPT !.at = "profile", !.loading = TRUE]
    /\ UNCHANGED <<database, lost, abandoned>>

DoubleClicks == ~screen.loading /\ screen.described   \* mutant: two analyses at once

\* generate: once at a time, and not while the panel looks for an analysis.
MayGenerate == ~screen.busy /\ ~screen.loading /\ screen.described

Generate(r) ==
    /\ screen.at = "tailor" /\ MayGenerate
    /\ Posts(r, "generate", screen.job)
    /\ screen' = [screen EXCEPT !.busy = TRUE, !.failed = FALSE]
    /\ UNCHANGED <<database, lost, abandoned>>

\* upload: once at a time.  The panel may still be loading.
Upload(r) ==
    /\ screen.at = "profile" /\ ~screen.busy
    /\ Posts(r, "upload", NoJob)
    /\ screen' = [screen EXCEPT !.busy = TRUE, !.failed = FALSE]
    /\ UNCHANGED <<database, lost, abandoned>>

\* remove: whenever a resume is shown, an upload notwithstanding.
Remove(r) ==
    /\ screen.at = "profile" /\ ~screen.loading /\ screen.shown.resume # 0
    /\ Posts(r, "remove", NoJob)
    /\ screen' = [screen EXCEPT !.failed = FALSE]
    /\ UNCHANGED <<database, lost, abandoned>>

\* The panel goes; what it has asked goes on, and is answered to nobody.
LeavePanel ==
    /\ screen.at # "elsewhere"
    /\ screen' = NoPanel
    /\ request' = [r \in Requests |-> [request[r] EXCEPT !.live = FALSE]]
    /\ abandoned' = abandoned \cup
          {request[r].job : r \in {q \in Requests : request[q].kind \in {"generate", "upload"}
                                                     /\ request[q].step # "answered"}}
    /\ UNCHANGED <<database, lost>>
----------------------------------------------------------------------------
(***************************************************************************)
(* The application's own life (Applications.tla)                           *)
(***************************************************************************)
\* The description is written anew, or removed.
Describe(a) ==
    /\ job[a].state = "active"
    /\ edits < MaxEdits
    /\ edits' = edits + 1
    /\ \E description \in {0, edits + 1} :
          job' = [job EXCEPT ![a].description = description]
    /\ UNCHANGED <<resume, row, analysis, request, screen, lost, abandoned>>

\* Erasing a record takes its analyses along (ON DELETE CASCADE).
ChangeState(a, from, to) ==
    /\ job[a].state = from
    /\ job' = [job EXCEPT ![a].state = to]
    /\ analysis' = IF to = "erased" THEN [analysis EXCEPT ![a] = NoAnalysis] ELSE analysis
    /\ UNCHANGED <<resume, row, edits, request, screen, lost, abandoned>>
----------------------------------------------------------------------------
(***************************************************************************)
(* The server                                                              *)
(***************************************************************************)
At(r, kind, step) == request[r].kind = kind /\ request[r].step = step

\* The answer leaves, and arrives or is lost.
Finish(r, outcome, result) ==
    \E got \in {outcome, "lost"} :
        /\ got # outcome => lost < MaxLost
        /\ lost' = IF got # outcome THEN lost + 1 ELSE lost
        /\ request' = [request EXCEPT ![r].step = "answered", ![r].outcome = got,
                                      ![r].result = result]

\* What an answer makes of the panel: where there is no analysis, it shows none.
Heard(kind, outcome, result) ==
    LET none == kind = "analysis" /\ outcome = "refused" IN
    [screen EXCEPT
        !.shown = IF outcome = "ok" \/ none THEN result ELSE @,
        !.failed = @ \/ ~(outcome = "ok" \/ none),
        !.loading = @ /\ kind \notin {"analysis", "resume"},
        !.busy = @ /\ kind \notin {"generate", "upload"}]

Proceed(r, step) == request' = [request EXCEPT ![r].step = step] /\ UNCHANGED lost

\* The request never reached the server.
LoseRequest(r) ==
    /\ request[r].step = "sent" /\ lost < MaxLost
    /\ lost' = lost + 1
    /\ request' = [request EXCEPT ![r].step = "answered", ![r].outcome = "lost"]
    /\ UNCHANGED <<database, screen, abandoned>>

\* The connection breaks while the server works on: a network error for the
\* panel, whose button is free again.
Disconnect(r) ==
    /\ request[r].live /\ request[r].step \notin {"idle", "answered"}
    /\ lost < MaxLost
    /\ lost' = lost + 1
    /\ request' = [request EXCEPT ![r].live = FALSE]
    /\ screen' = Heard(request[r].kind, "lost", NoAnalysis)
    /\ abandoned' = abandoned \cup {request[r].job}
    /\ UNCHANGED database

\* get_resume_tailor_analysis
ServeAnalysis(r) ==
    LET a == request[r].job IN
    /\ At(r, "analysis", "sent")
    /\ IF job[a].state = "active" /\ analysis[a] # NoAnalysis
       THEN Finish(r, "ok", analysis[a])
       ELSE Finish(r, "refused", NoAnalysis)
    /\ UNCHANGED <<database, screen, abandoned>>

\* generate_resume_tailor_analysis up to the prompt.
ReadInputs(r) ==
    LET a == request[r].job IN
    /\ At(r, "generate", "sent")
    /\ IF job[a].state = "active" /\ job[a].description # 0 /\ resume # 0
       THEN /\ request' = [request EXCEPT ![r].step = "asked",
                  ![r].inputs = [description |-> job[a].description, resume |-> resume]]
            /\ UNCHANGED lost
       ELSE Finish(r, "refused", NoAnalysis)
    /\ UNCHANGED <<database, screen, abandoned>>

\* The provider answers, or fails, or answers what does not validate.
Provide(r) ==
    /\ At(r, "generate", "asked")
    /\ \/ Proceed(r, "provided")
       \/ /\ lost < MaxLost
          /\ lost' = lost + 1
          /\ request' = [request EXCEPT ![r].step = "answered", ![r].outcome = "refused"]
    /\ UNCHANGED <<database, screen, abandoned>>

\* Is there an analysis, or a resume, to write over?
LookUp(r) ==
    /\ \/ At(r, "generate", "provided")
       \/ At(r, "upload", "sent") \/ At(r, "remove", "sent")
    /\ request' = [request EXCEPT ![r].step = "found",
             ![r].exists = request[r].kind = "generate" /\ analysis[request[r].job] # NoAnalysis,
             ![r].row = IF request[r].kind = "generate" THEN 0 ELSE row]
    /\ UNCHANGED <<database, screen, lost, abandoned>>

\* The PDF does not parse, or has no readable text.
RefuseFile(r) ==
    /\ At(r, "upload", "sent")
    /\ Finish(r, "refused", NoAnalysis)
    /\ UNCHANGED <<database, screen, abandoned>>

\* The commit: a row that was not found is inserted, against the unique and
\* the foreign key; one that was found is updated, and may be gone.
WriteAnalysis(r) ==
    LET a == request[r].job
        gone == analysis[a] = NoAnalysis
        erased == job[a].state = "erased" IN
    /\ At(r, "generate", "found")
    /\ \/ /\ request[r].exists /\ gone
          /\ Finish(r, "broken", NoAnalysis)
          /\ UNCHANGED analysis
       \/ /\ ~request[r].exists /\ (~gone \/ erased)
          /\ Finish(r, "conflict", NoAnalysis)
          /\ UNCHANGED analysis
       \/ /\ IF request[r].exists THEN ~gone ELSE gone /\ ~erased
          /\ analysis' = [analysis EXCEPT ![a] = request[r].inputs]
          /\ Proceed(r, "written")
    /\ UNCHANGED <<job, resume, row, edits, screen, abandoned>>

\* refresh: the row as it is by now, or no row.
ReadBack(r) ==
    LET read == IF request[r].kind = "generate" THEN analysis[request[r].job]
                ELSE IF row = request[r].row THEN [NoAnalysis EXCEPT !.resume = resume]
                ELSE NoAnalysis IN
    /\ request[r].step = "written"
    /\ Finish(r, IF read = NoAnalysis THEN "broken" ELSE "ok", read)
    /\ UNCHANGED <<database, screen, abandoned>>

\* upload_resume; the same, but nothing handles the unique key's refusal.
WriteResume(r) ==
    /\ At(r, "upload", "found")
    /\ edits < MaxEdits
    /\ IF row = request[r].row
       THEN /\ edits' = edits + 1 /\ resume' = edits + 1
            /\ row' = IF row = 0 THEN edits + 1 ELSE row
            /\ request' = [request EXCEPT ![r].step = "written", ![r].row = row']
            /\ UNCHANGED lost
       ELSE /\ UNCHANGED <<resume, row, edits>>
            /\ Finish(r, IF request[r].row = 0 THEN "conflict" ELSE "broken", NoAnalysis)
    /\ UNCHANGED <<job, analysis, screen, abandoned>>

\* delete_resume, by the row's id: a row that is gone by now is not missed.
DeleteResume(r) ==
    /\ At(r, "remove", "found")
    /\ LET mine == row = request[r].row
       IN  /\ resume' = IF mine THEN 0 ELSE resume
           /\ row' = IF mine THEN 0 ELSE row
    /\ Finish(r, "ok", NoAnalysis)
    /\ UNCHANGED <<job, analysis, edits, screen, abandoned>>

ServeResume(r) ==
    /\ At(r, "resume", "sent")
    /\ Finish(r, "ok", [NoAnalysis EXCEPT !.resume = resume])
    /\ UNCHANGED <<database, screen, abandoned>>
----------------------------------------------------------------------------
(***************************************************************************)
(* The answers                                                             *)
(***************************************************************************)
HearAnswer(r) ==
    /\ request[r].step = "answered"
    /\ request' = [request EXCEPT ![r] = Idle]
    /\ screen' = IF request[r].live
                 THEN Heard(request[r].kind, request[r].outcome, request[r].result)
                 ELSE screen
    /\ UNCHANGED <<database, lost, abandoned>>
----------------------------------------------------------------------------
Clicks(r) ==
    \/ \E a \in Jobs : OpenTailor(r, a)
    \/ OpenProfile(r) \/ Generate(r) \/ Upload(r) \/ Remove(r)

Serves(r) ==
    \/ ServeAnalysis(r) \/ ReadInputs(r) \/ Provide(r) \/ LookUp(r) \/ RefuseFile(r)
    \/ WriteAnalysis(r) \/ ReadBack(r) \/ WriteResume(r) \/ DeleteResume(r)
    \/ ServeResume(r) \/ LoseRequest(r) \/ Disconnect(r)

AnalysisNext ==
    \/ LeavePanel
    \/ \E r \in Requests : Clicks(r) \/ Serves(r) \/ HearAnswer(r)
    \/ \E a \in Jobs :
          \/ Describe(a)
          \/ ChangeState(a, "active", "deleted") \/ ChangeState(a, "deleted", "active")
          \/ ChangeState(a, "deleted", "erased")

AnalysisSpec == AnalysisInit /\ [][AnalysisNext]_analysisVars
----------------------------------------------------------------------------
\* The panels are what keeps one user's writes apart: a generation or an
\* upload meets the unique key (ai_analysis_service.py's ai_analysis_conflict,
\* and the error that resume_service.py does not handle) only after the tab
\* has left a panel, or lost the connection, while the server was still
\* writing, or when the record was erased; never because a button was pressed
\* twice.
ClashesExplained ==
    \A r \in Requests :
        request[r].outcome = "conflict" =>
            \/ request[r].job \in abandoned
            \/ request[r].job # NoJob /\ job[request[r].job].state = "erased"
=============================================================================

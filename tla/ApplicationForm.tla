--------------------------- MODULE ApplicationForm ---------------------------
(***************************************************************************)
(* The form that adds an application or edits one (App.tsx,                *)
(* ApplicationFormPage): the load of the record to edit, the autofill from *)
(* a job posting, the checks and the save.                                 *)
(*                                                                         *)
(* Both addresses, /applications/new and /applications/:id/edit, mount the *)
(* same component at the same place, so that going from one to the other   *)
(* keeps its state.  The effect that loads the record has no cleanup: an   *)
(* answer that comes after such a change is taken.                         *)
(*                                                                         *)
(* A field's value is abstracted to where it comes from; of a currency     *)
(* also whether it is "USD", which the autofill asks.                      *)
(***************************************************************************)
EXTENDS Naturals, FiniteSets

CONSTANTS
    Applications,
    Own,             \* the records of this user
    Urls, NoUrl,     \* postings; NoUrl: nothing, or no URL of http or https
    Fields,          \* the fields besides the posting's URL
    Required,        \* the texts that must not be blank
    Filled,          \* those that mergeAutofillFields may fill
    Currency,        \* salary_currency
    Pay,             \* salary_min and salary_max
    Has,             \* Has[a]: the fields of which record a says something
    InDollars,       \* the records, and the postings, whose currency is "USD"
    Loads, Saves,    \* slots: loads and saves that may be in progress at once
    MaxMoves,        \* bound on what the user does
    None

ASSUME FormAssumption ==
    /\ Own \subseteq Applications /\ NoUrl \notin Urls
    /\ Required \subseteq Fields /\ Filled \subseteq Fields
    /\ Currency \in Filled \ Pay /\ Pay \subseteq Filled
    /\ Has \in [Applications -> SUBSET Fields]
    /\ InDollars \subseteq Applications \cup Urls
    /\ None \notin Applications /\ MaxMoves \in Nat

VARIABLES
    open,        \* the component is mounted
    mode, app,   \* from the address
    home,        \* the active workspace is the records'
    form, url,
    loading, alert, submitting,   \* loading, formError, submitting
    load,        \* load[l]: the effect's request in slot l
    fill,        \* the autofill in progress (autofilling)
    save,        \* save[s]: the submit in slot s
    pure,        \* since it mounted the form has kept its address and its workspace, and
                 \* no load has failed
    moves

address == <<open, mode, app, home>>
values == <<form, url>>
formVars == <<address, values, loading, alert, submitting, load, fill, save, pure, moves>>
----------------------------------------------------------------------------
\* A record's URL is one to autofill from as well.
Postings == Urls \cup Applications

\* blank: nothing, or the choice "unknown"; cleared: the same, by the user.  default: the
\* form's own "USD"; usd: a "USD" that the user typed.  wrong: typed, and refused by the
\* checks (validateSalaryAmount, a salary without its period).
Value == [from : {"blank", "default", "cleared", "user", "usd", "wrong"}] \cup
         [from : {"record"}, of : Applications] \cup
         [from : {"posting"}, of : Postings]

Blank == [from |-> "blank"]
Default == [from |-> "default"]
TypedUSD == [from |-> "usd"]
Typed == [from : {"cleared", "user", "usd", "wrong"}]
IsBlank(value) == value.from \in {"blank", "cleared"}

\* current.salary_currency === "USD"
IsUSD(value) ==
    \/ value.from \in {"default", "usd"}
    \/ value.from \in {"record", "posting"} /\ value.of \in InDollars

Form == [Fields -> Value]

NoLoad == [step |-> "none"]
NoSave == [step |-> "none"]
NoFill == [step |-> "none"]

FormTypeOK ==
    /\ open \in BOOLEAN
    /\ mode \in {"create", "edit"}
    /\ app \in Applications \cup {None} /\ (mode = "edit" <=> app # None)
    /\ home \in BOOLEAN
    /\ form \in Form /\ url \in Postings \cup {NoUrl}
    /\ loading \in BOOLEAN /\ alert \in BOOLEAN /\ submitting \in BOOLEAN
    /\ load \in [Loads -> {NoLoad} \cup [step : {"asked", "served", "failed"}, app : Applications]]
    /\ fill \in {NoFill} \cup [step : {"asked", "served", "failed"}, url : Postings]
    /\ save \in [Saves -> {NoSave} \cup
           [step : {"sent", "served", "failed"}, mode : {"create", "edit"},
            app : Applications \cup {None}, form : Form, here : BOOLEAN, pure : BOOLEAN]]
    /\ pure \in BOOLEAN
    /\ moves \in 0..MaxMoves

Addresses == {<<"create", None>>} \cup ({"edit"} \X Applications)

EmptyForm == [f \in Fields |-> IF f = Currency THEN Default ELSE Blank]

NullForm(a) == [f \in Fields |-> [from |-> "null"]]    \* mutant: without ?? ""

\* applicationToForm: ?? "" and ?? "USD" where the record says nothing.  The record's URL
\* stands as the record.
FormOf(a) == [f \in Fields |-> IF f \in Has[a] THEN [from |-> "record", of |-> a]
                               ELSE EmptyForm[f]]

\* The effect asks the active workspace, which may not be the record's.
Ask(a, there) == [step |-> IF there THEN "asked" ELSE "failed", app |-> a]

\* The effect asks for the record when the address is one of an edit.
LoadIn(table, m, a, there) ==
    IF m = "edit"
    THEN \E l \in Loads : table[l] = NoLoad /\ load' = [table EXCEPT ![l] = Ask(a, there)]
    ELSE load' = table

NoLoads == [l \in Loads |-> NoLoad]

AtOnce(m) == FALSE                    \* mutant: the form is there before its record

\* useState(mode === "edit")
SpinsAtFirst(m) == m = "edit"

FormInit ==
    /\ open = TRUE /\ home = TRUE
    /\ \E at \in Addresses :
          /\ mode = at[1] /\ app = at[2]
          /\ loading = SpinsAtFirst(at[1])
          /\ \E l \in Loads :
                load = IF at[1] = "edit"
                       THEN [NoLoads EXCEPT ![l] = Ask(at[2], TRUE)]
                       ELSE NoLoads
    /\ form = EmptyForm /\ url = NoUrl
    /\ alert = FALSE /\ submitting = FALSE
    /\ fill = NoFill /\ save = [s \in Saves |-> NoSave]
    /\ pure = TRUE /\ moves = 0

\* What is drawn: a spinner, or the form with its fields and buttons.
Shown == open /\ ~loading

Move == moves < MaxMoves /\ moves' = moves + 1
----------------------------------------------------------------------------
(***************************************************************************)
(* The user                                                                *)
(***************************************************************************)
Elsewhere(s) == IF save[s] = NoSave THEN NoSave ELSE [save[s] EXCEPT !.here = FALSE]

\* The form mounts, after another page.
Open(m, a) ==
    /\ ~open
    /\ Move
    /\ open' = TRUE /\ mode' = m /\ app' = a
    /\ form' = EmptyForm /\ url' = NoUrl
    /\ loading' = SpinsAtFirst(m) /\ alert' = FALSE /\ submitting' = FALSE
    /\ LoadIn(NoLoads, m, a, home)
    /\ fill' = NoFill
    /\ pure' = TRUE
    /\ UNCHANGED <<home, save>>

\* Cancel, Back or a link: the requests in progress find nothing to set.
LeaveForm ==
    /\ open
    /\ Move
    /\ open' = FALSE
    /\ load' = NoLoads /\ fill' = NoFill
    /\ save' = [s \in Saves |-> Elsewhere(s)]
    /\ UNCHANGED <<mode, app, home, values, loading, alert, submitting, pure>>

\* "Add application" of the shell, or the browser's history: another address of the
\* same component.  Only the effect notices.
ChangeAddress(m, a) ==
    /\ open /\ <<m, a>> # <<mode, app>>
    /\ Move
    /\ mode' = m /\ app' = a
    /\ LoadIn(load, m, a, home)
    /\ pure' = FALSE
    /\ UNCHANGED <<open, home, values, loading, alert, submitting, fill, save>>

\* The shell's choice of workspace: the form stays, and the effect asks the new one.
SwitchWorkspace ==
    /\ Move
    /\ home' = ~home
    /\ IF open THEN LoadIn(load, mode, app, ~home) /\ pure' = FALSE
       ELSE UNCHANGED <<load, pure>>
    /\ UNCHANGED <<open, mode, app, values, loading, alert, submitting, fill, save>>

SetField(f, value) ==
    /\ Shown /\ value # form[f]
    /\ Move
    /\ form' = [form EXCEPT ![f] = value]
    /\ UNCHANGED <<address, url, loading, alert, submitting, load, fill, save, pure>>

SetUrl(u) ==
    /\ Shown /\ u # url
    /\ Move
    /\ url' = u
    /\ UNCHANGED <<address, form, loading, alert, submitting, load, fill, save, pure>>

\* autofill; what is not a URL of http or https is refused here.
Autofill ==
    /\ Shown /\ mode = "create" /\ fill = NoFill /\ ~submitting
    /\ Move
    /\ IF url # NoUrl THEN fill' = [step |-> "asked", url |-> url] /\ alert' = FALSE
       ELSE alert' = TRUE /\ UNCHANGED fill
    /\ UNCHANGED <<address, values, loading, submitting, load, save, pure>>

Correct ==
    /\ url # NoUrl
    /\ \A f \in Required : ~IsBlank(form[f])
    /\ \A f \in Fields : form[f].from # "wrong"

\* An update is for the active workspace, which may not be the record's.
SaveStep == IF mode = "edit" /\ ~home THEN "failed" ELSE "sent"

\* submit; the button is disabled while one is in progress.
Submit(s) ==
    /\ Shown /\ ~submitting /\ save[s] = NoSave
    /\ Move
    /\ IF Correct
       THEN /\ save' = [save EXCEPT ![s] =
                          [step |-> SaveStep, mode |-> mode, app |-> app, form |-> form,
                           here |-> TRUE, pure |-> pure]]
            /\ submitting' = TRUE /\ alert' = FALSE
       ELSE alert' = TRUE /\ UNCHANGED <<save, submitting>>
    /\ UNCHANGED <<address, values, loading, load, fill, pure>>
----------------------------------------------------------------------------
(***************************************************************************)
(* The answers                                                             *)
(***************************************************************************)
ServeLoad(l) ==
    /\ load[l].step = "asked"
    /\ \E outcome \in {"served", "failed"} : load' = [load EXCEPT ![l].step = outcome]
    /\ UNCHANGED <<address, values, loading, alert, submitting, fill, save, pure, moves>>

\* The record fills the form, whatever the form is for by now and whatever has been
\* typed; a record of another owner is an error.
TakeRecord(l) ==
    /\ load[l].step \in {"served", "failed"}
    /\ LET a == load[l].app
           good == load[l].step = "served" /\ a \in Own
       IN  IF good THEN form' = FormOf(a) /\ url' = a /\ UNCHANGED <<alert, pure>>
           ELSE alert' = TRUE /\ pure' = FALSE /\ UNCHANGED values
    /\ loading' = FALSE
    /\ load' = [load EXCEPT ![l] = NoLoad]
    /\ UNCHANGED <<address, submitting, fill, save, moves>>

ServeFill ==
    /\ fill.step = "asked"
    /\ \E outcome \in {"served", "failed"} : fill' = [fill EXCEPT !.step = outcome]
    /\ UNCHANGED <<address, values, loading, alert, submitting, load, save, pure, moves>>

AnyUSD(f) == f \in Filled /\ (IsBlank(form[f]) \/ (f = Currency /\ IsUSD(form[f])))
                                      \* mutant: whatever pay the user has typed

Unpaid == \A p \in Pay : IsBlank(form[p])

\* fillText and the choices: only what is blank when the answer arrives.  A currency of
\* "USD" without pay counts as blank, whether the form or the user put it there.
Fills(f) ==
    /\ f \in Filled
    /\ IsBlank(form[f]) \/ (f = Currency /\ IsUSD(form[f]) /\ Unpaid)

\* mergeAutofillFields; the posting may say nothing of a field.
TakeFill ==
    /\ fill.step \in {"served", "failed"}
    /\ IF fill.step = "served"
       THEN \E said \in SUBSET Filled :
               form' = [f \in Fields |-> IF f \in said /\ Fills(f)
                                         THEN [from |-> "posting", of |-> fill.url]
                                         ELSE form[f]]
       ELSE UNCHANGED form
    /\ alert' = (alert \/ fill.step = "failed")
    /\ fill' = NoFill
    /\ UNCHANGED <<address, url, loading, submitting, load, save, pure, moves>>

ServeSave(s) ==
    /\ save[s].step = "sent"
    /\ \/ (save[s].mode = "edit" => save[s].app \in Own)
          /\ save' = [save EXCEPT ![s].step = "served"]
       \/ save' = [save EXCEPT ![s].step = "failed"]
    /\ UNCHANGED <<address, values, loading, alert, submitting, load, fill, pure, moves>>

\* Saved: to the record's page, wherever the user is by now.
FinishSave(s) ==
    /\ save[s].step = "served"
    /\ open' = FALSE
    /\ load' = NoLoads /\ fill' = NoFill
    /\ submitting' = (submitting /\ ~save[s].here)
    /\ save' = [k \in Saves |-> IF k = s THEN NoSave ELSE Elsewhere(k)]
    /\ UNCHANGED <<mode, app, home, values, loading, alert, pure, moves>>

FailSave(s) ==
    /\ save[s].step = "failed"
    /\ alert' = (alert \/ save[s].here) /\ submitting' = (submitting /\ ~save[s].here)
    /\ save' = [save EXCEPT ![s] = NoSave]
    /\ UNCHANGED <<address, values, loading, load, fill, pure, moves>>
----------------------------------------------------------------------------
AnswerArrives ==
    \/ \E l \in Loads : ServeLoad(l) \/ TakeRecord(l)
    \/ ServeFill \/ TakeFill
    \/ \E s \in Saves : ServeSave(s) \/ FinishSave(s) \/ FailSave(s)

\* Only of a currency does it matter whether the user types "USD".
UserTypes ==
    \/ \E f \in Fields, value \in Typed :
          (value = TypedUSD => f = Currency) /\ SetField(f, value)
    \/ \E u \in Urls \cup {NoUrl} : SetUrl(u)

FormNext ==
    \/ \E at \in Addresses : Open(at[1], at[2]) \/ ChangeAddress(at[1], at[2])
    \/ LeaveForm \/ SwitchWorkspace
    \/ UserTypes
    \/ Autofill
    \/ \E s \in Saves : Submit(s)
    \/ AnswerArrives

FormSpec == FormInit /\ [][FormNext]_formVars
----------------------------------------------------------------------------
(***************************************************************************)
(* Properties                                                              *)
(***************************************************************************)
\* What the user has typed is replaced by the user, by a record that arrives or by a
\* form that mounts anew, and never by what an autofill found meanwhile, however
\* late it comes: except a currency of "USD" that was typed while the form holds no pay,
\* which mergeAutofillFields takes for the form's own default.
TypedIsKept ==
    [][\A f \in Fields :
          form[f].from \in {"user", "usd", "wrong"} /\ form'[f] # form[f] =>
              \/ UserTypes \/ (\E l \in Loads : TakeRecord(l)) \/ ~open
              \/ /\ TakeFill /\ f = Currency /\ form[f] = TypedUSD
                 /\ \A p \in Pay : form[p].from \in {"blank", "cleared"}]_formVars

\* An edit saves, field by field, what its record had or what the user typed: unless
\* the form came to this address by a change of address, or the workspace was switched
\* under it, or its load has failed, when it saves blanks or another record's values; and
\* except that a record without a currency is saved with the form's own "USD".
EditSavesItsRecord ==
    \A s \in Saves :
        save[s] # NoSave /\ save[s].mode = "edit" /\ save[s].pure =>
            \A f \in Fields :
                \/ save[s].form[f] \in Typed
                \/ save[s].form[f] = IF f \in Has[save[s].app]
                                     THEN [from |-> "record", of |-> save[s].app]
                                     ELSE IF f = Currency THEN Default ELSE Blank
=============================================================================

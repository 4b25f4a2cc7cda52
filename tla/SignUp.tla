------------------------------- MODULE SignUp -------------------------------
(***************************************************************************)
(* The registration page: SignupWizard with its steps, registrationMachine *)
(* behind it, and the two calls of AuthService that it makes.  Every step  *)
(* sends its form and NEXT together; the machine drops a NEXT whose guard  *)
(* fails.  A request is handled at one moment and answered at another, its *)
(* answer may be lost, and a request given up may still be handled later.  *)
(* Register is one step here; Provisioning models what is inside it.       *)
(***************************************************************************)
EXTENDS Naturals, FiniteSets

CONSTANTS
  Emails, NoEmail,
  MaxSeats,         \* bound: seats that the plan step goes up to
  MaxReceived       \* bound: registrations and contacts on the server; one
                    \* registration at most is late

ASSUME SignUpAssumption == NoEmail \notin Emails /\ MaxSeats \in Nat \ {0}

VARIABLES
  signup,    \* state, context and shown plan form of the wizard
  reply,     \* what the server has answered to the call under way
  late,      \* registrations given up by the browser and not yet handled
  taken,     \* addresses with an account
  pending,   \* registrations that wait for their payment
  contacts,  \* enterprise contacts received
  freeSeen   \* addresses that some check has answered as free

signUpVars == <<signup, reply, late, taken, pending, contacts, freeSeen>>
backend    == <<taken, pending, contacts>>

Plans == {"STARTER", "PRO"}
Seats == 1..MaxSeats
(* A text field: nothing, blanks only, or a text.                          *)
Texts == {"", "blank", "text"}
Registration == [email : Emails, org : Texts, account : Texts,
                 plan : Plans, seats : Seats]
Contact      == [email : Emails, org : Texts, account : Texts]
SignUpStates == {"email", "checkingEmail", "org", "account", "plan",
                 "enterpriseContact", "submittingEnterprise", "enterpriseSuccess",
                 "submitting", "redirectingToCheckout", "success"}
Replies == {"none", "free", "exists", "checkout", "refused", "received"}

FirstForm == [plan |-> "STARTER", seats |-> 1]
EmptySignUp == [at |-> "email", email |-> NoEmail, org |-> "", account |-> "",
                plan |-> "STARTER", seats |-> 1, form |-> FirstForm]

SignUpInit ==
  /\ signup = EmptySignUp /\ reply = "none"
  /\ late = {} /\ taken = {} /\ pending = {} /\ contacts = {} /\ freeSeen = {}

At(s)     == signup.at = s
Enter(w)  == signup' = w /\ UNCHANGED <<reply, late, backend, freeSeen>>
Collected == [email |-> signup.email, org |-> signup.org, account |-> signup.account,
              plan |-> signup.plan, seats |-> signup.seats]
Held(e)   == e \in taken \/ \E r \in pending : r.email = e
Room      == Cardinality(pending) + Cardinality(contacts) < MaxReceived

-----------------------------------------------------------------------------
(* The steps.  The schema of a form wants its fields non-empty, the guard  *)
(* of the machine wants them non-blank.                                    *)

EmailForm   == Emails
OrgForm     == Texts \ {""}
AccountForm == Texts \ {""}

SubmitEmail == At("email") /\ \E e \in EmailForm :
  Enter([signup EXCEPT !.at = "checkingEmail", !.email = e])

(* Mutant: the step is left whatever the name of the company is.           *)
SubmitOrgUnguarded == At("org") /\ \E t \in OrgForm :
  Enter([signup EXCEPT !.org = t, !.at = "account"])

SubmitOrg == At("org") /\ \E t \in OrgForm :
  Enter([signup EXCEPT !.org = t, !.at = IF t = "text" THEN "account" ELSE @])

(* The plan step keeps its choice to itself; each time it is shown it       *)
(* starts from the plan and the seats of the context.                      *)
PlanShown(w) == [w EXCEPT !.at = "plan",
                          !.form = [plan |-> signup.plan, seats |-> signup.seats]]

SubmitAccount == At("account") /\ \E t \in AccountForm :
  LET filled == [signup EXCEPT !.account = t]
  IN  Enter(IF t = "text" THEN PlanShown(filled) ELSE filled)

SelectPlan  == At("plan") /\ \E p \in Plans :
  Enter([signup EXCEPT !.form.plan = p])
ChangeSeats == At("plan") /\ \E n \in Seats \cap {signup.form.seats - 1, signup.form.seats + 1} :
  Enter([signup EXCEPT !.form.seats = n])

(* Mutant: SUBMIT goes before SET_PLAN, which submitting does not take.    *)
SubmitPlanLate == At("plan") /\ Enter([signup EXCEPT !.at = "submitting"])

SubmitPlan == At("plan") /\
  Enter([signup EXCEPT !.plan = signup.form.plan, !.seats = signup.form.seats,
                       !.at = "submitting"])

SelectEnterprise ==
  At("plan") /\ Enter([signup EXCEPT !.at = "enterpriseContact", !.form = FirstForm])
CancelEnterprise == At("enterpriseContact") /\ Enter(PlanShown(signup))
SubmitEnterprise == At("enterpriseContact")
                      /\ Enter([signup EXCEPT !.at = "submittingEnterprise"])

Back ==
  \/ At("org")     /\ Enter([signup EXCEPT !.at = "email"])
  \/ At("account") /\ Enter([signup EXCEPT !.at = "org"])
  \/ At("plan")    /\ Enter([signup EXCEPT !.at = "account", !.form = FirstForm])

-----------------------------------------------------------------------------
(* The server handles a request.                                           *)

CheckEmailExists ==
  /\ At("checkingEmail") /\ reply = "none"
  /\ reply' = IF Held(signup.email) THEN "exists" ELSE "free"
  /\ freeSeen' = IF Held(signup.email) THEN freeSeen ELSE freeSeen \cup {signup.email}
  /\ UNCHANGED <<signup, late, backend>>

(* Answers that an address is held; creates the pending registration       *)
(* otherwise.                                                              *)
RegisterOnServer(r) ==
  pending' = IF Held(r.email) THEN pending ELSE pending \cup {r}

Register ==
  /\ At("submitting") /\ reply = "none"
  /\ Held(signup.email) \/ Room
  /\ RegisterOnServer(Collected)
  /\ reply' = IF Held(signup.email) THEN "refused" ELSE "checkout"
  /\ UNCHANGED <<signup, late, taken, contacts, freeSeen>>

LateRegister == \E r \in late :
  /\ Held(r.email) \/ Room
  /\ RegisterOnServer(r)
  /\ late' = late \ {r}
  /\ UNCHANGED <<signup, reply, taken, contacts, freeSeen>>

EnterpriseContact ==
  /\ At("submittingEnterprise") /\ reply = "none"
  /\ Room
  /\ contacts' = contacts \cup
       {[email |-> signup.email, org |-> signup.org, account |-> signup.account]}
  /\ reply' = "received"
  /\ UNCHANGED <<signup, late, taken, pending, freeSeen>>

(* Somebody registers elsewhere: an invitation, a payment that came in.    *)
TakenElsewhere == taken = {} /\ \E e \in Emails :
  /\ taken' = taken \cup {e}
  /\ UNCHANGED <<signup, reply, late, pending, contacts, freeSeen>>

-----------------------------------------------------------------------------
(* The machine takes the answer.                                           *)

Takes(w) == signup' = w /\ reply' = "none" /\ UNCHANGED <<backend, freeSeen>>

EmailChecked ==
  /\ At("checkingEmail") /\ reply # "none"
  /\ Takes([signup EXCEPT !.at = IF reply = "free" THEN "org" ELSE "email"])
  /\ UNCHANGED late

Registered ==
  /\ At("submitting") /\ reply # "none"
  /\ Takes(IF reply = "checkout" THEN [signup EXCEPT !.at = "redirectingToCheckout"]
                                 ELSE PlanShown(signup))
  /\ UNCHANGED late

EnterpriseSubmitted ==
  /\ At("submittingEnterprise") /\ reply # "none"
  /\ Takes([signup EXCEPT !.at = "enterpriseSuccess"])
  /\ UNCHANGED late

(* A registration that the browser gives up may still be on its way.       *)
GivenUp == \/ UNCHANGED late
           \/ /\ At("submitting") /\ reply = "none" /\ late = {}
              /\ late' = late \cup {Collected}

(* No answer comes: the request or its answer is lost, or it is only slow. *)
CallFails ==
  /\ \/ At("checkingEmail") /\ Takes([signup EXCEPT !.at = "email"])
     \/ At("submittingEnterprise") /\ Takes([signup EXCEPT !.at = "enterpriseContact"])
     \/ At("submitting") /\ Takes(PlanShown(signup))
  /\ GivenUp

(* Leaving for Stripe and coming back, or loading the page again.          *)
Reload == signup # EmptySignUp /\ Takes(EmptySignUp) /\ GivenUp

SignUpNext ==
  \/ SubmitEmail \/ SubmitOrg \/ SubmitAccount \/ Back
  \/ SelectPlan \/ ChangeSeats \/ SubmitPlan
  \/ SelectEnterprise \/ CancelEnterprise \/ SubmitEnterprise
  \/ CheckEmailExists \/ Register \/ LateRegister \/ EnterpriseContact
  \/ TakenElsewhere
  \/ EmailChecked \/ Registered \/ EnterpriseSubmitted \/ CallFails \/ Reload

SignUpSpec == SignUpInit /\ [][SignUpNext]_signUpVars

-----------------------------------------------------------------------------
SignUpTypeOK ==
  /\ signup \in [at : SignUpStates, email : Emails \cup {NoEmail}, org : Texts,
                 account : Texts, plan : Plans, seats : Seats,
                 form : [plan : Plans, seats : Seats]]
  /\ reply \in Replies
  /\ late \subseteq Registration /\ pending \subseteq Registration
  /\ contacts \subseteq Contact
  /\ taken \subseteq Emails /\ freeSeen \subseteq Emails

(* Whatever the user goes back to and changes, the server receives a       *)
(* registration or an enterprise contact only with a company and a name    *)
(* that are not blank, and for an address that a check has found free.     *)
ReceivedComplete ==
  \A r \in pending \cup contacts :
    r.org = "text" /\ r.account = "text" /\ r.email \in freeSeen

(* The browser leaves for the checkout only when the server holds the      *)
(* registration with the plan and the seats that the plan step showed.     *)
CheckoutAsShown ==
  At("redirectingToCheckout") =>
    \E r \in pending : /\ r.email = signup.email
                       /\ r.plan = signup.form.plan /\ r.seats = signup.form.seats
=============================================================================

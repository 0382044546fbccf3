------------------------------ MODULE Registration ------------------------------
(***************************************************************************)
(* The accounts of clients and providers: AuthService.registerClient and   *)
(* registerProvider with the consents they record, and what takes an       *)
(* account or its provider away.  A registration looks its keys up,        *)
(* awaits, and inserts by statements of their own; nothing is undone when  *)
(* one of them fails.  The telephone, one more unique key, is left out.    *)
(***************************************************************************)
EXTENDS Integers

CONSTANTS
    Signups,        \* calls of registerClient and registerProvider
    Emails, Cpfs    \* what they may carry

Roles     == {"CLIENT", "PROVIDER"}
Documents == {"TERMS", "PRIVACY", "COOKIES"}
Form      == [role : Roles, email : Emails, cpf : Cpfs]

VARIABLES
    form,           \* the dto of each call
    signup,         \* what each call does next
    users,          \* calls whose User row exists
    withdrawn,      \* users whose e-mail has been replaced by a deleted-... one
    profiles,       \* calls whose Client or Provider row exists
    addresses,      \* calls whose Address row exists
    consents,       \* UserConsent rows of each call's user, by document
    recording,      \* recordConsent calls that have not answered yet
    removed         \* calls whose provider an administrator has removed

registrationVars ==
    <<form, signup, users, withdrawn, profiles, addresses, consents, recording, removed>>

SignupSteps == {"idle", "insert", "profile", "address", "invite", "terms", "consents", "login"}
Answers     == {"created", "refused", "failed"}

RegistrationInit ==
    /\ form \in [Signups -> Form]
    /\ signup = [s \in Signups |-> "idle"]
    /\ users = {} /\ withdrawn = {} /\ profiles = {} /\ addresses = {} /\ removed = {}
    /\ consents = [s \in Signups |-> {}] /\ recording = [s \in Signups |-> {}]
-----------------------------------------------------------------------------
SignupGoes(s, to) == signup' = [signup EXCEPT ![s] = to]
IsClient(s)       == form[s].role = "CLIENT"

\* User.email is unique, and so is the cpf among clients and among providers.
EmailFree(s) == \A t \in users \ withdrawn : form[t].email # form[s].email
CpfFree(s)   == \A t \in profiles : form[t].role = form[s].role => form[t].cpf # form[s].cpf

\* Both register methods begin with look-ups, which other calls overtake; a client that
\* does not accept the terms and a provider without a valid date of birth are refused too.
LookUp(s) ==
    /\ signup[s] = "idle"
    /\ \/ EmailFree(s) /\ CpfFree(s) /\ SignupGoes(s, "insert")
       \/ SignupGoes(s, "refused")
    /\ UNCHANGED <<form, users, withdrawn, profiles, addresses, consents, recording, removed>>

\* One nested create makes user, client and address.
InsertClient(s) ==
    /\ signup[s] = "insert" /\ IsClient(s)
    /\ IF EmailFree(s) /\ CpfFree(s)
         THEN /\ users' = users \cup {s} /\ profiles' = profiles \cup {s}
              /\ addresses' = addresses \cup {s} /\ SignupGoes(s, "invite")
         ELSE SignupGoes(s, "refused") /\ UNCHANGED <<users, profiles, addresses>>
    /\ UNCHANGED <<form, withdrawn, consents, recording, removed>>

InsertUser(s) ==
    /\ signup[s] = "insert" /\ ~IsClient(s)
    /\ IF EmailFree(s)
         THEN users' = users \cup {s} /\ SignupGoes(s, "profile")
         ELSE SignupGoes(s, "refused") /\ UNCHANGED users
    /\ UNCHANGED <<form, withdrawn, profiles, addresses, consents, recording, removed>>

\* A provider whose cpf another call has inserted by now: the user stays.
InsertProvider(s) ==
    /\ signup[s] = "profile"
    /\ IF CpfFree(s)
         THEN profiles' = profiles \cup {s} /\ SignupGoes(s, "address")
         ELSE SignupGoes(s, "failed") /\ UNCHANGED profiles
    /\ UNCHANGED <<form, users, withdrawn, addresses, consents, recording, removed>>

\* The provider's row may be gone again: then the foreign key refuses.
InsertAddress(s) ==
    /\ signup[s] = "address"
    /\ IF s \in profiles
         THEN addresses' = addresses \cup {s} /\ SignupGoes(s, "invite")
         ELSE SignupGoes(s, "failed") /\ UNCHANGED addresses
    /\ UNCHANGED <<form, users, withdrawn, profiles, consents, recording, removed>>

\* The location of the address and the referral: they write rows of other components,
\* and what they throw ends the call (SignupFails).
AcceptInvitation(s) ==
    /\ signup[s] = "invite"
    /\ IF IsClient(s)
         THEN SignupGoes(s, "terms") /\ UNCHANGED recording
         ELSE /\ SignupGoes(s, "consents")
              /\ recording' = [recording EXCEPT ![s] = Documents]
    /\ UNCHANGED <<form, users, withdrawn, profiles, addresses, consents, removed>>

\* A client's terms come first, with the version and the moment the app sends.
RecordTerms(s) ==
    /\ signup[s] = "terms"
    /\ consents' = [consents EXCEPT ![s] = @ \cup {"TERMS"}]
    /\ recording' = [recording EXCEPT ![s] = Documents \ {"TERMS"}]
    /\ SignupGoes(s, "consents")
    /\ UNCHANGED <<form, users, withdrawn, profiles, addresses, removed>>

\* recordDefaultConsents: the calls run side by side, and go on when one has failed.
RecordConsent(s, d) ==
    /\ d \in recording[s]
    /\ consents' = [consents EXCEPT ![s] = @ \cup {d}]
    /\ recording' = [recording EXCEPT ![s] = @ \ {d}]
    /\ UNCHANGED <<form, signup, users, withdrawn, profiles, addresses, removed>>

ConsentFails(s, d) ==
    /\ d \in recording[s]
    /\ recording' = [recording EXCEPT ![s] = @ \ {d}]
    /\ SignupGoes(s, "failed")
    /\ UNCHANGED <<form, users, withdrawn, profiles, addresses, consents, removed>>

NotAwaited(s) == TRUE
AllAnswered(s) == recording[s] = {}

ConsentsRecorded(s) ==
    /\ signup[s] = "consents" /\ AllAnswered(s)
    /\ SignupGoes(s, "login")
    /\ UNCHANGED <<form, users, withdrawn, profiles, addresses, consents, recording, removed>>

\* login reads the account back and answers with a token.
AnswerSignup(s) ==
    /\ signup[s] = "login"
    /\ SignupGoes(s, "created")
    /\ UNCHANGED <<form, users, withdrawn, profiles, addresses, consents, recording, removed>>

\* A statement throws, or the process dies and takes its open calls with it.
SignupFails(s) ==
    /\ signup[s] \in SignupSteps \ {"idle"}
    /\ SignupGoes(s, "failed")
    /\ \/ UNCHANGED recording
       \/ recording' = [recording EXCEPT ![s] = {}]
    /\ UNCHANGED <<form, users, withdrawn, profiles, addresses, consents, removed>>
-----------------------------------------------------------------------------
\* acceptTerms, for whoever has the role of a provider.
AcceptTerms(s) ==
    /\ s \in users /\ ~IsClient(s)
    /\ consents' = [consents EXCEPT ![s] = @ \cup {"TERMS"}]
    /\ UNCHANGED <<form, signup, users, withdrawn, profiles, addresses, recording, removed>>

\* UsersService.remove and requestAccountDeletion: the e-mail is free, the rows stay.
Withdraw(s) ==
    /\ s \in users
    /\ withdrawn' = withdrawn \cup {s}
    /\ UNCHANGED <<form, signup, users, profiles, addresses, consents, recording, removed>>

\* ProvidersService.remove: the provider and its address go, the user stays.
RemoveProvider(s) ==
    /\ s \in profiles /\ ~IsClient(s)
    /\ profiles' = profiles \ {s} /\ addresses' = addresses \ {s}
    /\ removed' = removed \cup {s}
    /\ UNCHANGED <<form, signup, users, withdrawn, consents, recording>>
-----------------------------------------------------------------------------
Inserts(s) == InsertClient(s) \/ InsertUser(s) \/ InsertProvider(s) \/ InsertAddress(s)

Consenting(s) ==
    \/ RecordTerms(s) \/ ConsentsRecorded(s)
    \/ \E d \in Documents : RecordConsent(s, d) \/ ConsentFails(s, d)

RegistrationNext ==
    \E s \in Signups :
       \/ LookUp(s) \/ Inserts(s) \/ AcceptInvitation(s) \/ Consenting(s)
       \/ AnswerSignup(s) \/ SignupFails(s)
       \/ AcceptTerms(s) \/ Withdraw(s) \/ RemoveProvider(s)

RegistrationSpec == RegistrationInit /\ [][RegistrationNext]_registrationVars
-----------------------------------------------------------------------------
\* Every variable keeps its domain.
RegistrationTypeOK ==
    /\ form \in [Signups -> Form]
    /\ signup \in [Signups -> SignupSteps \cup Answers]
    /\ users \subseteq Signups /\ withdrawn \subseteq users
    /\ profiles \subseteq Signups /\ addresses \subseteq profiles /\ removed \subseteq Signups
    /\ consents \in [Signups -> SUBSET Documents]
    /\ recording \in [Signups -> SUBSET Documents]

\* Whatever other registrations, failures and removals come in between, an account that
\* was answered with a token has its profile, its address and every consent (without the
\* terms a client can never book), unless an administrator removed the provider; a client
\* never lacks its parts; and no two accounts share an e-mail, no two profiles of a kind a cpf.
AccountComplete ==
    /\ \A s \in Signups : signup[s] = "created" =>
          /\ s \in users /\ consents[s] = Documents
          /\ s \in addresses \cup removed
    /\ \A s \in users : IsClient(s) => s \in addresses
    /\ \A s, t \in Signups : s # t =>
          /\ {s, t} \subseteq users \ withdrawn => form[s].email # form[t].email
          /\ {s, t} \subseteq profiles /\ form[s].role = form[t].role => form[s].cpf # form[t].cpf
=============================================================================

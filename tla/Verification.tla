------------------------------- MODULE Verification -------------------------------
(***************************************************************************)
(* The documents of one provider and its verificationStatus:               *)
(* VerificationService, over ProvidersService.findOne, which answers from  *)
(* the process's cache, and on a miss reads the row and fills the cache    *)
(* afterwards.  No upload and no decision drops the cached row.            *)
(***************************************************************************)
EXTENDS Integers

CONSTANTS
    Docs,           \* the documents asked for
    Senders,        \* requests in flight together
    ByHand,         \* statuses set by hand, of all of them
    MaxSends        \* bound: requests made in all

Collecting == "PENDING_DOCUMENTS_UPLOAD"
Reviewing  == "PENDING_MANUAL_REVIEW"
VerificationStatuses ==
    {"PENDING_INITIAL_REVIEW", Collecting, "PENDING_BACKGROUND_CHECK", Reviewing,
     "APPROVED", "REJECTED", "BLOCKED"}

ASSUME VerificationAssumption ==
    Docs # {} /\ MaxSends \in Nat /\ ByHand \subseteq VerificationStatuses

Row == [docs : SUBSET Docs, status : VerificationStatuses]
NoRow == [docs |-> {}, status |-> "none"]

VARIABLES
    sent,           \* documents whose URL is in the row
    verification,   \* verificationStatus
    cachedRow,      \* what findOne answers, or NoRow
    sender,         \* each request: what it does next, its document, the row it has
    sends,          \* requests made
    decided,        \* the status is an administrator's, or advanceVerificationStatus's
    misread,        \* a request decided on documents that were not the current ones
    cut             \* a request ended between its document and the check

verificationVars == <<sent, verification, cachedRow, sender, sends, decided, misread, cut>>

Current == [docs |-> sent, status |-> verification]
AnyDoc == CHOOSE d \in Docs : TRUE
Resting == [do |-> "idle", doc |-> AnyDoc, row |-> NoRow]
SenderSteps == {"idle", "visit", "find", "fill", "leave", "save", "check", "refill", "decide"}

\* A request goes on, with the row it has read.
SenderGoes(s, step) == sender' = [sender EXCEPT ![s].do = step]
SenderHas(s, step, row) == sender' = [sender EXCEPT ![s].do = step, ![s].row = row]
Rests(s) == sender' = [sender EXCEPT ![s] = Resting]

VerificationInit ==
    /\ sent = {} /\ verification = "PENDING_INITIAL_REVIEW" /\ cachedRow = NoRow
    /\ sender = [s \in Senders |-> Resting] /\ sends = 0
    /\ decided = FALSE /\ misread = FALSE /\ cut = FALSE
-----------------------------------------------------------------------------
\* An upload of a document, or a visit of the provider's page.
SendBegins(s) ==
    /\ sender[s] = Resting
    /\ sends < MaxSends /\ sends' = sends + 1
    /\ \E d \in Docs, step \in {"find", "visit"} :
          sender' = [sender EXCEPT ![s].do = step, ![s].doc = d]
    /\ UNCHANGED <<sent, verification, cachedRow, decided, misread, cut>>

\* findOne: what follows a hit, and what follows a miss.
AfterHit(step) ==
    CASE step = "find" -> "save" [] step = "check" -> "decide" [] step = "visit" -> "idle"
AfterMiss(step) ==
    CASE step = "find" -> "fill" [] step = "check" -> "refill" [] step = "visit" -> "leave"
AfterFill(step) ==
    CASE step = "fill" -> "save" [] step = "refill" -> "decide" [] step = "leave" -> "idle"

FindOne(s) ==
    LET step == sender[s].do
    IN  /\ step \in {"find", "check", "visit"}
        /\ IF cachedRow # NoRow
           THEN IF AfterHit(step) = "idle" THEN Rests(s)
                                           ELSE SenderHas(s, AfterHit(step), cachedRow)
           ELSE SenderHas(s, AfterMiss(step), Current)
        /\ UNCHANGED <<sent, verification, cachedRow, sends, decided, misread, cut>>

FillCache(s) ==
    LET step == sender[s].do
    IN  /\ step \in {"fill", "refill", "leave"}
        /\ cachedRow' = sender[s].row
        /\ IF AfterFill(step) = "idle" THEN Rests(s) ELSE SenderGoes(s, AfterFill(step))
        /\ UNCHANGED <<sent, verification, sends, decided, misread, cut>>

\* handleDocumentUpload: the URL is written, then the row is looked up again.
SaveUrl(s) ==
    /\ sender[s].do = "save"
    /\ sent' = sent \cup {sender[s].doc}
    /\ SenderGoes(s, "check")
    /\ UNCHANGED <<verification, cachedRow, sends, decided, misread, cut>>

\* updateStatusForManualReview: writes by id what follows from the row it has.
OnePhoto(row) == row.docs # {}
AllSent(row) == row.docs = Docs
StatusFor(row) == IF AllSent(row) THEN Reviewing ELSE Collecting

DecideStatus(s) ==
    LET row == sender[s].row
    IN  /\ sender[s].do = "decide"
        /\ IF row.status # StatusFor(row)
           THEN verification' = StatusFor(row) /\ decided' = FALSE
           ELSE UNCHANGED <<verification, decided>>
        /\ misread' = (misread \/ row.docs # sent)
        /\ Rests(s)
        /\ UNCHANGED <<sent, cachedRow, sends, cut>>

\* The storage refuses the image, a statement fails, or the process dies.
SendEnds(s) ==
    /\ sender[s].do \notin {"idle", "leave", "visit"}
    /\ cut' = (cut \/ sender[s].do \in {"check", "refill", "decide"})
    /\ Rests(s)
    /\ UNCHANGED <<sent, verification, cachedRow, sends, decided, misread>>

\* updateProviderVerificationStatusManually, rejectProvider and
\* advanceVerificationStatus: any status, by id.
SetByHand(status) ==
    /\ sends < MaxSends /\ sends' = sends + 1
    /\ verification' = status /\ decided' = TRUE
    /\ UNCHANGED <<sent, cachedRow, sender, misread, cut>>

\* The entry's time runs out, or a change of the profile drops it.
CacheEnds ==
    /\ cachedRow # NoRow /\ cachedRow' = NoRow
    /\ UNCHANGED <<sent, verification, sender, sends, decided, misread, cut>>
-----------------------------------------------------------------------------
VerificationNext ==
    \/ \E s \in Senders : \/ SendBegins(s) \/ FindOne(s) \/ FillCache(s) \/ SaveUrl(s)
                          \/ DecideStatus(s) \/ SendEnds(s)
    \/ \E status \in ByHand : SetByHand(status)
    \/ CacheEnds

VerificationSpec == VerificationInit /\ [][VerificationNext]_verificationVars
-----------------------------------------------------------------------------
\* Every variable keeps its domain.
VerificationTypeOK ==
    /\ sent \subseteq Docs /\ verification \in VerificationStatuses
    /\ cachedRow \in Row \cup {NoRow}
    /\ sender \in [Senders -> [do : SenderSteps, doc : Docs, row : Row \cup {NoRow}]]
    /\ sends \in Nat /\ decided \in BOOLEAN /\ misread \in BOOLEAN /\ cut \in BOOLEAN

\* Whatever the cache answers and however uploads overlap, a provider is not put under
\* review before all documents are there; and once no upload is on its way, with all of
\* them there, it is under review, unless an upload decided on a row of the cache that
\* was older than the documents, or ended before its check.
ReviewFollowsDocuments ==
    /\ verification = Reviewing /\ ~decided => sent = Docs
    /\ /\ sent = Docs /\ ~decided /\ ~misread /\ ~cut
       /\ \A s \in Senders : sender[s].do \in {"idle", "visit", "leave"}
       => verification = Reviewing
=============================================================================

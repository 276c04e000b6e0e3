---------------------------- MODULE WhatsAppOutbox ----------------------------
(***************************************************************************)
(* The outbox of WhatsApp messages: triggerWorkflow inserts a record per   *)
(* recipient, invocations of processOutboxQueue claim records, send them   *)
(* and report the delivery, and dispatchDecision records what a recipient  *)
(* decided and tells the caller's webhook.                                 *)
(*                                                                         *)
(* Each statement on whatsapp_outbox is an action, and so is each send: an *)
(* invocation can be cut between any two of them.  Counters stop at a      *)
(* bound that the properties do not tell from more.                        *)
(***************************************************************************)
EXTENDS Naturals, FiniteSets, FiniteSetsExt

CONSTANTS
  MaxRecords,   \* records are numbered in the order of created_at
  Polls,        \* the records that ask for a decision; the others are texts
  Workers,      \* the invocations of processOutboxQueue that can run at once
  BatchSize,    \* p_batch_size, and the limit of the plain SELECT
  RetryLimit,   \* retry_count below which a FAILED record is claimed
  Decisions,    \* the options of a poll
  MaxIncidents, \* BOUND: the database calls that fail, the sends that lie, the
                \* invocations cut short and the batches a caller gives
  None          \* no decision

ASSUME OutboxAssumption ==
  /\ MaxRecords \in Nat /\ BatchSize \in Nat \ {0} /\ RetryLimit \in Nat
  /\ Polls \subseteq 1..MaxRecords
  /\ MaxIncidents \in Nat
  /\ None \notin Decisions

Records == 1..MaxRecords

VARIABLES
  status,    \* whatsapp_outbox.status, "ABSENT" before the insert
  retries,   \* retry_count
  decided,   \* payload.completed_decision
  claims,    \* history: how often a claim has taken each record
  pc,        \* what each invocation does next
  todo,      \* the records it has still to process, the one it is at included
  sent,      \* how often each message reached its recipient, up to twice
  firing,    \* the decisions committed by a dispatchDecision that has not yet
             \* called the webhook
  webhooks,  \* how often each record's webhook was called, up to twice
  accepted,  \* the records a dispatchDecision has answered {success: true} for
  history,   \* what has gone wrong with each record
  incidents  \* the number of incidents so far

rows == <<status, retries, decided>>
working == <<pc, todo>>
deciding == <<firing, webhooks, accepted>>
vars == <<rows, claims, working, sent, deciding, history, incidents>>

Statuses == {"ABSENT", "PENDING", "PROCESSING", "SENT", "FAILED", "COMPLETED"}
\* "unclaimed": taken by the plain SELECT, or given by the caller; "stranded": the answer
\* of its claim or its result was lost, or its invocation was cut; "unheard": sent and
\* answered with an error; "overwritten": a result was written over its decision;
\* "failing": a decision met it FAILED.
Mishaps == {"unclaimed", "stranded", "unheard", "overwritten", "failing"}

UpTo(n, limit) == IF n > limit THEN limit ELSE n
Remember(mishap, rs) ==
  history' = [r \in Records |-> history[r] \cup IF r \in rs THEN {mishap} ELSE {}]
Incident == incidents < MaxIncidents /\ incidents' = incidents + 1

\* The record an invocation is at.
Current(w) == Min(todo[w])
\* The oldest BatchSize records of a set.
Oldest(rs) == {r \in rs : Cardinality({q \in rs : q < r}) < BatchSize}

-----------------------------------------------------------------------------
Init ==
  /\ status = [r \in Records |-> "ABSENT"]
  /\ retries = [r \in Records |-> 0]
  /\ decided = [r \in Records |-> None]
  /\ claims = [r \in Records |-> 0]
  /\ pc = [w \in Workers |-> "idle"]
  /\ todo = [w \in Workers |-> {}]
  /\ sent = [r \in Records |-> 0]
  /\ firing = {}
  /\ webhooks = [r \in Records |-> 0]
  /\ accepted = {}
  /\ history = [r \in Records |-> {}]
  /\ incidents = 0

\* triggerWorkflow and notifyLargeInvoice for the next recipient: a plain insert.
Insert(r) ==
  /\ status[r] = "ABSENT"
  /\ \A q \in Records : q < r => status[q] # "ABSENT"
  /\ status' = [status EXCEPT ![r] = "PENDING"]
  /\ UNCHANGED <<retries, decided, claims, working, sent, deciding, history, incidents>>

\* Faulty variant of Claimable: used by no action.
ClaimableForever(r) == status[r] \in {"PENDING", "FAILED"}

\* The WHERE of claim_whatsapp_outbox_batch, but for the backoff.
Claimable(r) == status[r] \in {"PENDING", "FAILED"} /\ retries[r] < RetryLimit

\* A FAILED record may or may not be past its backoff.
ClaimableNow == {rs \in SUBSET {r \in Records : Claimable(r)} :
                   \A r \in Records : Claimable(r) /\ status[r] = "PENDING" => r \in rs}

\* The records an invocation goes on with: none, and it returns.
Take(w, rs) ==
  /\ todo' = [todo EXCEPT ![w] = rs]
  /\ pc' = [pc EXCEPT ![w] = IF rs = {} THEN "idle" ELSE "send"]

Claimed(rs) == claims' = [r \in Records |-> claims[r] + IF r \in rs THEN 1 ELSE 0]

Mark(rs) == status' = [r \in Records |-> IF r \in rs THEN "PROCESSING" ELSE status[r]]

\* Faulty variant of Claim: used by no action.
ClaimWithoutMark(w, rs) ==
  Take(w, rs) /\ Claimed(rs) /\ UNCHANGED <<status, history, incidents>>

\* UPDATE ... SET status = 'PROCESSING' of the batch, RETURNING it.
Claim(w, rs) == Take(w, rs) /\ Mark(rs) /\ Claimed(rs) /\ UNCHANGED <<history, incidents>>

\* The claim commits and its answer is lost: the invocation takes it for a claim that
\* failed, and nobody has the batch.
LoseClaim(w, rs) ==
  /\ Incident /\ Mark(rs) /\ Claimed(rs) /\ Remember("stranded", rs)
  /\ pc' = [pc EXCEPT ![w] = "select"] /\ UNCHANGED todo

\* The claim fails, or finds nothing.
NoClaim(w) ==
  /\ pc' = [pc EXCEPT ![w] = "select"]
  /\ UNCHANGED <<status, claims, todo, history>>

\* processOutboxQueue is given records: it claims nothing and looks at no status.
ProcessGiven(w, rs) ==
  /\ Take(w, rs) /\ Remember("unclaimed", rs)
  /\ Incident
  /\ UNCHANGED <<status, claims>>

\* processOutboxQueue, with records or without, up to its first await.
Start(w) ==
  /\ pc[w] = "idle"
  /\ \/ \E rs \in ClaimableNow :
          IF rs = {} THEN NoClaim(w) /\ UNCHANGED incidents
          ELSE Claim(w, Oldest(rs)) \/ LoseClaim(w, Oldest(rs))
     \/ Incident /\ NoClaim(w)
     \/ \E rs \in SUBSET {r \in Records : status[r] # "ABSENT"} : ProcessGiven(w, rs)
  /\ UNCHANGED <<retries, decided, sent, deciding>>

\* The fallback: a SELECT of PENDING and FAILED records that marks nothing and looks
\* at neither retry_count nor the backoff.
SelectUnclaimed(w) ==
  /\ pc[w] = "select"
  /\ LET rs == Oldest({r \in Records : status[r] \in {"PENDING", "FAILED"}}) IN
     Take(w, rs) /\ Remember("unclaimed", rs)
  /\ UNCHANGED <<rows, claims, sent, deciding, incidents>>

\* client.sendText: it can deliver the message and still answer false.  A payload
\* that makes no message fails without being sent.
Send(w) ==
  /\ pc[w] = "send"
  /\ LET r == Current(w) IN
     \E ok, delivered \in BOOLEAN :
       /\ ok => delivered
       /\ pc' = [pc EXCEPT ![w] = IF ok THEN "delivered" ELSE "failed"]
       /\ sent' = [sent EXCEPT ![r] = UpTo(@ + IF delivered THEN 1 ELSE 0, 2)]
       /\ Remember("unheard", IF delivered /\ ~ok THEN {r} ELSE {})
       /\ IF delivered /\ ~ok THEN Incident ELSE UNCHANGED incidents
  /\ UNCHANGED <<rows, claims, todo, deciding>>

\* The loop goes on with the next record of the batch, or returns.
Continue(w) ==
  Take(w, todo[w] \ {Current(w)})

\* A text that was sent is completed by the next statement.
AfterResult(w) ==
  IF pc[w] = "delivered" /\ Current(w) \notin Polls
  THEN pc' = [pc EXCEPT ![w] = "text"] /\ UNCHANGED todo
  ELSE Continue(w)

\* set_outbox_delivery_result_v1, whose body is not in the repository: SENT, or FAILED
\* and one retry more.  What it does to a record that is COMPLETED by then is open.
Delivery(r, ok) ==
  /\ status' = [status EXCEPT ![r] = IF ok THEN "SENT" ELSE "FAILED"]
  /\ retries' = [retries EXCEPT ![r] = IF ok THEN @ ELSE UpTo(@ + 1, RetryLimit)]
  /\ Remember("overwritten", IF status[r] = "COMPLETED" /\ r \in Polls THEN {r} ELSE {})

\* Faulty variant of Report: used by no action.
ReportSuccessOnly(w) ==
  /\ pc[w] \in {"delivered", "failed"}
  /\ IF pc[w] = "delivered" THEN Delivery(Current(w), TRUE)
     ELSE UNCHANGED <<status, retries, history>>
  /\ AfterResult(w)
  /\ UNCHANGED <<decided, claims, sent, deciding, incidents>>

\* The result is reported; a report that fails is not noticed.
Report(w) ==
  /\ pc[w] \in {"delivered", "failed"}
  /\ LET r == Current(w) IN
     \/ Delivery(r, pc[w] = "delivered") /\ UNCHANGED incidents
     \/ /\ status[r] = "COMPLETED"
        /\ UNCHANGED <<status, retries, history, incidents>>
     \/ /\ Incident
        /\ Remember("stranded", {r})
        /\ UNCHANGED <<status, retries>>
  /\ AfterResult(w)
  /\ UNCHANGED <<decided, claims, sent, deciding>>

\* UPDATE ... SET status = 'COMPLETED' of a text, by id alone.
CompleteText(w) ==
  /\ pc[w] = "text"
  /\ status' = [status EXCEPT ![Current(w)] = "COMPLETED"]
  /\ Continue(w)
  /\ UNCHANGED <<retries, decided, claims, sent, deciding, history, incidents>>

\* The platform ends an invocation: what it had taken is not given back.
Cut(w) ==
  /\ pc[w] # "idle"
  /\ Incident
  /\ Remember("stranded", todo[w])
  /\ Take(w, {})
  /\ UNCHANGED <<rows, claims, sent, deciding>>

-----------------------------------------------------------------------------
\* Faulty variant of Open: used by no action.
OpenUnlessProcessing(r) == status[r] \in {"PENDING", "SENT"}

\* Faulty variant of Open: used by no action.
OpenOrCompleted(r) == status[r] \in {"PENDING", "PROCESSING", "SENT", "COMPLETED"}

\* The records complete_whatsapp_action_v1 completes.
Open(r) == status[r] \in {"PENDING", "PROCESSING", "SENT"}

\* dispatchDecision of a poll, up to its commit.  An answer that is lost makes it
\* return an error; a record no longer open is answered with success.
Decide(r, d) ==
  /\ status[r] # "ABSENT"
  /\ \/ /\ Open(r)
        /\ status' = [status EXCEPT ![r] = "COMPLETED"]
        /\ decided' = [decided EXCEPT ![r] = d]
        /\ \/ firing' = firing \cup {r} /\ UNCHANGED incidents
           \/ Incident /\ UNCHANGED firing
        /\ UNCHANGED <<accepted, history>>
     \/ /\ ~Open(r)
        /\ accepted' = accepted \cup {r}
        /\ Remember("failing", IF status[r] = "FAILED" THEN {r} ELSE {})
        /\ UNCHANGED <<status, decided, firing, incidents>>
  /\ UNCHANGED <<retries, claims, working, sent, webhooks>>

\* fireWebhook and the answer: a status that is not ok is only logged, a fetch that
\* rejects is answered {success: false}; either way the webhook may have been reached.
FireWebhook(r) ==
  /\ r \in firing
  /\ firing' = firing \ {r}
  /\ accepted' \in {accepted, accepted \cup {r}}
  /\ \/ webhooks' = [webhooks EXCEPT ![r] = UpTo(@ + 1, 2)]
     \/ UNCHANGED webhooks
  /\ UNCHANGED <<rows, claims, working, sent, history, incidents>>

\* dispatchDecision is cut between its commit and its webhook.
CutDecision(r) ==
  /\ r \in firing
  /\ Incident
  /\ firing' = firing \ {r}
  /\ UNCHANGED <<rows, claims, working, sent, webhooks, accepted, history>>

Work(w) == SelectUnclaimed(w) \/ Send(w) \/ Report(w) \/ CompleteText(w)

Next ==
  \/ \E r \in Records : Insert(r) \/ FireWebhook(r) \/ CutDecision(r)
  \/ \E w \in Workers : Start(w) \/ Work(w) \/ Cut(w)
  \/ \E r \in Polls, d \in Decisions : Decide(r, d)

\* No fairness: what invokes processOutboxQueue is not in the repository.
Spec == Init /\ [][Next]_vars
-----------------------------------------------------------------------------
Held(r) == \E w \in Workers : r \in todo[w]

\* Nothing is stranded silently: a record PROCESSING is in the hands of an invocation,
\* unless the answer of its claim was lost, or its holder was cut or could not report
\* (no statement ever gives such a record back).
ProcessingIsHeld ==
  \A r \in Records : status[r] = "PROCESSING" => Held(r) \/ "stranded" \in history[r]

\* A recipient gets a message once, however often it is claimed, unless a send answered
\* false although it had delivered, or the record was sent without a claim: taken by the
\* fallback's plain SELECT or given by the caller.
SentOnceUnlessUnclaimed ==
  \A r \in Records : sent[r] > 1 => history[r] \cap {"unclaimed", "unheard"} # {}

\* A decision is final, and its webhook is called at most once, unless a delivery
\* result was written over the completion.
WebhookOnceUnlessOverwritten ==
  \A r \in Records : webhooks[r] > 1 => "overwritten" \in history[r]

\* What dispatchDecision answers success for is decided, unless the record was FAILED:
\* the message was being retried when the decision came.
AcceptedIsDecidedUnlessFailing ==
  \A r \in accepted \cap Polls : decided[r] = None => "failing" \in history[r]

\* A message that keeps failing stands before younger ones for RetryLimit claims at most,
\* whatever is sent beside the claims, lost, overwritten or cut.
ClaimsAreBounded == \A r \in Records : claims[r] <= RetryLimit
-----------------------------------------------------------------------------
(* The strengthening of the invariants, proved in WhatsAppOutboxProofs.       *)

TypeOK ==
  /\ status \in [Records -> Statuses]
  /\ retries \in [Records -> Nat]
  /\ decided \in [Records -> Decisions \cup {None}]
  /\ claims \in [Records -> Nat]
  /\ pc \in [Workers -> {"idle", "select", "send", "delivered", "failed", "text"}]
  /\ todo \in [Workers -> SUBSET Records]
  /\ sent \in [Records -> 0..2] /\ webhooks \in [Records -> 0..2]
  /\ firing \in SUBSET Records /\ accepted \in SUBSET Records
  /\ history \in [Records -> SUBSET Mishaps]
  /\ incidents \in Nat

\* An invocation under way has a record, and completes by id only texts.
AtARecord ==
  \A w \in Workers :
    /\ pc[w] \in {"idle", "select"} <=> todo[w] = {}
    /\ pc[w] = "text" => Current(w) \notin Polls

\* A completed poll has its decision, and so has one whose webhook is to be called; a
\* text has none.
CompletedIsDecided ==
  /\ \A r \in Records : decided[r] # None => r \in Polls
  /\ \A r \in Polls : status[r] = "COMPLETED" => decided[r] # None
  /\ \A r \in firing : decided[r] # None
  /\ AcceptedIsDecidedUnlessFailing

\* A decided record stays COMPLETED, and its webhook waits or has been called.
DecidedStaysCompleted ==
  \A r \in Records : "overwritten" \notin history[r] =>
    /\ decided[r] # None => status[r] = "COMPLETED"
    /\ decided[r] = None => webhooks[r] = 0 /\ r \notin firing
    /\ r \in firing => webhooks[r] = 0
    /\ webhooks[r] <= 1

Clean(r) == history[r] \cap {"unclaimed", "unheard"} = {}

\* A record that was claimed has one holder, out of every claim's reach, and its
\* message went out only if that holder has passed the send.
OneHolder ==
  \A r \in Records : Clean(r) =>
    /\ \A v, w \in Workers : r \in todo[v] /\ r \in todo[w] => v = w
    /\ Held(r) => status[r] \in {"PROCESSING", "SENT", "COMPLETED"}
    /\ status[r] \in {"ABSENT", "PENDING", "FAILED"} => sent[r] = 0
    /\ \A w \in Workers :
         r \in todo[w] /\ (Current(w) # r \/ pc[w] \in {"send", "failed"}) => sent[r] = 0
    /\ sent[r] <= 1

IInv ==
  /\ TypeOK /\ AtARecord /\ ProcessingIsHeld
  /\ CompletedIsDecided /\ DecidedStaysCompleted /\ OneHolder

\* A record that a claim can take failed as often, since its insert, as it was claimed.
EachClaimIsCounted ==
  \A r \in Records :
    claims[r] <= IF status[r] \in {"ABSENT", "PENDING", "FAILED"} THEN retries[r]
                 ELSE retries[r] + 1

ClaimInv == EachClaimIsCounted /\ ClaimsAreBounded
=============================================================================

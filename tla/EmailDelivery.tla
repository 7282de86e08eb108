---------------------------- MODULE EmailDelivery ----------------------------
(***************************************************************************)
(* One campaign e-mail (one idempotency key) from its enqueue to its last  *)
(* provider event: the D1 row of provider_messages, the Cloudflare queue   *)
(* that carries it, the coordinator calls that hand it off, the queue      *)
(* consumers that send it through Resend, and the webhook calls that       *)
(* report what became of it.  Rows of different keys only share the        *)
(* recipient's suppression.                                                *)
(*                                                                         *)
(* Workers share nothing but D1: every D1 statement (or batch) is one      *)
(* step, and any invocation may end between two of them.                   *)
(***************************************************************************)
EXTENDS Naturals, FiniteSets, FiniteSetsExt

CONSTANTS
    Producer,           \* concurrent coordinator calls (enqueue, drain, replay)
    Consumer,           \* concurrent queue consumer invocations
    Hook,               \* concurrent webhook calls
    Event,              \* provider events of this message
    KindOf,             \* what each event reports
    TimeOf,             \* the provider's timestamp of each event
    Payload,            \* rendered e-mails sent under the key
    FirstConfig,        \* the delivery configuration deployed first
    LaterConfigs,       \* those a deployment may change it to
    MaxAttempts,        \* maximumProviderAttempts
    MaxRetries,         \* the queue's max_retries, then its dead-letter queue
    MaxCopies,          \* bound: copies of the message at any time
    MaxReplays,         \* bound: operator replays
    MaxEnds,            \* bound: invocations that die before their end
    MaxDeploys          \* bound: changes of the delivery configuration

Normalized == {"sent", "delivered", "failed", "bounced", "complained", "suppressed"}

ASSUME SizeAssumption == IsFiniteSet(Producer) /\ IsFiniteSet(Consumer)
ASSUME EventAssumption == KindOf \in [Event -> Normalized] /\ TimeOf \in [Event -> Nat]
ASSUME LimitAssumption ==
    /\ MaxAttempts \in Nat \ {0} /\ MaxRetries \in Nat /\ MaxCopies \in Nat
    /\ MaxReplays \in Nat /\ MaxEnds \in Nat /\ MaxDeploys \in Nat
ASSUME NoneAssumption == "none" \notin Producer \cup Payload

VARIABLES
    row,        \* D1: the row of provider_messages
    supp,       \* D1: the recipient's row of email_suppressions
    applied,    \* D1: email_provider_events
    queue,      \* Cloudflare: waiting copies by delivery count and payload
    dead,       \* Cloudflare: copies dead-lettered
    prod,       \* coordinator calls
    cons,       \* consumer invocations
    hook,       \* webhook calls
    accepted,   \* Resend: the payload accepted under the idempotency key
    config,     \* the deployed EMAIL_DELIVERY_CONFIG
    clock,      \* whether scheduled_at has passed: workers disagree when "near"
    aged,       \* thirty days have passed since
    replays, ends, deploys

callVars == <<prod, cons, hook>>
worldVars == <<accepted, config, clock, aged, replays, ends, deploys>>
queueVars == <<queue, dead>>
eventVars == <<supp, applied>>
vars == <<row, eventVars, queueVars, callVars, worldVars>>

Status == {"none", "queued", "sending"} \cup Normalized
Terminal == Normalized
Reason == {"none", "bounced", "provider_suppressed", "complained", "manual"}

\* "closed": allowlist mode without this recipient.
Config == {"sink", "allowlist", "closed"}
ASSUME ConfigAssumption == FirstConfig \in Config /\ LaterConfigs \subseteq Config
ModeOf(c) == IF c = "closed" THEN "allowlist" ELSE c
Mode == {"sink", "allowlist"}

\* lease_expires_at is set exactly while status is "sending" (a CHECK of the
\* table): leaseOver says whether it has passed.  handoff is the call whose
\* queue handoff lease the row carries, handoffOver whether it has passed.
Row == [status : Status, hash : Payload \cup {"none"}, payload : BOOLEAN,
        mode : Mode, attempts : Nat, leaseOver : BOOLEAN, handed : BOOLEAN,
        handoff : Producer \cup {"none"}, handoffOver : BOOLEAN,
        known : BOOLEAN, eventTime : Nat]

NoRow == [status |-> "none", hash |-> "none", payload |-> FALSE,
          mode |-> "sink", attempts |-> 0, leaseOver |-> FALSE, handed |-> FALSE,
          handoff |-> "none", handoffOver |-> FALSE,
          known |-> FALSE, eventTime |-> 0]

Copy == [tries : 0..MaxRetries, payload : Payload]

ProducerPhase == {"idle", "inserting", "suppressing", "claiming", "queueing",
                  "confirming", "releasing", "resetting"}
ProducerCall == [phase : ProducerPhase, payload : Payload \cup {"none"},
                 mode : Mode, suppressed : BOOLEAN]
IdleProducer == [phase |-> "idle", payload |-> "none", mode |-> "sink",
                 suppressed |-> FALSE]

Result == {"none", "sent", "delivered", "failed", "suppressed", "queued"}
ConsumerPhase == {"idle", "reading", "early", "confirming", "refusing",
                  "failing", "claiming", "checking", "sending", "finishing"}
ConsumerCall == [phase : ConsumerPhase, tries : 0..MaxRetries,
                 payload : Payload \cup {"none"}, config : Config,
                 attempt : Nat, result : Result]
IdleConsumer == [phase |-> "idle", tries |-> 0, payload |-> "none",
                 config |-> "sink", attempt |-> 0,
                 result |-> "none"]

\* next is the status the event gives the row, "none" when it gives none.
HookCall == [busy : BOOLEAN, event : Event \cup {"none"},
             next : Normalized \cup {"none"}]
IdleHook == [busy |-> FALSE, event |-> "none", next |-> "none"]

Init ==
    /\ row = NoRow
    /\ supp = "none"
    /\ applied = {}
    /\ queue = [c \in Copy |-> 0]
    /\ dead = FALSE
    /\ prod = [p \in Producer |-> IdleProducer]
    /\ cons = [c \in Consumer |-> IdleConsumer]
    /\ hook = [h \in Hook |-> IdleHook]
    /\ accepted = "none"
    /\ config = FirstConfig
    /\ clock = "before"
    /\ aged = FALSE
    /\ replays = 0 /\ ends = 0 /\ deploys = 0

-----------------------------------------------------------------------------
(* CampaignEmailCoordinator: enqueue(), drainPendingHandoffs(), replayById() *)
(* A call starts with its read of the recipient's suppression: what a drain  *)
(* or a replay read of the row before that, the row keeps.                   *)

Suppressed == supp # "none"
ProducerDue == clock # "before"
\* Mutant: a lease that lapsed still blocks the next handoff.
HandoffUnheld == row.handoff = "none"
HandoffFree == row.handoff = "none" \/ row.handoffOver
AwaitsHandoff == row.status = "queued" /\ ~row.handed /\ HandoffFree

Goes(p, phase) == prod' = [prod EXCEPT ![p].phase = phase]
Returns(p) == prod' = [prod EXCEPT ![p] = IdleProducer]

\* The bound on copies: one per call, waiting copy and busy consumer.
Room ==
    MapThenSumSet(LAMBDA k : queue[k], Copy)
      + Cardinality({c \in Consumer : cons[c].phase # "idle"})
      + Cardinality({p \in Producer : prod[p].phase # "idle"}) < MaxCopies

Begin(p, phase, payload) ==
    /\ Room
    /\ prod[p].phase = "idle"
    /\ prod' = [prod EXCEPT ![p] = [phase |-> phase, payload |-> payload,
                    mode |-> ModeOf(config), suppressed |-> Suppressed]]
    /\ UNCHANGED <<row, eventVars, queueVars, cons, hook>>

EnqueueCalled(p, x) == Begin(p, "inserting", x) /\ UNCHANGED worldVars

\* The hourly drain selects due rows nobody handed off, and enqueues them.
DrainSelects(p) ==
    /\ AwaitsHandoff /\ row.payload /\ ProducerDue
    /\ Begin(p, "inserting", row.hash)
    /\ UNCHANGED worldVars

Insert(p) ==
    /\ prod[p].phase = "inserting"
    /\ row.status = "none"
    /\ row' = [NoRow EXCEPT !.status = IF prod[p].suppressed THEN "suppressed" ELSE "queued",
                            !.hash = prod[p].payload,
                            !.payload = ~prod[p].suppressed,
                            !.mode = prod[p].mode]
    /\ IF prod[p].suppressed THEN Returns(p) ELSE Goes(p, "claiming")
    /\ UNCHANGED <<eventVars, queueVars, cons, hook, worldVars>>

\* Mutant: a call that finds the row hands off what it carries itself.
FindExistingKeepsOwn(p) ==
    /\ prod[p].phase = "inserting"
    /\ row.status # "none"
    /\ IF row.status \in Terminal \cup {"sending"} \/ row.handed THEN Returns(p)
       ELSE Goes(p, IF prod[p].suppressed THEN "suppressing" ELSE "claiming")
    /\ UNCHANGED <<row, eventVars, queueVars, cons, hook, worldVars>>

\* INSERT ... ON CONFLICT DO NOTHING found the row: its stored envelope is what
\* is handed off, whatever this call carried.  A row that lost its envelope is
\* handed off only as the same text ("none": the call throws).
FindExisting(p) ==
    /\ prod[p].phase = "inserting"
    /\ row.status # "none"
    /\ IF row.status \in Terminal \cup {"sending"} \/ row.handed THEN Returns(p)
       ELSE prod' = [prod EXCEPT
                ![p].phase = IF prod[p].suppressed THEN "suppressing" ELSE "claiming",
                ![p].payload = IF row.payload \/ @ = row.hash THEN row.hash ELSE "none"]
    /\ UNCHANGED <<row, eventVars, queueVars, cons, hook, worldVars>>

SuppressQueued(p) ==
    /\ prod[p].phase = "suppressing"
    /\ IF AwaitsHandoff
       THEN /\ row' = [row EXCEPT !.status = "suppressed", !.payload = FALSE]
            /\ Returns(p)
       ELSE row' = row /\ Goes(p, "claiming")
    /\ UNCHANGED <<eventVars, queueVars, cons, hook, worldVars>>

\* #handoff: not before scheduled_at, and one lease at a time.
MayClaimHandoff(p) ==
    /\ ProducerDue
    /\ AwaitsHandoff
    /\ prod[p].payload # "none"
    /\ row.payload \/ row.hash = prod[p].payload

ClaimHandoff(p) ==
    /\ prod[p].phase = "claiming"
    /\ MayClaimHandoff(p)
    /\ row' = [row EXCEPT !.handoff = p, !.handoffOver = FALSE,
                          !.payload = TRUE, !.mode = prod[p].mode]
    /\ Goes(p, "queueing")
    /\ UNCHANGED <<eventVars, queueVars, cons, hook, worldVars>>

HandoffPending(p) ==
    /\ prod[p].phase = "claiming"
    /\ ~MayClaimHandoff(p)
    /\ Returns(p)
    /\ UNCHANGED <<row, eventVars, queueVars, cons, hook, worldVars>>

Put(payload) == queue' = [queue EXCEPT ![[tries |-> 0, payload |-> payload]] = @ + 1]

QueueSend(p) ==
    /\ prod[p].phase = "queueing"
    /\ Put(prod[p].payload)
    /\ Goes(p, "confirming")
    /\ UNCHANGED <<row, eventVars, dead, cons, hook, worldVars>>

\* The send failed, or was accepted and its answer lost.
QueueSendFails(p) ==
    /\ prod[p].phase = "queueing"
    /\ queue' = queue \/ Put(prod[p].payload)
    /\ Goes(p, "releasing")
    /\ UNCHANGED <<row, eventVars, dead, cons, hook, worldVars>>

\* The row with its handoff lease cleared.
HandedOff(handed) ==
    [row EXCEPT !.handed = handed, !.handoff = "none", !.handoffOver = FALSE]

HoldsHandoff(p) == row.handoff = p /\ ~row.handed

\* When the update finds no lease of this call, the call re-reads the row to
\* decide between success and an error: neither changes anything.
ConfirmSent(p) ==
    /\ prod[p].phase = "confirming"
    /\ row' = IF HoldsHandoff(p)
              THEN HandedOff(TRUE) ELSE row
    /\ Returns(p)
    /\ UNCHANGED <<eventVars, queueVars, cons, hook, worldVars>>

ReleaseHandoff(p) ==
    /\ prod[p].phase = "releasing"
    /\ row' = IF HoldsHandoff(p) THEN HandedOff(row.handed) ELSE row
    /\ Returns(p)
    /\ UNCHANGED <<eventVars, queueVars, cons, hook, worldVars>>

ReplayCalled(p) ==
    /\ replays < MaxReplays
    /\ row.status = "failed" /\ row.payload
    /\ Begin(p, "resetting", row.hash)
    /\ replays' = replays + 1
    /\ UNCHANGED <<accepted, config, clock, aged, ends, deploys>>

SuppressFailed(p) ==
    /\ prod[p].phase = "resetting" /\ prod[p].suppressed
    /\ row' = IF row.status = "failed"
              THEN [row EXCEPT !.status = "suppressed", !.payload = FALSE] ELSE row
    /\ Returns(p)
    /\ UNCHANGED <<eventVars, queueVars, cons, hook, worldVars>>

ResetFailed(p) ==
    /\ prod[p].phase = "resetting" /\ ~prod[p].suppressed
    /\ IF row.status = "failed"
       THEN /\ row' = [HandedOff(FALSE) EXCEPT !.status = "queued", !.mode = prod[p].mode]
            /\ Goes(p, "claiming")
       ELSE row' = row /\ Returns(p)
    /\ UNCHANGED <<eventVars, queueVars, cons, hook, worldVars>>

AnInvocationEnds ==
    /\ ends < MaxEnds
    /\ ends' = ends + 1
    /\ UNCHANGED <<accepted, config, clock, aged, replays, deploys>>

ProducerEnds(p) ==
    /\ prod[p].phase # "idle"
    /\ Returns(p)
    /\ AnInvocationEnds
    /\ UNCHANGED <<row, eventVars, queueVars, cons, hook>>

-----------------------------------------------------------------------------
(* EmailQueueDeliveryService.process() and the queue around it.            *)

Moves(c, phase) == cons' = [cons EXCEPT ![c].phase = phase]

Ack(c) == cons' = [cons EXCEPT ![c] = IdleConsumer] /\ UNCHANGED queueVars

\* A copy retried more than max_retries times goes to the dead-letter queue.
Retry(c) ==
    /\ cons' = [cons EXCEPT ![c] = IdleConsumer]
    /\ IF cons[c].tries < MaxRetries
       THEN queue' = [queue EXCEPT ![[tries |-> cons[c].tries + 1,
                                      payload |-> cons[c].payload]] = @ + 1]
            /\ UNCHANGED dead
       ELSE dead' = TRUE /\ UNCHANGED queue

Deliver(c) ==
    /\ cons[c].phase = "idle"
    /\ \E k \in Copy :
        /\ queue[k] > 0
        /\ queue' = [queue EXCEPT ![k] = @ - 1]
        /\ cons' = [cons EXCEPT ![c] = [IdleConsumer EXCEPT !.phase = "reading",
                        !.tries = k.tries, !.payload = k.payload, !.config = config]]
    /\ UNCHANGED <<row, eventVars, dead, prod, hook, worldVars>>

\* Clocks of workers disagree by less than the queue's thirty-second retry
\* delay: only a copy on its first delivery can look early to a consumer.
SeemsEarly(c) == clock = "near" /\ cons[c].tries = 0

\* A copy that does not match the row is rejected for good.
ReadMessage(c) ==
    /\ cons[c].phase = "reading"
    /\ IF row.status \in Terminal \/ row.hash # cons[c].payload
       THEN Ack(c)
       ELSE /\ \/ SeemsEarly(c) /\ Moves(c, "early")
               \/ Moves(c, IF row.mode = ModeOf(cons[c].config)
                           THEN "confirming" ELSE "refusing")
            /\ UNCHANGED queueVars
    /\ UNCHANGED <<row, eventVars, prod, hook, worldVars>>

GiveBackEarly(c) ==
    /\ cons[c].phase = "early"
    /\ row' = IF row.status = "queued"
              THEN HandedOff(FALSE) ELSE row
    /\ Ack(c)
    /\ UNCHANGED <<eventVars, prod, hook, worldVars>>

ConfirmHandoff(c) ==
    /\ cons[c].phase \in {"confirming", "refusing"}
    /\ row' = IF row.handed THEN row ELSE HandedOff(TRUE)
    /\ Moves(c, IF cons[c].phase = "confirming" THEN "claiming" ELSE "failing")
    /\ UNCHANGED <<eventVars, queueVars, prod, hook, worldVars>>

\* Mutant: a change of mode acknowledges the copy and leaves the row queued.
SkipBeforeAttempt(c) ==
    /\ cons[c].phase = "failing"
    /\ Ack(c)
    /\ UNCHANGED <<row, eventVars, prod, hook, worldVars>>

FailBeforeAttempt(c) ==
    /\ cons[c].phase = "failing"
    /\ row' = IF row.status = "queued" THEN [row EXCEPT !.status = "failed"] ELSE row
    /\ Ack(c)
    /\ UNCHANGED <<eventVars, prod, hook, worldVars>>

MayClaim == row.status = "queued" \/ (row.status = "sending" /\ row.leaseOver)

\* Mutant: a claim over a lapsed lease resumes the attempt it finds.
ClaimResumes(c) ==
    /\ cons[c].phase = "claiming"
    /\ IF MayClaim
       THEN LET n == IF row.status = "sending" THEN row.attempts ELSE row.attempts + 1
            IN /\ row' = [HandedOff(TRUE) EXCEPT !.status = "sending",
                               !.attempts = n, !.leaseOver = FALSE]
               /\ cons' = [cons EXCEPT ![c].phase = "checking", ![c].attempt = n]
               /\ UNCHANGED queueVars
       ELSE row' = row /\ Retry(c)
    /\ UNCHANGED <<eventVars, prod, hook, worldVars>>

\* The lease may lapse under a consumer that is still running: the attempt
\* number it took tells it apart from the one that claims next.
Claim(c) ==
    /\ cons[c].phase = "claiming"
    /\ IF MayClaim
       THEN /\ row' = [HandedOff(TRUE) EXCEPT !.status = "sending",
                           !.attempts = @ + 1, !.leaseOver = FALSE]
            /\ cons' = [cons EXCEPT ![c].phase = "checking",
                                    ![c].attempt = row.attempts + 1]
            /\ UNCHANGED queueVars
       ELSE row' = row /\ Retry(c)
    /\ UNCHANGED <<eventVars, prod, hook, worldVars>>

Attempted(c, result) ==
    cons' = [cons EXCEPT ![c].phase = "finishing", ![c].result = result]

CheckRecipient(c) ==
    /\ cons[c].phase = "checking"
    /\ IF Suppressed \/ cons[c].config = "closed" THEN Attempted(c, "suppressed")
       ELSE IF cons[c].config = "sink" THEN Attempted(c, "delivered")
       ELSE Moves(c, "sending")
    /\ UNCHANGED <<row, eventVars, queueVars, prod, hook, worldVars>>

\* Mutants: an unclear answer taken for success; its outcome taken for a status.
UnresolvedSent(c) == Attempted(c, "sent")
UnresolvedRetry(c) == Attempted(c, "retry")

Unresolved(c) ==
    Attempted(c, IF cons[c].attempt >= MaxAttempts THEN "failed" ELSE "queued")

\* Resend deduplicates by idempotency key: the first payload it accepts under
\* the key is the one it sends, and another payload under it is refused.
ProviderAccepts(c) ==
    /\ accepted \in {"none", cons[c].payload}
    /\ accepted' = cons[c].payload
    /\ Attempted(c, "sent")

ProviderRefuses(c) ==
    /\ accepted # cons[c].payload
    /\ accepted' = accepted
    /\ Attempted(c, "failed")

\* No answer, or one that asks for a retry: the payload may be accepted.
ProviderUnclear(c) ==
    /\ accepted' \in IF accepted = "none" THEN {"none", cons[c].payload} ELSE {accepted}
    /\ Unresolved(c)

Send(c) ==
    /\ cons[c].phase = "sending"
    /\ ProviderAccepts(c) \/ ProviderRefuses(c) \/ ProviderUnclear(c)
    /\ UNCHANGED <<row, eventVars, queueVars, prod, hook,
                   config, clock, aged, replays, ends, deploys>>

\* Mutant: the envelope outlives the send.
FinishedKeeping(result) ==
    [row EXCEPT !.status = result, !.leaseOver = FALSE, !.known = @ \/ result = "sent"]

Finished(result) ==
    [row EXCEPT !.status = result, !.leaseOver = FALSE,
                !.payload = @ /\ result \in {"queued", "failed"},
                !.known = @ \/ result = "sent"]

FinishAttempt(c) ==
    /\ cons[c].phase = "finishing"
    /\ row' = IF row.status = "sending" /\ row.attempts = cons[c].attempt
              THEN Finished(cons[c].result) ELSE row
    /\ IF cons[c].result = "queued" THEN Retry(c) ELSE Ack(c)
    /\ UNCHANGED <<eventVars, prod, hook, worldVars>>

\* The invocation dies or throws, or the email feature is switched off.
ConsumerEnds(c) ==
    /\ cons[c].phase # "idle"
    /\ Retry(c)
    /\ AnInvocationEnds
    /\ UNCHANGED <<row, eventVars, prod, hook>>

-----------------------------------------------------------------------------
(* EmailProviderEventService.apply()                                       *)

Priority == [s \in Status \ {"none"} |->
    CASE s \in {"queued", "sending"} -> 0 [] s = "sent" -> 1
      [] s \in {"delivered", "failed"} -> 2 [] s = "bounced" -> 3
      [] s = "suppressed" -> 4 [] s = "complained" -> 5]

Stopped == {"bounced", "complained", "suppressed"}

\* Whether an event of this kind moves a row with this status.
Advances(current, incoming) ==
    \/ incoming \in Stopped /\ Priority[incoming] >= Priority[current]
    \/ incoming = "delivered" /\ current \notin Stopped
    \/ incoming = "failed" /\ current \notin Stopped \cup {"delivered"}
    \/ incoming = "sent" /\ current \in {"queued", "sending", "sent"}

NextStatus(e) ==
    IF TimeOf[e] >= row.eventTime /\ Advances(row.status, KindOf[e])
    THEN KindOf[e] ELSE "none"

ReasonOf == [complained |-> "complained", suppressed |-> "provider_suppressed",
             bounced |-> "bounced"]
Strength == [complained |-> 3, provider_suppressed |-> 2, bounced |-> 1,
             none |-> 0, manual |-> 4]

\* Resend reports on what it accepted, in any order and more than once.  An
\* event that comes before the provider's id is on the row leaves only receipts
\* of its own, and comes again.
HookCalled(h, e) ==
    /\ ~hook[h].busy
    /\ accepted # "none"
    /\ e \notin applied /\ row.known
    /\ hook' = [hook EXCEPT ![h] = [busy |-> TRUE, event |-> e, next |-> NextStatus(e)]]
    /\ UNCHANGED <<row, eventVars, queueVars, prod, cons, worldVars>>

\* Mutant: the last event wins.
SuppressedByLast(e) ==
    IF KindOf[e] \in DOMAIN ReasonOf /\ supp # "manual" THEN ReasonOf[KindOf[e]] ELSE supp

SuppressedBy(e) ==
    IF KindOf[e] \in DOMAIN ReasonOf /\ Strength[ReasonOf[KindOf[e]]] >= Strength[supp]
    THEN ReasonOf[KindOf[e]] ELSE supp

\* One batch: an event whose id another call recorded changes nothing, nor does
\* one whose status would leave a row with the lease of a sending one.
HookApply(h) ==
    /\ hook[h].busy
    /\ LET e == hook[h].event  next == hook[h].next
       IN IF e \in applied \/ (next # "none" /\ row.status = "sending")
          THEN UNCHANGED <<row, supp, applied>>
          ELSE /\ applied' = applied \cup {e}
               /\ supp' = SuppressedBy(e)
               /\ row' = IF next = "none" THEN row
                         ELSE [row EXCEPT !.status = next, !.eventTime = TimeOf[e],
                                          !.payload = @ /\ next = "failed"]
    /\ hook' = [hook EXCEPT ![h] = IdleHook]
    /\ UNCHANGED <<queueVars, prod, cons, worldVars>>

-----------------------------------------------------------------------------
(* Time, the operators, the daily prune.                                   *)

HandoffLapses ==
    /\ row.handoff # "none" /\ ~row.handoffOver
    /\ row' = [row EXCEPT !.handoffOver = TRUE]
    /\ UNCHANGED <<eventVars, queueVars, callVars, worldVars>>

LeaseLapses ==
    /\ row.status = "sending" /\ ~row.leaseOver
    /\ row' = [row EXCEPT !.leaseOver = TRUE]
    /\ UNCHANGED <<eventVars, queueVars, callVars, worldVars>>

ScheduleNears ==
    /\ clock # "after"
    /\ clock' = IF clock = "before" THEN "near" ELSE "after"
    /\ UNCHANGED <<row, eventVars, queueVars, callVars,
                   accepted, config, aged, replays, ends, deploys>>

Deploy(c) ==
    /\ deploys < MaxDeploys
    /\ c # config
    /\ config' = c /\ deploys' = deploys + 1
    /\ UNCHANGED <<row, eventVars, queueVars, callVars,
                   accepted, clock, aged, replays, ends>>

ManualSuppression ==
    /\ supp # "manual"
    /\ supp' = "manual"
    /\ UNCHANGED <<row, applied, queueVars, callVars, worldVars>>

\* Nothing of a message is left in the queue thirty days after it was due.
MonthPasses ==
    /\ ~aged /\ clock = "after" /\ row.status # "none"
    /\ \A k \in Copy : queue[k] = 0
    /\ \A c \in Consumer : cons[c].phase = "idle"
    /\ \A p \in Producer : prod[p].phase = "idle"
    /\ aged' = TRUE
    /\ UNCHANGED <<row, eventVars, queueVars, callVars,
                   accepted, config, clock, replays, ends, deploys>>

Prune ==
    /\ aged
    /\ row.payload /\ row.status \in {"queued", "failed"}
    /\ row' = [HandedOff(row.handed) EXCEPT
                  !.status = IF row.handed THEN @ ELSE "failed", !.payload = FALSE]
    /\ UNCHANGED <<eventVars, queueVars, callVars, worldVars>>

-----------------------------------------------------------------------------
ProducerStep(p) ==
    \/ Insert(p) \/ FindExisting(p) \/ SuppressQueued(p)
    \/ ClaimHandoff(p) \/ HandoffPending(p) \/ QueueSend(p) \/ ConfirmSent(p)
    \/ ReleaseHandoff(p)
    \/ SuppressFailed(p) \/ ResetFailed(p)

ConsumerStep(c) ==
    \/ Deliver(c) \/ ReadMessage(c) \/ GiveBackEarly(c) \/ ConfirmHandoff(c)
    \/ FailBeforeAttempt(c) \/ Claim(c) \/ CheckRecipient(c) \/ Send(c)
    \/ FinishAttempt(c)

HookStep(h) ==
    \/ \E e \in Event : HookCalled(h, e)
    \/ HookApply(h)

Environment ==
    \/ HandoffLapses \/ LeaseLapses \/ ScheduleNears
    \/ \E c \in LaterConfigs : Deploy(c)
    \/ ManualSuppression \/ MonthPasses \/ Prune

Next ==
    \/ \E p \in Producer :
        \/ \E x \in Payload : EnqueueCalled(p, x)
        \/ DrainSelects(p) \/ ReplayCalled(p)
        \/ ProducerStep(p) \/ QueueSendFails(p) \/ ProducerEnds(p)
    \/ \E c \in Consumer : ConsumerStep(c) \/ ConsumerEnds(c)
    \/ \E h \in Hook : HookStep(h)
    \/ Environment

\* An invocation that starts runs on, the drain comes back every hour, clocks
\* advance, and the queue does not refuse every send.  Nobody owes an enqueue,
\* a replay or an event.
Fairness ==
    /\ \A p \in Producer : 
        WF_vars(ProducerStep(p)) /\ SF_vars(DrainSelects(p)) /\ SF_vars(QueueSend(p))
    /\ \A c \in Consumer : WF_vars(ConsumerStep(c))
    /\ WF_vars(HandoffLapses) /\ WF_vars(LeaseLapses) /\ WF_vars(ScheduleNears)

Spec == Init /\ [][Next]_vars
FairSpec == Spec /\ Fairness

-----------------------------------------------------------------------------
Waiting == \E k \in Copy : queue[k] > 0
Working == \E c \in Consumer : cons[c].phase # "idle"
Attempting(c) == cons[c].phase \in {"checking", "sending", "finishing"}

\* The variables range over the values the code can give them.
TypeOK ==
    /\ row \in Row
    /\ supp \in Reason
    /\ applied \subseteq Event
    /\ queue \in [Copy -> Nat]
    /\ dead \in BOOLEAN
    /\ prod \in [Producer -> ProducerCall]
    /\ cons \in [Consumer -> ConsumerCall]
    /\ hook \in [Hook -> HookCall]
    /\ accepted \in Payload \cup {"none"}
    /\ config \in Config /\ clock \in {"before", "near", "after"} /\ aged \in BOOLEAN
    /\ replays \in 0..MaxReplays /\ ends \in 0..MaxEnds /\ deploys \in 0..MaxDeploys

\* What the first enqueue stored under the key is what every copy carries and
\* what Resend is given, whatever later calls for the same key carried: no copy
\* is rejected as foreign and no second text goes out under the key.
DurablePayload ==
    /\ \A k \in Copy : queue[k] > 0 => k.payload = row.hash
    /\ accepted \in {"none", row.hash}

\* An e-mail that is not settled is never forgotten: a copy of it waits or is
\* being processed, or its row is one the hourly drain will pick up, unless
\* the queue dead-lettered it, it is past retention, a crash left it "sending"
\* across a change of the delivery mode, or replays of it overlap (the slower
\* one resets whatever failure it finds, of a later attempt too).
NotStranded ==
    row.status \in {"queued", "sending"} /\ ~dead /\ ~aged /\ replays < 2 =>
        \/ Waiting \/ Working
        \/ row.status = "queued" /\ ~row.handed /\ row.payload
        \/ row.status = "sending" /\ deploys > 0

\* The attempt number a claim returns belongs to one consumer, so a consumer
\* whose lease lapsed cannot record its result over its successor's.
AttemptsAreFenced ==
    \A c, d \in Consumer :
        Attempting(c) /\ Attempting(d) /\ cons[c].attempt = cons[d].attempt => c = d

\* A row says "sent" only of what Resend accepted, through lost answers,
\* repeated attempts and overlapping consumers.
SentIsAccepted ==
    row.status \in {"sent", "bounced", "complained"} \/ row.known =>
        accepted # "none" /\ accepted = row.hash

\* Once the provider's id is recorded the row is settled for good: no replay or
\* drain sends it again, and no webhook meets a row that is being sent (its
\* update would break the table's lease CHECK and fail the whole batch), as long
\* as replays of it do not overlap.
KnownIsSettled == row.known /\ replays < 2 => row.status \in Terminal

\* The recipient's suppression is the strongest reason any applied event gave,
\* in whatever order concurrent webhook calls applied them; a manual one stays.
SuppressionIsStrongest ==
    supp # "manual" =>
        /\ \A e \in applied : KindOf[e] \in DOMAIN ReasonOf =>
                Strength[ReasonOf[KindOf[e]]] <= Strength[supp]
        /\ supp = "none" \/ \E e \in applied :
                KindOf[e] \in DOMAIN ReasonOf /\ ReasonOf[KindOf[e]] = supp

\* An e-mail that is queued or being sent is settled in the end, or a copy of
\* it is dead-lettered, unless it outlives its retention, is replayed more than
\* once, or the delivery mode is changed.
EveryMessageSettles ==
    [](row.status \in {"queued", "sending"} =>
        <>(row.status \in Terminal \/ dead \/ aged \/ replays > 1 \/ deploys > 0))

\* "Provider events are monotonic by provider timestamp and severity": no event
\* moves a row to a status of lower priority.
SeverityNeverDrops ==
    [][row.known /\ row'.status # row.status =>
        Priority[row'.status] >= Priority[row.status]]_row

=============================================================================

----------------------------- MODULE MagicLinks -----------------------------
(***************************************************************************)
(* Magic links of one recipient and scope: requestMagicLink and            *)
(* exchangeMagicLink of auth/service.ts, and the queue consumer's          *)
(* #magicLink of email/delivery.ts.  They share two D1 tables and the      *)
(* queue, and interleave at every statement.                               *)
(*                                                                         *)
(* A link's ID stands for its token; hashes and payloads are left out.     *)
(* The throttle may turn a request away before Begin and is not modelled.  *)
(***************************************************************************)
EXTENDS Naturals

CONSTANTS
    Links,              \* link IDs, which break ties of created_at
    Exchanges,          \* calls of exchangeMagicLink
    Workers,            \* concurrent consumers of the queue
    Nobody,
    MaximumAttempts,    \* maximumProviderAttempts
    Clock,              \* what the request of each link may read as the time
    MaxClaims           \* bound on the claims of one link

ASSUME LinksAssumption == Links \subseteq Nat /\ Clock \in [Links -> SUBSET Nat]
ASSUME NobodyAssumption == Nobody \notin Exchanges
ASSUME BoundsAssumption ==
    MaximumAttempts \in Nat /\ MaxClaims \in Nat

VARIABLES
    purpose,    \* of these links: portal, with grants, or sign_in
    call,       \* requestMagicLink: where the call for each link is
    token,      \* magic_link_tokens
    grant,      \* portal_grants
    queue,      \* links whose message the queue has taken
    worker,     \* EmailQueueDeliveryService#magicLink
    exch,       \* exchangeMagicLink
    mailed      \* history: links the provider has sent

rows == <<token, grant>>
vars == <<purpose, call, rows, queue, worker, exch, mailed>>

-----------------------------------------------------------------------------
Portal == purpose = "portal"

NoToken == [state |-> "none"]
NoGrant == [state |-> "none"]

\* revoked keeps why revoked_at was set.
Causes == {"none", "replaced", "presented", "withdrawn", "failed"}

Token == [state: {"pending", "queued", "failed"}, created: Nat,
          consumed: Exchanges \cup {Nobody}, revoked: Causes,
          attempt: Nat, completed: BOOLEAN]

Grant == [state: {"granted"}, consumed: Exchanges \cup {Nobody}, revoked: BOOLEAN]

CallPhases == {"idle", "send", "fail", "mark", "check", "finalize", "done"}

WorkerPhases == {"promote", "reject", "claim", "sending", "sent", "refused"}

ExchangePhases == {"repair", "read", "vet", "consume", "revet", "session", "rollback",
                   "withdraw", "granted"}

IdleWorker == [phase |-> "idle"]
IdleExchange == [phase |-> "idle"]
Refused == [phase |-> "refused"]
Broken == [phase |-> "broken"]
Barred(by) == [phase |-> "barred", by |-> by]

Delivery == [phase: WorkerPhases, link: Links, attempt: Nat, doomed: BOOLEAN] \cup {IdleWorker}

\* History: ousted, the links that were given up for this one, and rivals, the
\* other links with an active grant, both when the link was consumed.
Running == [phase: ExchangePhases, link: Links, before: {"none", "pending", "queued"},
            ousted: SUBSET Links, rivals: SUBSET Links]

\* Broken: the call ended with an error that no handler answers.  Barred: its
\* rollback failed on the grants in by, which became active since.
Attempt ==
    Running \cup {IdleExchange, Refused, Broken} \cup [phase: {"barred"}, by: SUBSET Links]

TypeOK ==
    /\ purpose \in {"portal", "sign_in"}
    /\ call \in [Links -> CallPhases]
    /\ token \in [Links -> Token \cup {NoToken}]
    /\ grant \in [Links -> Grant \cup {NoGrant}]
    /\ queue \subseteq Links
    /\ worker \in [Workers -> Delivery]
    /\ exch \in [Exchanges -> Attempt]
    /\ mailed \subseteq Links

Init ==
    /\ purpose \in {"portal", "sign_in"}
    /\ call = [l \in Links |-> "idle"]
    /\ token = [l \in Links |-> NoToken]
    /\ grant = [l \in Links |-> NoGrant]
    /\ queue = {}
    /\ worker = [w \in Workers |-> IdleWorker]
    /\ exch = [e \in Exchanges |-> IdleExchange]
    /\ mailed = {}

-----------------------------------------------------------------------------
(***************************************************************************)
(* What the statements select.                                             *)
(***************************************************************************)
\* Neither consumed nor revoked.
Open(row) == row # NoToken /\ row.consumed = Nobody /\ row.revoked = "none"

Pending(row) == Open(row) /\ row.state = "pending"
Queued(row) == Open(row) /\ row.state = "queued"
Presentable(row) == Open(row) /\ row.state \in {"pending", "queued"}

Active(g) == g # NoGrant /\ g.consumed = Nobody /\ ~g.revoked

\* created_at < ?5 OR (created_at = ?5 AND id < ?2)
Older(k, l) ==
    \/ token[k].created < token[l].created
    \/ token[k].created = token[l].created /\ k < l

\* #supersessionStatement of l over the token rows: at finalization it revokes
\* older links while l is still open, after consumption every other link.
Superseded(rowsOf, l, cause, among) ==
    [k \in Links |->
       IF k # l /\ Presentable(rowsOf[k]) /\ rowsOf[l].state = "queued" /\ k \in among
       THEN [rowsOf[k] EXCEPT !.revoked = cause] ELSE rowsOf[k]]

\* The portal statements of #finalizeQueuedMagicLink: older grants end, l gets
\* one unless a newer grant is active, and is revoked if it got none.
Outranked(l) == \E k \in Links \ {l} : Active(grant[k]) /\ Older(l, k)

\* Mutant: the grants of older links are left alone, and hold the unique index.
GrantsKeepingOlder(l) ==
    IF ~Queued(token[l]) THEN grant
    ELSE [k \in Links |->
            IF k = l /\ grant[l] = NoGrant /\ \A j \in Links : ~Active(grant[j])
            THEN [state |-> "granted", consumed |-> Nobody, revoked |-> FALSE] ELSE grant[k]]

GrantsAfter(l) ==
    IF ~Queued(token[l]) THEN grant
    ELSE [k \in Links |->
            CASE k # l /\ Active(grant[k]) /\ Older(k, l) -> [grant[k] EXCEPT !.revoked = TRUE]
              [] k = l /\ grant[l] = NoGrant /\ ~Outranked(l) ->
                   [state |-> "granted", consumed |-> Nobody, revoked |-> FALSE]
              [] OTHER -> grant[k]]

\* The whole batch.
Finalized(l) ==
    LET late == Portal /\ Queued(token[l]) /\ grant[l] = NoGrant /\ Outranked(l)
        own == IF late THEN [token EXCEPT ![l].revoked = "replaced"] ELSE token
        older == {k \in Links : Older(k, l) /\ Open(own[l])}
    IN  /\ grant' = IF Portal THEN GrantsAfter(l) ELSE grant
        /\ token' = Superseded(own, l, "replaced", older)

-----------------------------------------------------------------------------
(***************************************************************************)
(* requestMagicLink.  A call that is throttled or finds no speaker leaves  *)
(* no trace.  What it read before it inserts the link may be out of date.  *)
(* Its answer repeats what it finds at the end and changes nothing.        *)
(***************************************************************************)
Goes(l, phase) == call' = [call EXCEPT ![l] = phase]

Insert(l) ==
    /\ call[l] = "idle"
    /\ \E now \in Clock[l] :
          token' = [token EXCEPT ![l] =
                      [state |-> "pending", created |-> now, consumed |-> Nobody,
                       revoked |-> "none", attempt |-> 0, completed |-> FALSE]]
    /\ Goes(l, "send")
    /\ UNCHANGED <<grant, queue, worker, exch, mailed, purpose>>

Send(l) ==
    /\ call[l] = "send"
    /\ queue' = queue \cup {l}
    /\ Goes(l, "mark")
    /\ UNCHANGED <<rows, worker, exch, mailed, purpose>>

\* Mutant: a message that was not taken is marked like one that was.
SendFailsUnnoticed(l) ==
    /\ call[l] = "send"
    /\ Goes(l, "mark")
    /\ UNCHANGED <<rows, queue, worker, exch, mailed, purpose>>

\* send throws; the message may have been taken nevertheless.
SendFails(l) ==
    /\ call[l] = "send"
    /\ \E taken \in SUBSET {l} : queue' = queue \cup taken
    /\ Goes(l, "fail")
    /\ UNCHANGED <<rows, worker, exch, mailed, purpose>>

Fail(l) ==
    /\ call[l] = "fail"
    /\ token' = IF Pending(token[l])
                THEN [token EXCEPT ![l].state = "failed", ![l].revoked = "failed"] ELSE token
    /\ Goes(l, "done")
    /\ UNCHANGED <<grant, queue, worker, exch, mailed, purpose>>

\* The consumer may have marked the row first.
Mark(l) ==
    /\ call[l] = "mark"
    /\ IF Pending(token[l])
       THEN token' = [token EXCEPT ![l].state = "queued"] /\ Goes(l, "finalize")
       ELSE token' = token /\ Goes(l, "check")
    /\ UNCHANGED <<grant, queue, worker, exch, mailed, purpose>>

Check(l) ==
    /\ call[l] = "check"
    /\ IF Queued(token[l]) THEN Goes(l, "finalize") ELSE Goes(l, "done")
    /\ UNCHANGED <<rows, queue, worker, exch, mailed, purpose>>

Finalize(l) ==
    /\ call[l] = "finalize"
    /\ Finalized(l)
    /\ Goes(l, "done")
    /\ UNCHANGED <<queue, worker, exch, mailed, purpose>>

-----------------------------------------------------------------------------
(***************************************************************************)
(* The queue consumer.  The queue delivers at least once: a message that is *)
(* acknowledged may come again, one that is retried does, so that both end *)
(* the same way here.  Whether a link has expired, or the mode or the      *)
(* allowlist holds it back, is found by each delivery.                     *)
(***************************************************************************)
Works(w, phase) == worker' = [worker EXCEPT ![w].phase = phase]
Ends(w) == worker' = [worker EXCEPT ![w] = IdleWorker]

Undone(l) == token[l].state # "failed" /\ token[l].revoked = "none" /\ ~token[l].completed

Deliver(w, l) ==
    /\ worker[w] = IdleWorker
    /\ l \in queue
    /\ Undone(l)
    /\ \E doomed \in BOOLEAN :
          worker' = [worker EXCEPT ![w] =
            [link |-> l, attempt |-> 0, doomed |-> doomed,
             phase |-> CASE token[l].state = "pending" -> "promote"
                         [] token[l].state # "pending" /\ doomed -> "reject"
                         [] token[l].state # "pending" /\ ~doomed -> "claim"]]
    /\ UNCHANGED <<call, rows, queue, exch, mailed, purpose>>

Promote(w) ==
    /\ worker[w].phase = "promote"
    /\ LET l == worker[w].link
       IN  IF Pending(token[l])
           THEN /\ token' = [token EXCEPT ![l].state = "queued"]
                /\ Works(w, IF worker[w].doomed THEN "reject" ELSE "claim")
           ELSE token' = token /\ Ends(w)
    /\ UNCHANGED <<call, grant, queue, exch, mailed, purpose>>

Reject(w) ==
    /\ worker[w].phase = "reject"
    /\ LET l == worker[w].link
       IN  token' = IF token[l].state = "queued" /\ token[l].revoked = "none"
                    THEN [token EXCEPT ![l].state = "failed", ![l].revoked = "failed"]
                    ELSE token
    /\ Ends(w)
    /\ UNCHANGED <<call, grant, queue, exch, mailed, purpose>>

\* The lease of an earlier attempt may have lapsed or not; if not, the message
\* is retried.
Claim(w) ==
    /\ worker[w].phase = "claim"
    /\ LET l == worker[w].link
       IN  \/ /\ token[l].state = "queued" /\ Undone(l)
              /\ token[l].attempt < MaxClaims
              /\ token' = [token EXCEPT ![l].attempt = @ + 1]
              /\ worker' = [worker EXCEPT ![w].phase = "sending",
                                          ![w].attempt = token[l].attempt + 1]
           \/ /\ token[l].state = "queued" /\ Undone(l) => token[l].attempt > 0
              /\ token' = token
              /\ Ends(w)
    /\ UNCHANGED <<call, grant, queue, exch, mailed, purpose>>

ProviderSends(w) ==
    /\ worker[w].phase = "sending"
    /\ mailed' = mailed \cup {worker[w].link}
    /\ Works(w, "sent")
    /\ UNCHANGED <<call, rows, queue, exch, purpose>>

\* Refused, or no clear answer: the mail may be on its way.  The attempt then
\* gives its lease back for another one, or gives up.
ProviderFails(w) ==
    /\ worker[w].phase = "sending"
    /\ \E sent \in SUBSET {worker[w].link} : mailed' = mailed \cup sent
    /\ \/ Works(w, "refused")
       \/ worker[w].attempt < MaximumAttempts /\ Ends(w)
    /\ UNCHANGED <<call, rows, queue, exch, purpose>>

\* The row is still at the attempt of this worker.
Fenced(w) ==
    LET row == token[worker[w].link]
    IN  row.state = "queued" /\ Undone(worker[w].link) /\ row.attempt = worker[w].attempt

Record(w) ==
    /\ worker[w].phase = "sent"
    /\ token' = IF Fenced(w)
                THEN [token EXCEPT ![worker[w].link].completed = TRUE] ELSE token
    /\ Ends(w)
    /\ UNCHANGED <<call, grant, queue, exch, mailed, purpose>>

GiveUp(w) ==
    /\ worker[w].phase = "refused"
    /\ token' = IF Fenced(w)
                THEN [token EXCEPT ![worker[w].link].state = "failed",
                                   ![worker[w].link].revoked = "failed"]
                ELSE token
    /\ Ends(w)
    /\ UNCHANGED <<call, grant, queue, exch, mailed, purpose>>

WorkerDies(w) ==
    /\ worker[w] # IdleWorker
    /\ Ends(w)
    /\ UNCHANGED <<call, rows, queue, exch, mailed, purpose>>

-----------------------------------------------------------------------------
(***************************************************************************)
(* exchangeMagicLink of a link that has not expired when the call begins.  *)
(* A self-service link is only exchanged by the browser that asked for it; *)
(* who else tries is refused at once.  A call that dies or fails before it *)
(* consumes the link leaves no trace, and is one that takes no further     *)
(* step; Breaks is how it ends after that.                                 *)
(***************************************************************************)
ExchangeGoes(e, phase) == exch' = [exch EXCEPT ![e].phase = phase]
Refuses(e) == exch' = [exch EXCEPT ![e] = Refused]

\* The first statement looks for a portal link whose finalization was missed.
Present(e, l) ==
    /\ exch[e] = IdleExchange
    /\ l \in mailed
    /\ exch' = [exch EXCEPT ![e] =
         [link |-> l, before |-> "none", ousted |-> {}, rivals |-> {},
          phase |-> IF Portal /\ Queued(token[l]) /\ grant[l] = NoGrant
                    THEN "repair" ELSE "read"]]
    /\ UNCHANGED <<call, rows, queue, worker, mailed, purpose>>

RepairFinalization(e) ==
    /\ exch[e].phase = "repair"
    /\ \/ Finalized(exch[e].link)
       \/ UNCHANGED rows
    /\ ExchangeGoes(e, "read")
    /\ UNCHANGED <<call, queue, worker, mailed, purpose>>

\* Mutant: the state the link has before it is consumed is not kept.
ReadCandidateForgets(e) ==
    /\ exch[e].phase = "read"
    /\ LET l == exch[e].link
       IN  IF Presentable(token[l]) /\ (Portal => Active(grant[l]))
           THEN ExchangeGoes(e, IF Portal THEN "vet" ELSE "consume")
           ELSE Refuses(e)
    /\ UNCHANGED <<call, rows, queue, worker, mailed, purpose>>

ReadCandidate(e) ==
    /\ exch[e].phase = "read"
    /\ LET l == exch[e].link
       IN  IF Presentable(token[l]) /\ (Portal => Active(grant[l]))
           THEN exch' = [exch EXCEPT ![e].phase = IF Portal THEN "vet" ELSE "consume",
                                     ![e].before = token[l].state]
           ELSE Refuses(e)
    /\ UNCHANGED <<call, rows, queue, worker, mailed, purpose>>

\* #scopeRemainsEligible, before and after the link is consumed: the organizers
\* may have ended, or restored, the speaker relationship by then.
Vet(e) ==
    /\ exch[e].phase \in {"vet", "revet"}
    /\ \/ ExchangeGoes(e, IF exch[e].phase = "vet" THEN "consume" ELSE "session")
       \/ ExchangeGoes(e, "withdraw")
    /\ UNCHANGED <<call, rows, queue, worker, mailed, purpose>>

\* #revokePortalCandidate.
Withdraw(e) ==
    /\ exch[e].phase = "withdraw"
    /\ LET l == exch[e].link
       IN  /\ token' = IF token[l].revoked = "none"
                       THEN [token EXCEPT ![l].revoked = "withdrawn"] ELSE token
           /\ grant' = [grant EXCEPT ![l].revoked = TRUE]
    /\ Refuses(e)
    /\ UNCHANGED <<call, queue, worker, mailed, purpose>>

\* Mutant: the candidate that was read is consumed without another look.
ConsumableAsRead(e) == token[exch[e].link] # NoToken

Consumable(e) ==
    LET l == exch[e].link
    IN  Presentable(token[l]) /\ (Portal => Active(grant[l]))

\* Mutant: only what is older is given up for the link that was presented.
OustedOlder(l) == {k \in Links \ {l} : Presentable(token[k]) /\ Older(k, l)}

\* Every other link a recipient could still present.
Ousted(l) == {k \in Links \ {l} : Presentable(token[k])}

\* One batch: the link, its grant, and the links it takes the place of.
Consume(e) ==
    /\ exch[e].phase = "consume"
    /\ LET l == exch[e].link
           own == [token EXCEPT ![l].consumed = e, ![l].state = "queued"]
       IN  /\ grant' = IF Portal /\ Active(grant[l])
                       THEN [grant EXCEPT ![l].consumed = e] ELSE grant
           /\ IF Consumable(e)
              THEN /\ token' = Superseded(own, l, "presented", Ousted(l))
                   /\ exch' = [exch EXCEPT ![e].phase = IF Portal THEN "revet" ELSE "session",
                                 ![e].ousted = {k \in Links \ {l} : Presentable(token[k])},
                                 ![e].rivals = {k \in Links \ {l} : Active(grant[k])}]
              ELSE token' = token /\ Refuses(e)
    /\ UNCHANGED <<call, queue, worker, mailed, purpose>>

CreateSession(e) ==
    /\ exch[e].phase = "session"
    /\ ExchangeGoes(e, "granted")
    /\ UNCHANGED <<call, rows, queue, worker, mailed, purpose>>

\* Mutant: a session that cannot be created is the recipient's loss.
CreateFailsForGood(e) ==
    /\ exch[e].phase = "session"
    /\ Refuses(e)
    /\ UNCHANGED <<call, rows, queue, worker, mailed, purpose>>

CreateFails(e) ==
    /\ exch[e].phase = "session"
    /\ ExchangeGoes(e, "rollback")
    /\ UNCHANGED <<call, rows, queue, worker, mailed, purpose>>

\* The link is released, unless another active grant holds the unique index:
\* then the batch fails as a whole.
Rollback(e) ==
    /\ exch[e].phase = "rollback"
    /\ LET l == exch[e].link
           taken == Portal /\ grant[l].consumed = e /\ ~grant[l].revoked
                           /\ \E k \in Links : Active(grant[k])
       IN  /\ token' = IF ~taken /\ token[l].consumed = e /\ token[l].revoked = "none"
                       THEN [token EXCEPT ![l].consumed = Nobody, ![l].state = exch[e].before]
                       ELSE token
           /\ grant' = IF Portal /\ ~taken /\ grant[l].consumed = e /\ ~grant[l].revoked
                       THEN [grant EXCEPT ![l].consumed = Nobody] ELSE grant
           /\ exch' = [exch EXCEPT ![e] =
                IF taken THEN Barred({k \in Links : Active(grant[k])} \ exch[e].rivals)
                ELSE Refused]
    /\ UNCHANGED <<call, queue, worker, mailed, purpose>>

\* Once the link is consumed only a session that cannot be created is handled.
\* The second #scopeRemainsEligible, #revokePortalCandidate and the rollback
\* itself may fail in D1, and the call may die: nothing releases the link then.
Breaks(e) ==
    /\ exch[e].phase \in {"revet", "withdraw", "session", "rollback"}
    /\ exch' = [exch EXCEPT ![e] = Broken]
    /\ UNCHANGED <<call, rows, queue, worker, mailed, purpose>>

-----------------------------------------------------------------------------
Request(l) ==
    \/ Insert(l) \/ Send(l) \/ SendFails(l) \/ Fail(l)
    \/ Mark(l) \/ Check(l) \/ Finalize(l)

Consumer(w) ==
    \/ \E l \in Links : Deliver(w, l)
    \/ Promote(w) \/ Reject(w) \/ Claim(w) \/ ProviderSends(w) \/ ProviderFails(w)
    \/ Record(w) \/ GiveUp(w) \/ WorkerDies(w)

Exchange(e) ==
    \/ \E l \in Links : Present(e, l)
    \/ RepairFinalization(e) \/ ReadCandidate(e) \/ Vet(e) \/ Withdraw(e) \/ Consume(e)
    \/ CreateSession(e) \/ CreateFails(e) \/ Rollback(e) \/ Breaks(e)

Next ==
    \/ \E l \in Links : Request(l)
    \/ \E w \in Workers : Consumer(w)
    \/ \E e \in Exchanges : Exchange(e)

Spec == Init /\ [][Next]_vars

-----------------------------------------------------------------------------
(***************************************************************************)
(* Properties.                                                             *)
(***************************************************************************)
Granted == {e \in Exchanges : exch[e].phase = "granted"}

\* A link yields one session, however its exchanges race, fail and are released.
OneSessionPerLink == \A e, f \in Granted : exch[e].link = exch[f].link => e = f

\* The link that is exchanged first wins: no other link the recipient held at
\* that moment yields a session beside it, however the exchanges interleave.
FirstPresentedWins ==
    \A e \in Exchanges :
       e \in Granted => \A f \in Granted : exch[f].link \notin exch[e].ousted

\* A link is given up only for one whose message is in the queue's hands.
ReplacementIsOnItsWay ==
    \A l \in Links :
       token[l] # NoToken /\ token[l].revoked = "replaced" =>
          \E k \in queue : token[k] # NoToken /\ Older(l, k)

\* An active grant is never that of a link a replacement was issued for, nor of
\* one given up when another link was presented.
GrantFollowsLink ==
    \A l \in Links :
       grant[l] # NoGrant /\ Active(grant[l]) => token[l].revoked \in {"none", "failed"}

\* The call that consumed a link has made its session or goes on; or it broke
\* off, or found in its rollback a grant that was not active when it consumed.
Accounted(e) ==
    \/ exch[e].phase \in {"revet", "withdraw", "session", "rollback", "granted"}
    \/ exch[e] = Broken
    \/ exch[e].phase = "barred" /\ exch[e].by # {}

\* A link stays consumed without a session only if it is void, or if its call
\* still runs, broke off in an error that nothing handles, or could not release
\* it for a grant that was issued or given back meanwhile.  A call that answers
\* after a failure it handles has released the link.
ConsumedIsUsedOrReleased ==
    \A l \in Links :
       token[l] # NoToken /\ token[l].consumed # Nobody =>
          token[l].revoked # "none" \/ Accounted(token[l].consumed)
=============================================================================

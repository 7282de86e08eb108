---------------------------- MODULE MagicLinksProofs ----------------------------
(***************************************************************************)
(* Theorems about MagicLinks for every number of links, exchanges and      *)
(* consumers, every order of the requests' clocks, and every limit.        *)
(***************************************************************************)
EXTENDS MagicLinks, TLAPS

\* Nothing refers to a link before its row is inserted.
Inserted ==
    /\ \A l \in Links : call[l] = "idle" <=> token[l] = NoToken
    /\ \A l \in queue \cup mailed : token[l] # NoToken
    /\ \A w \in Workers : worker[w] # IdleWorker => token[worker[w].link] # NoToken
    /\ \A e \in Exchanges : exch[e].phase \in ExchangePhases => token[exch[e].link] # NoToken

\* A call that consumed its link, and may still make a session of it.
Holds(e) == exch[e].phase \in {"revet", "session", "granted"}

\* Whoever holds a link is who consumed it, and what was given up for it has not
\* been consumed, nor can it be.
Held ==
    \A e \in Exchanges :
        Holds(e) =>
            /\ token[exch[e].link].consumed = e
            /\ \A k \in exch[e].ousted :
                  token[k] # NoToken /\ token[k].consumed = Nobody /\ token[k].revoked # "none"

\* An exchange that may release its link knows the state to give back.
Remembers ==
    \A e \in Exchanges :
        exch[e].phase \in {"vet", "consume", "revet", "session", "rollback"} =>
            exch[e].before # "none"

IInv == TypeOK /\ Inserted /\ Held /\ Remembers

-----------------------------------------------------------------------------
(* What a step may do to the rows of the tokens *)

\* The step inserts no row, consumes or releases none, and revokes at will.
Keeps(l) ==
    /\ token'[l] \in Token \cup {NoToken}
    /\ token'[l] = NoToken <=> token[l] = NoToken
    /\ token[l] # NoToken =>
          /\ token'[l].consumed = token[l].consumed
          /\ token[l].revoked # "none" => token'[l].revoked # "none"

KeepsAll == token' \in [Links -> Token \cup {NoToken}] /\ \A l \in Links : Keeps(l)

LEMMA UnchangedKeeps == token \in [Links -> Token \cup {NoToken}] /\ UNCHANGED token => KeepsAll
BY DEF KeepsAll, Keeps

\* A row changes its state, its revocation or its attempts.
LEMMA RewriteKeeps ==
    ASSUME token \in [Links -> Token \cup {NoToken}], NEW l \in Links, token[l] # NoToken,
           NEW new \in Token, token' = [token EXCEPT ![l] = new],
           new.consumed = token[l].consumed,
           token[l].revoked # "none" => new.revoked # "none"
    PROVE  KeepsAll
BY DEF KeepsAll, Keeps, Token, NoToken

\* The rewrites of a row that a single statement makes.
LEMMA RowTypes ==
    ASSUME NEW row \in Token
    PROVE  /\ [row EXCEPT !.state = "queued"] \in Token
           /\ [row EXCEPT !.state = "failed", !.revoked = "failed"] \in Token
           /\ [row EXCEPT !.completed = TRUE] \in Token
           /\ [row EXCEPT !.attempt = @ + 1] \in Token
           /\ [row EXCEPT !.revoked = "withdrawn"] \in Token
<1>1. row.attempt + 1 \in Nat
  BY DEF Token
<1>2. [row EXCEPT !.state = "queued"] \in Token
  BY DEF Token
<1>3. [row EXCEPT !.state = "failed", !.revoked = "failed"] \in Token
  BY DEF Token, Causes
<1>4. [row EXCEPT !.completed = TRUE] \in Token
  BY DEF Token
<1>5. [row EXCEPT !.attempt = @ + 1] \in Token
  BY <1>1 DEF Token
<1>6. [row EXCEPT !.revoked = "withdrawn"] \in Token
  BY DEF Token, Causes
<1> QED
  BY <1>2, <1>3, <1>4, <1>5, <1>6

LEMMA RowKeeps ==
    ASSUME token \in [Links -> Token \cup {NoToken}],
           NEW l \in Links, token[l] \in Token, token[l] # NoToken,
           NEW new, token' = [token EXCEPT ![l] = new],
           \/ new = [token[l] EXCEPT !.state = "queued"]
           \/ new = [token[l] EXCEPT !.state = "failed", !.revoked = "failed"]
           \/ new = [token[l] EXCEPT !.completed = TRUE]
           \/ new = [token[l] EXCEPT !.attempt = @ + 1]
           \/ new = [token[l] EXCEPT !.revoked = "withdrawn"]
    PROVE  KeepsAll
<1>1. new \in Token
  BY RowTypes
<1>2. new.consumed = token[l].consumed
  BY DEF Token
<1>3. token[l].revoked # "none" => new.revoked # "none"
  BY DEF Token
<1> QED
  BY <1>1, <1>2, <1>3, RewriteKeeps

LEMMA SupersededKeeps ==
    ASSUME NEW rowsOf \in [Links -> Token \cup {NoToken}], NEW l \in Links,
           NEW cause \in Causes \ {"none"}, NEW among
    PROVE  LET new == Superseded(rowsOf, l, cause, among)
           IN  /\ new \in [Links -> Token \cup {NoToken}]
               /\ \A k \in Links :
                     /\ new[k] = NoToken <=> rowsOf[k] = NoToken
                     /\ rowsOf[k] # NoToken =>
                           /\ new[k].consumed = rowsOf[k].consumed
                           /\ rowsOf[k].revoked # "none" => new[k].revoked # "none"
BY DEF Superseded, Presentable, Open, Token, NoToken, Causes

LEMMA FinalizedKeeps ==
    ASSUME token \in [Links -> Token \cup {NoToken}], grant \in [Links -> Grant \cup {NoGrant}],
           NEW l \in Links, Finalized(l)
    PROVE  KeepsAll /\ grant' \in [Links -> Grant \cup {NoGrant}]
<1> DEFINE late == Portal /\ Queued(token[l]) /\ grant[l] = NoGrant /\ Outranked(l)
           own == IF late THEN [token EXCEPT ![l].revoked = "replaced"] ELSE token
           older == {k \in Links : Older(k, l) /\ Open(own[l])}
<1>1. token' = Superseded(own, l, "replaced", older)
  BY DEF Finalized
<1>2. /\ own \in [Links -> Token \cup {NoToken}]
      /\ \A k \in Links :
            /\ own[k] = NoToken <=> token[k] = NoToken
            /\ token[k] # NoToken =>
                  /\ own[k].consumed = token[k].consumed
                  /\ token[k].revoked # "none" => own[k].revoked # "none"
  <2>1. CASE ~late
    BY <2>1
  <2>2. CASE late
    <3>1. token[l] \in Token
      BY <2>2 DEF Queued, Open
    <3>2. own = [token EXCEPT ![l] = [token[l] EXCEPT !.revoked = "replaced"]]
      BY <2>2
    <3>3. [token[l] EXCEPT !.revoked = "replaced"] \in Token
      BY <3>1 DEF Token, Causes
    <3> QED
      BY <3>1, <3>2, <3>3 DEF Token, NoToken
  <2> QED
    BY <2>1, <2>2
<1>3. KeepsAll
  <2> HIDE DEF own, older
  <2> QED
    BY <1>1, <1>2, SupersededKeeps DEF KeepsAll, Keeps, Causes
<1>4. grant' \in [Links -> Grant \cup {NoGrant}]
  BY DEF Finalized, GrantsAfter, Grant, Active, NoGrant
<1> QED
  BY <1>3, <1>4

-----------------------------------------------------------------------------
(* requestMagicLink *)

LEMMA CallMoves ==
    ASSUME call \in [Links -> CallPhases], NEW l \in Links,
           NEW phase \in CallPhases \ {"idle"}, Goes(l, phase), call[l] # "idle"
    PROVE  /\ call' \in [Links -> CallPhases]
           /\ \A k \in Links : call'[k] = "idle" <=> call[k] = "idle"
BY DEF Goes

LEMMA RequestKeeps ==
    ASSUME TypeOK, Inserted, NEW l \in Links, Request(l), ~Insert(l)
    PROVE  /\ KeepsAll /\ grant' \in [Links -> Grant \cup {NoGrant}]
           /\ call[l] # "idle"
           /\ call' \in [Links -> CallPhases]
           /\ \A k \in Links : call'[k] = "idle" <=> call[k] = "idle"
           /\ queue' \subseteq queue \cup {l}
           /\ UNCHANGED <<worker, exch, mailed, purpose>>
<1> USE DEF TypeOK, rows, CallPhases
<1>Send. CASE Send(l)
  BY <1>Send, CallMoves, UnchangedKeeps DEF Send
<1>SendFails. CASE SendFails(l)
  BY <1>SendFails, CallMoves, UnchangedKeeps DEF SendFails
<1>Fail. CASE Fail(l)
  <2>1. CASE Pending(token[l])
    <3>1. token[l] \in Token
      BY <2>1 DEF Pending, Open
    <3>2. token' = [token EXCEPT ![l] = [token[l] EXCEPT !.state = "failed", !.revoked = "failed"]]
      BY <1>Fail, <2>1 DEF Fail
    <3>3. token[l] # NoToken
      BY <2>1 DEF Pending, Open
    <3>4. KeepsAll
      BY <3>1, <3>2, <3>3, RowKeeps
    <3> QED
      BY <1>Fail, <3>4, CallMoves DEF Fail
  <2>2. CASE ~Pending(token[l])
    BY <1>Fail, <2>2, CallMoves, UnchangedKeeps DEF Fail
  <2> QED
    BY <2>1, <2>2
<1>Mark. CASE Mark(l)
  <2>1. CASE Pending(token[l])
    <3>1. token[l] \in Token
      BY <2>1 DEF Pending, Open
    <3>2. token' = [token EXCEPT ![l] = [token[l] EXCEPT !.state = "queued"]]
      BY <1>Mark, <2>1 DEF Mark
    <3>3. token[l] # NoToken
      BY <2>1 DEF Pending, Open
    <3>4. KeepsAll
      BY <3>1, <3>2, <3>3, RowKeeps
    <3> QED
      BY <1>Mark, <2>1, <3>4, CallMoves DEF Mark
  <2>2. CASE ~Pending(token[l])
    BY <1>Mark, <2>2, CallMoves, UnchangedKeeps DEF Mark
  <2> QED
    BY <2>1, <2>2
<1>Check. CASE Check(l)
  BY <1>Check, CallMoves, UnchangedKeeps DEF Check
<1>Finalize. CASE Finalize(l)
  BY <1>Finalize, CallMoves, FinalizedKeeps DEF Finalize
<1> QED
  BY <1>Send, <1>SendFails, <1>Fail, <1>Mark, <1>Check, <1>Finalize DEF Request

\* What was held by one call stays so while the other rows are kept.
LEMMA HeldStays ==
    ASSUME TypeOK, Inserted, Held, KeepsAll, NEW e \in Exchanges,
           \A f \in Exchanges \ {e} : exch'[f] = exch[f],
           Holds(e)' => /\ Holds(e)
                        /\ exch'[e].link = exch[e].link
                        /\ exch'[e].ousted = exch[e].ousted
    PROVE  Held'
<1> SUFFICES ASSUME NEW f \in Exchanges, Holds(f)'
             PROVE  /\ token'[exch'[f].link].consumed = f
                    /\ \A k \in exch'[f].ousted :
                          /\ token'[k] # NoToken /\ token'[k].consumed = Nobody
                          /\ token'[k].revoked # "none"
  BY DEF Held
<1>1. Holds(f) /\ exch'[f].link = exch[f].link /\ exch'[f].ousted = exch[f].ousted
  BY DEF Holds
<1>2. exch[f].link \in Links /\ exch[f].ousted \subseteq Links /\ exch[f].phase \in ExchangePhases
  BY <1>1 DEF Holds, TypeOK, Attempt, Running, IdleExchange, Refused, Broken
<1>3. token[exch[f].link] # NoToken
  BY <1>2 DEF Inserted
<1> QED
  BY <1>1, <1>2, <1>3 DEF Held, KeepsAll, Keeps

LEMMA HeldUnmoved ==
    ASSUME TypeOK, Inserted, Held, KeepsAll, UNCHANGED exch
    PROVE  Held'
<1>1. CASE Exchanges = {}
  BY <1>1 DEF Held
<1>2. ASSUME NEW e \in Exchanges PROVE Held'
  BY HeldStays DEF Holds
<1> QED
  BY <1>1, <1>2

LEMMA InsertSteps ==
    ASSUME IInv, NEW l \in Links, Insert(l)
    PROVE  IInv'
<1> USE DEF IInv
<1> PICK now \in Clock[l] :
        token' = [token EXCEPT ![l] =
                    [state |-> "pending", created |-> now, consumed |-> Nobody,
                     revoked |-> "none", attempt |-> 0, completed |-> FALSE]]
  BY DEF Insert
<1>1. now \in Nat
  BY LinksAssumption
<1>2. token[l] = NoToken
  BY DEF Insert, Inserted
<1>3. token' \in [Links -> Token \cup {NoToken}]
  BY <1>1 DEF TypeOK, Token, Causes
<1>4. TypeOK'
  BY <1>3 DEF Insert, Goes, TypeOK, CallPhases
<1>5. Inserted'
  <2>1. token'[l] # NoToken
    BY DEF TypeOK, NoToken
  <2>2. call'[l] # "idle"
    BY DEF Insert, Goes, TypeOK
  <2>3. \A w \in Workers : worker[w] # IdleWorker => worker[w].link \in Links
    BY DEF TypeOK, Delivery
  <2>4. \A e \in Exchanges : exch[e].phase \in ExchangePhases => exch[e].link \in Links
    BY DEF TypeOK, Attempt, Running, IdleExchange, Refused, Broken, ExchangePhases
  <2> QED
    BY <2>1, <2>2, <2>3, <2>4 DEF Inserted, Insert, Goes, TypeOK
<1>6. Held'
  <2> SUFFICES ASSUME NEW e \in Exchanges, Holds(e)
               PROVE  /\ token'[exch[e].link].consumed = e
                      /\ \A k \in exch[e].ousted :
                            /\ token'[k] # NoToken /\ token'[k].consumed = Nobody
                            /\ token'[k].revoked # "none"
    BY DEF Held, Holds, Insert
  <2>1. exch[e].link \in Links /\ exch[e].ousted \subseteq Links /\ exch[e].phase \in ExchangePhases
    BY DEF Holds, TypeOK, Attempt, Running, IdleExchange, Refused, Broken
  <2>2. exch[e].link # l /\ l \notin exch[e].ousted
    BY <1>2, <2>1 DEF Inserted, Held
  <2> QED
    BY <2>1, <2>2 DEF Held, TypeOK
<1> QED
  BY <1>4, <1>5, <1>6 DEF Insert, Remembers

LEMMA RequestSteps ==
    ASSUME IInv, NEW l \in Links, Request(l)
    PROVE  IInv'
<1> USE DEF IInv
<1>1. CASE Insert(l)
  BY <1>1, InsertSteps
<1>2. CASE ~Insert(l)
  <2>1. /\ KeepsAll /\ grant' \in [Links -> Grant \cup {NoGrant}]
        /\ call[l] # "idle"
        /\ call' \in [Links -> CallPhases]
        /\ \A k \in Links : call'[k] = "idle" <=> call[k] = "idle"
        /\ queue' \subseteq queue \cup {l}
        /\ UNCHANGED <<worker, exch, mailed, purpose>>
    BY <1>2, RequestKeeps
  <2>2. TypeOK'
    BY <2>1 DEF TypeOK, KeepsAll
  <2>3. \A w \in Workers : worker[w] # IdleWorker => worker[w].link \in Links
    BY DEF TypeOK, Delivery
  <2>4. \A e \in Exchanges : exch[e].phase \in ExchangePhases => exch[e].link \in Links
    BY DEF TypeOK, Attempt, Running, IdleExchange, Refused, Broken, ExchangePhases
  <2>5. Inserted'
    BY <2>1, <2>3, <2>4 DEF Inserted, KeepsAll, Keeps, TypeOK
  <2>6. Held'
    BY <2>1, HeldUnmoved
  <2> QED
    BY <2>1, <2>2, <2>5, <2>6 DEF Remembers
<1> QED
  BY <1>1, <1>2

-----------------------------------------------------------------------------
(* The queue consumer *)

\* One field of the row of l is rewritten, not its consumption.
LEMMA DeliveryMoves ==
    ASSUME worker \in [Workers -> Delivery], NEW w \in Workers, worker[w].phase \in WorkerPhases,
           Ends(w) \/ \E phase \in WorkerPhases : Works(w, phase)
    PROVE  /\ worker' \in [Workers -> Delivery]
           /\ \A v \in Workers : worker'[v] # IdleWorker =>
                 worker[v] # IdleWorker /\ worker'[v].link = worker[v].link
BY DEF Ends, Works, Delivery, IdleWorker, WorkerPhases

LEMMA LinkOfDelivery ==
    ASSUME TypeOK, Inserted, NEW w \in Workers, worker[w].phase \in WorkerPhases
    PROVE  /\ worker[w].link \in Links /\ worker[w].attempt \in Nat
           /\ worker[w] # IdleWorker
           /\ token[worker[w].link] \in Token
           /\ token[worker[w].link] # NoToken
<1>1. worker[w].link \in Links /\ worker[w] # IdleWorker /\ worker[w].attempt \in Nat
  BY DEF TypeOK, Delivery, IdleWorker, WorkerPhases
<1> QED
  BY <1>1 DEF Inserted, TypeOK

LEMMA ConsumerKeeps ==
    ASSUME TypeOK, Inserted, NEW w \in Workers, Consumer(w)
    PROVE  /\ KeepsAll
           /\ worker' \in [Workers -> Delivery]
           /\ \A v \in Workers : worker'[v] # IdleWorker => token[worker'[v].link] # NoToken
           /\ mailed' \subseteq Links
           /\ \A l \in mailed' : token[l] # NoToken
           /\ UNCHANGED <<purpose, call, grant, queue, exch>>
<1> DEFINE l == worker[w].link
           row == token[l]
           Goal == /\ KeepsAll
                   /\ worker' \in [Workers -> Delivery]
                   /\ \A v \in Workers : worker'[v] # IdleWorker => token[worker'[v].link] # NoToken
                   /\ mailed' \subseteq Links
                   /\ \A k \in mailed' : token[k] # NoToken
                   /\ UNCHANGED <<purpose, call, grant, queue, exch>>
<1> USE DEF TypeOK, rows, WorkerPhases
<1>0. ASSUME UNCHANGED <<purpose, call, grant, queue, exch, mailed>>, KeepsAll,
             worker[w].phase \in WorkerPhases,
             Ends(w) \/ \E phase \in WorkerPhases : Works(w, phase)
      PROVE  Goal
  <2>1. /\ worker' \in [Workers -> Delivery]
        /\ \A v \in Workers : worker'[v] # IdleWorker =>
              worker[v] # IdleWorker /\ worker'[v].link = worker[v].link
    BY <1>0, DeliveryMoves
  <2> QED
    BY <1>0, <2>1 DEF Inserted
<1>Deliver. ASSUME NEW k \in Links, Deliver(w, k) PROVE Goal
  <2>1. KeepsAll
    BY <1>Deliver, UnchangedKeeps DEF Deliver
  <2>2. PICK doomed \in BOOLEAN :
          worker' = [worker EXCEPT ![w] =
            [link |-> k, attempt |-> 0, doomed |-> doomed,
             phase |-> CASE token[k].state = "pending" -> "promote"
                         [] token[k].state # "pending" /\ doomed -> "reject"
                         [] token[k].state # "pending" /\ ~doomed -> "claim"]]
    BY <1>Deliver DEF Deliver
  <2>3. worker' \in [Workers -> Delivery] /\ worker'[w].link = k
    BY <2>2 DEF Delivery
  <2> QED
    BY <1>Deliver, <2>1, <2>2, <2>3 DEF Deliver, Inserted
<1>Promote. CASE Promote(w)
  <2>1. /\ l \in Links /\ row \in Token /\ row # NoToken
    BY <1>Promote, LinkOfDelivery DEF Promote
  <2>2. KeepsAll
    <3>1. CASE Pending(row)
      BY <1>Promote, <2>1, <3>1, RowKeeps DEF Promote
    <3>2. CASE ~Pending(row)
      BY <1>Promote, <3>2, UnchangedKeeps DEF Promote
    <3> QED
      BY <3>1, <3>2
  <2> QED
    BY <1>Promote, <2>2, <1>0 DEF Promote
<1>Reject. CASE Reject(w)
  <2>1. /\ l \in Links /\ row \in Token /\ row # NoToken
    BY <1>Reject, LinkOfDelivery DEF Reject
  <2>2. KeepsAll
    <3>1. CASE row.state = "queued" /\ row.revoked = "none"
      BY <1>Reject, <2>1, <3>1, RowKeeps DEF Reject
    <3>2. CASE ~(row.state = "queued" /\ row.revoked = "none")
      BY <1>Reject, <3>2, UnchangedKeeps DEF Reject
    <3> QED
      BY <3>1, <3>2
  <2> QED
    BY <1>Reject, <2>2, <1>0 DEF Reject
<1>Claim. CASE Claim(w)
  <2>1. /\ l \in Links /\ row \in Token /\ row # NoToken /\ worker[w] \in Delivery
    BY <1>Claim, LinkOfDelivery DEF Claim
  <2>2. CASE token' = token /\ Ends(w)
    BY <1>Claim, <2>2, <1>0, UnchangedKeeps DEF Claim
  <2>3. CASE /\ token' = [token EXCEPT ![l].attempt = @ + 1]
             /\ worker' = [worker EXCEPT ![w].phase = "sending", ![w].attempt = row.attempt + 1]
    <3>1. KeepsAll
      BY <2>1, <2>3, RowKeeps
    <3>2. row.attempt + 1 \in Nat
      BY <2>1 DEF Token
    <3>3. /\ worker' \in [Workers -> Delivery]
          /\ \A v \in Workers : v # w => worker'[v] = worker[v]
      <4>1. worker[w] \in [phase: WorkerPhases, link: Links, attempt: Nat, doomed: BOOLEAN]
        BY <1>Claim, <2>1 DEF Claim, Delivery, IdleWorker
      <4>2. [worker[w] EXCEPT !.phase = "sending", !.attempt = row.attempt + 1] \in Delivery
        BY <3>2, <4>1 DEF Delivery
      <4>3. worker' = [worker EXCEPT ![w] =
                         [worker[w] EXCEPT !.phase = "sending", !.attempt = row.attempt + 1]]
        BY <2>3
      <4> QED
        BY <4>2, <4>3
    <3>5. worker'[w].link = l
      BY <1>Claim, <2>1, <2>3 DEF Claim, Delivery, IdleWorker
    <3> QED
      BY <1>Claim, <2>1, <3>1, <3>3, <3>5 DEF Claim, Inserted
  <2> QED
    BY <1>Claim, <2>2, <2>3 DEF Claim
<1>ProviderSends. CASE ProviderSends(w)
  <2>1. l \in Links /\ row # NoToken
    BY <1>ProviderSends, LinkOfDelivery DEF ProviderSends
  <2>2. KeepsAll
    BY <1>ProviderSends, UnchangedKeeps DEF ProviderSends
  <2>3. worker' \in [Workers -> Delivery]
        /\ \A v \in Workers : worker'[v] # IdleWorker =>
              worker[v] # IdleWorker /\ worker'[v].link = worker[v].link
    BY <1>ProviderSends, DeliveryMoves DEF ProviderSends
  <2> QED
    BY <1>ProviderSends, <2>1, <2>2, <2>3 DEF ProviderSends, Inserted
<1>ProviderFails. CASE ProviderFails(w)
  <2>1. l \in Links /\ row # NoToken
    BY <1>ProviderFails, LinkOfDelivery DEF ProviderFails
  <2>2. KeepsAll
    BY <1>ProviderFails, UnchangedKeeps DEF ProviderFails
  <2>3. worker' \in [Workers -> Delivery]
        /\ \A v \in Workers : worker'[v] # IdleWorker =>
              worker[v] # IdleWorker /\ worker'[v].link = worker[v].link
    BY <1>ProviderFails, DeliveryMoves DEF ProviderFails
  <2> QED
    BY <1>ProviderFails, <2>1, <2>2, <2>3 DEF ProviderFails, Inserted
<1>Record. CASE Record(w)
  <2>1. /\ l \in Links /\ row \in Token /\ row # NoToken
    BY <1>Record, LinkOfDelivery DEF Record
  <2>2. KeepsAll
    <3>1. CASE Fenced(w)
      BY <1>Record, <2>1, <3>1, RowKeeps DEF Record
    <3>2. CASE ~Fenced(w)
      BY <1>Record, <3>2, UnchangedKeeps DEF Record
    <3> QED
      BY <3>1, <3>2
  <2> QED
    BY <1>Record, <2>2, <1>0 DEF Record
<1>GiveUp. CASE GiveUp(w)
  <2>1. /\ l \in Links /\ row \in Token /\ row # NoToken
    BY <1>GiveUp, LinkOfDelivery DEF GiveUp
  <2>2. KeepsAll
    <3>1. CASE Fenced(w)
      BY <1>GiveUp, <2>1, <3>1, RowKeeps DEF GiveUp
    <3>2. CASE ~Fenced(w)
      BY <1>GiveUp, <3>2, UnchangedKeeps DEF GiveUp
    <3> QED
      BY <3>1, <3>2
  <2> QED
    BY <1>GiveUp, <2>2, <1>0 DEF GiveUp
<1>WorkerDies. CASE WorkerDies(w)
  <2>1. worker[w].phase \in WorkerPhases
    BY <1>WorkerDies DEF WorkerDies, Delivery, IdleWorker
  <2> QED
    BY <1>WorkerDies, <2>1, <1>0, UnchangedKeeps DEF WorkerDies
<1> QED
  BY <1>Deliver, <1>Promote, <1>Reject, <1>Claim, <1>ProviderSends, <1>ProviderFails, <1>Record,
     <1>GiveUp, <1>WorkerDies DEF Consumer

LEMMA ConsumerSteps ==
    ASSUME IInv, NEW w \in Workers, Consumer(w)
    PROVE  IInv'
<1> USE DEF IInv
<1>1. /\ KeepsAll
      /\ worker' \in [Workers -> Delivery]
      /\ \A v \in Workers : worker'[v] # IdleWorker => token[worker'[v].link] # NoToken
      /\ mailed' \subseteq Links
      /\ \A l \in mailed' : token[l] # NoToken
      /\ UNCHANGED <<purpose, call, grant, queue, exch>>
  BY ConsumerKeeps
<1>2. TypeOK'
  BY <1>1 DEF TypeOK, KeepsAll
<1>3. \A v \in Workers : worker'[v] # IdleWorker => worker'[v].link \in Links
  BY <1>1 DEF Delivery
<1>4. \A e \in Exchanges : exch[e].phase \in ExchangePhases => exch[e].link \in Links
  BY DEF TypeOK, Attempt, Running, IdleExchange, Refused, Broken, ExchangePhases
<1>5. Inserted'
  BY <1>1, <1>3, <1>4 DEF Inserted, KeepsAll, Keeps, TypeOK
<1>6. Held'
  BY <1>1, HeldUnmoved
<1> QED
  BY <1>1, <1>2, <1>5, <1>6 DEF Remembers

-----------------------------------------------------------------------------
(* exchangeMagicLink *)

LEMMA ExceptNoGrant ==
    /\ [NoGrant EXCEPT !.revoked = TRUE] = NoGrant
    /\ [NoGrant EXCEPT !.consumed = Nobody] = NoGrant
BY DEF NoGrant

\* An exchange at work, and the row of its link.
LEMMA AttemptOf ==
    ASSUME TypeOK, Inserted, NEW e \in Exchanges, exch[e].phase \in ExchangePhases
    PROVE  /\ exch[e] \in Running
           /\ exch[e].link \in Links
           /\ exch[e].before \in {"none", "pending", "queued"}
           /\ token[exch[e].link] \in Token /\ token[exch[e].link] # NoToken
<1>1. exch[e] \notin {IdleExchange, Refused, Broken} \cup [phase: {"barred"}, by: SUBSET Links]
  BY DEF IdleExchange, Refused, Broken, ExchangePhases
<1>2. exch[e] \in Running
  BY <1>1 DEF TypeOK, Attempt
<1> QED
  BY <1>2 DEF TypeOK, Inserted, Running

\* A step of e that keeps the token rows, and does not start to hold a link.
LEMMA ExchangeCarries ==
    ASSUME IInv, KeepsAll, grant' \in [Links -> Grant \cup {NoGrant}],
           UNCHANGED <<purpose, call, queue, worker, mailed>>,
           NEW e \in Exchanges, NEW new \in Attempt, exch' = [exch EXCEPT ![e] = new],
           new.phase \in ExchangePhases => new.link \in Links /\ token[new.link] # NoToken,
           new.phase \in {"vet", "consume", "revet", "session", "rollback"} => new.before # "none",
           new.phase \in {"revet", "session", "granted"} =>
              Holds(e) /\ new.link = exch[e].link /\ new.ousted = exch[e].ousted
    PROVE  IInv'
<1> USE DEF IInv
<1>1. exch' \in [Exchanges -> Attempt] /\ exch'[e] = new
      /\ \A f \in Exchanges \ {e} : exch'[f] = exch[f]
  BY DEF TypeOK
<1>2. TypeOK'
  BY <1>1 DEF TypeOK, KeepsAll
<1>3. \A f \in Exchanges : exch[f].phase \in ExchangePhases => exch[f].link \in Links
  BY DEF TypeOK, Attempt, Running, IdleExchange, Refused, Broken, ExchangePhases
<1>4. \A w \in Workers : worker[w] # IdleWorker => worker[w].link \in Links
  BY DEF TypeOK, Delivery
<1>5. Inserted'
  BY <1>1, <1>3, <1>4 DEF Inserted, KeepsAll, Keeps, TypeOK
<1>6. Held'
  BY <1>1, HeldStays DEF Holds
<1>7. Remembers'
  BY <1>1 DEF Remembers
<1> QED
  BY <1>2, <1>5, <1>6, <1>7

\* The same for a step that only moves on.
LEMMA ExchangeMoves ==
    ASSUME IInv, KeepsAll, grant' \in [Links -> Grant \cup {NoGrant}],
           UNCHANGED <<purpose, call, queue, worker, mailed>>,
           NEW e \in Exchanges, exch[e].phase \in ExchangePhases,
           \/ Refuses(e)
           \/ \E last \in {Broken} \cup [phase: {"barred"}, by: SUBSET Links] :
                 exch' = [exch EXCEPT ![e] = last]
           \/ \E phase \in ExchangePhases :
                 /\ ExchangeGoes(e, phase)
                 /\ phase \in {"vet", "consume", "revet", "session", "rollback"} =>
                       exch[e].before # "none"
                 /\ phase \in {"revet", "session", "granted"} => Holds(e)
    PROVE  IInv'
<1>1. CASE Refuses(e)
  <2>1. Refused \in Attempt /\ Refused.phase = "refused"
    BY DEF Refused, Attempt
  <2>2. exch' = [exch EXCEPT ![e] = Refused]
    BY <1>1 DEF Refuses
  <2> QED
    BY <2>1, <2>2, ExchangeCarries DEF ExchangePhases
<1>2. ASSUME NEW phase \in ExchangePhases, ExchangeGoes(e, phase),
             phase \in {"vet", "consume", "revet", "session", "rollback"} =>
                exch[e].before # "none",
             phase \in {"revet", "session", "granted"} => Holds(e)
      PROVE  IInv'
  <2> DEFINE new == [exch[e] EXCEPT !.phase = phase]
  <2>1. /\ exch[e] \in Running /\ exch[e].link \in Links
        /\ token[exch[e].link] # NoToken
    BY AttemptOf DEF IInv
  <2>2. /\ new \in Attempt /\ new.phase = phase /\ new.link = exch[e].link
        /\ new.before = exch[e].before /\ new.ousted = exch[e].ousted
    BY <2>1 DEF Attempt, Running
  <2>3. exch' = [exch EXCEPT ![e] = new]
    BY <1>2 DEF ExchangeGoes
  <2> HIDE DEF new
  <2> QED
    BY <1>2, <2>1, <2>2, <2>3, ExchangeCarries
<1>3. ASSUME NEW last \in {Broken} \cup [phase: {"barred"}, by: SUBSET Links],
             exch' = [exch EXCEPT ![e] = last]
      PROVE  IInv'
  <2>1. last \in Attempt /\ last.phase \in {"broken", "barred"}
    BY DEF Broken, Attempt
  <2> QED
    BY <1>3, <2>1, ExchangeCarries DEF ExchangePhases
<1> QED
  BY <1>1, <1>2, <1>3

LEMMA PresentSteps ==
    ASSUME IInv, NEW e \in Exchanges, NEW l \in Links, Present(e, l)
    PROVE  IInv'
<1> DEFINE new == [link |-> l, before |-> "none", ousted |-> {}, rivals |-> {},
                   phase |-> IF Portal /\ Queued(token[l]) /\ grant[l] = NoGrant
                             THEN "repair" ELSE "read"]
<1>1. exch' = [exch EXCEPT ![e] = new]
  BY DEF Present
<1>2. KeepsAll
  BY UnchangedKeeps DEF Present, rows, IInv, TypeOK
<1>3. new \in Attempt /\ new.phase \in {"repair", "read"} /\ new.link = l
  BY DEF Attempt, Running, ExchangePhases
<1>4. token[l] # NoToken
  BY DEF Present, IInv, Inserted
<1>5. /\ grant' \in [Links -> Grant \cup {NoGrant}]
      /\ UNCHANGED <<purpose, call, queue, worker, mailed>>
  BY DEF Present, rows, IInv, TypeOK
<1> HIDE DEF new
<1> QED
  BY <1>1, <1>2, <1>3, <1>4, <1>5, ExchangeCarries

LEMMA ReadSteps ==
    ASSUME IInv, NEW e \in Exchanges, ReadCandidate(e)
    PROVE  IInv'
<1> DEFINE l == exch[e].link
           new == [exch[e] EXCEPT !.phase = IF Portal THEN "vet" ELSE "consume",
                                  !.before = token[l].state]
<1>1. /\ exch[e].phase \in ExchangePhases
      /\ KeepsAll /\ grant' \in [Links -> Grant \cup {NoGrant}]
      /\ UNCHANGED <<purpose, call, queue, worker, mailed>>
  BY UnchangedKeeps DEF ReadCandidate, rows, IInv, TypeOK, ExchangePhases
<1>2. CASE Refuses(e)
  BY <1>1, <1>2, ExchangeMoves
<1>3. CASE /\ Presentable(token[l])
           /\ exch' = [exch EXCEPT ![e].phase = IF Portal THEN "vet" ELSE "consume",
                                  ![e].before = token[l].state]
  <2>1. exch[e] \in Running /\ l \in Links /\ token[l] # NoToken
    BY <1>1, AttemptOf DEF IInv
  <2>2. token[l].state \in {"pending", "queued"}
    BY <1>3 DEF Presentable
  <2>3. /\ new \in Attempt /\ new.phase \in {"vet", "consume"} /\ new.link = l
        /\ new.before # "none"
    BY <2>1, <2>2 DEF Attempt, Running, ExchangePhases
  <2>4. exch' = [exch EXCEPT ![e] = new]
    BY <1>3
  <2> HIDE DEF new
  <2> QED
    BY <1>1, <2>1, <2>3, <2>4, ExchangeCarries
<1> QED
  BY <1>2, <1>3 DEF ReadCandidate

LEMMA WithdrawSteps ==
    ASSUME IInv, NEW e \in Exchanges, Withdraw(e)
    PROVE  IInv'
<1> DEFINE l == exch[e].link
<1>1. /\ exch[e].phase \in ExchangePhases /\ Refuses(e)
      /\ UNCHANGED <<purpose, call, queue, worker, mailed>>
  BY DEF Withdraw, ExchangePhases
<1>2. l \in Links /\ token[l] \in Token /\ token[l] # NoToken
  BY <1>1, AttemptOf DEF IInv
<1>3. KeepsAll
  <2>1. CASE token[l].revoked = "none"
    <3>1. token' = [token EXCEPT ![l] = [token[l] EXCEPT !.revoked = "withdrawn"]]
      BY <2>1 DEF Withdraw
    <3> QED
      BY <1>2, <3>1, RowKeeps DEF IInv, TypeOK
  <2>2. CASE token[l].revoked # "none"
    BY <2>2, UnchangedKeeps DEF Withdraw, IInv, TypeOK
  <2> QED
    BY <2>1, <2>2
<1>4. grant' \in [Links -> Grant \cup {NoGrant}]
  <2>1. /\ grant[l] \in Grant \cup {NoGrant}
        /\ grant' = [grant EXCEPT ![l] = [grant[l] EXCEPT !.revoked = TRUE]]
    BY <1>2 DEF Withdraw, IInv, TypeOK
  <2>2. [grant[l] EXCEPT !.revoked = TRUE] \in Grant \cup {NoGrant}
    <3>1. CASE grant[l] = NoGrant
      BY <3>1, ExceptNoGrant
    <3>2. CASE grant[l] \in Grant
      BY <3>2 DEF Grant
    <3> QED
      BY <2>1, <3>1, <3>2
  <2> QED
    BY <2>1, <2>2 DEF IInv, TypeOK
<1> QED
  BY <1>1, <1>3, <1>4, ExchangeMoves

LEMMA QuietSteps ==
    ASSUME IInv, NEW e \in Exchanges,
           RepairFinalization(e) \/ Vet(e) \/ CreateSession(e) \/ CreateFails(e) \/ Breaks(e)
    PROVE  IInv'
<1> USE DEF rows, ExchangePhases
<1>1. CASE RepairFinalization(e)
  <2>1. exch[e].link \in Links
    BY <1>1, AttemptOf DEF RepairFinalization, IInv
  <2>2. KeepsAll /\ grant' \in [Links -> Grant \cup {NoGrant}]
    BY <1>1, <2>1, FinalizedKeeps, UnchangedKeeps DEF RepairFinalization, IInv, TypeOK
  <2> QED
    BY <1>1, <2>2, ExchangeMoves DEF RepairFinalization
<1>2. CASE ~RepairFinalization(e)
  <2>1. /\ KeepsAll /\ grant' \in [Links -> Grant \cup {NoGrant}]
        /\ UNCHANGED <<purpose, call, queue, worker, mailed>>
    BY <1>2, UnchangedKeeps DEF Vet, CreateSession, CreateFails, Breaks, IInv, TypeOK
  <2>2. CASE Vet(e)
    BY <2>1, <2>2, ExchangeMoves DEF Vet, Holds, IInv, Remembers
  <2>3. CASE CreateSession(e)
    BY <2>1, <2>3, ExchangeMoves DEF CreateSession, Holds
  <2>4. CASE CreateFails(e)
    BY <2>1, <2>4, ExchangeMoves DEF CreateFails, IInv, Remembers
  <2>5. CASE Breaks(e)
    BY <2>1, <2>5, ExchangeMoves DEF Breaks
  <2> QED
    BY <1>2, <2>2, <2>3, <2>4, <2>5
<1> QED
  BY <1>1, <1>2

\* A link that is consumed was open, so nobody else holds it, and takes every
\* other open link out of the race.
LEMMA ConsumeSteps ==
    ASSUME IInv, NEW e \in Exchanges, Consume(e)
    PROVE  IInv'
<1> DEFINE l == exch[e].link
           own == [token EXCEPT ![l].consumed = e, ![l].state = "queued"]
           ousted == {k \in Links \ {l} : Presentable(token[k])}
           rivals == {k \in Links \ {l} : Active(grant[k])}
           new == [exch[e] EXCEPT !.phase = IF Portal THEN "revet" ELSE "session",
                                  !.ousted = ousted, !.rivals = rivals]
<1>1. /\ exch[e].phase \in ExchangePhases /\ exch[e].phase = "consume"
      /\ UNCHANGED <<purpose, call, queue, worker, mailed>>
  BY DEF Consume, ExchangePhases
<1>2. exch[e] \in Running /\ l \in Links /\ token[l] \in Token /\ token[l] # NoToken
  BY <1>1, AttemptOf DEF IInv
<1>3. grant' \in [Links -> Grant \cup {NoGrant}]
  <2>1. CASE Portal /\ Active(grant[l])
    <3>1. grant[l] \in Grant /\ grant' = [grant EXCEPT ![l] = [grant[l] EXCEPT !.consumed = e]]
      BY <1>2, <2>1 DEF Consume, Active, IInv, TypeOK
    <3> QED
      BY <3>1 DEF Grant, IInv, TypeOK
  <2>2. CASE ~(Portal /\ Active(grant[l]))
    BY <2>2 DEF Consume, IInv, TypeOK
  <2> QED
    BY <2>1, <2>2
<1>4. CASE ~Consumable(e)
  BY <1>1, <1>3, <1>4, UnchangedKeeps, ExchangeMoves DEF Consume, IInv, TypeOK
<1>5. CASE Consumable(e)
  <2>1. token' = Superseded(own, l, "presented", ousted) /\ exch' = [exch EXCEPT ![e] = new]
    BY <1>5 DEF Consume, Ousted
  <2>2. token[l].consumed = Nobody /\ token[l].revoked = "none"
    BY <1>5 DEF Consumable, Presentable, Open
  <2>3. /\ own \in [Links -> Token \cup {NoToken}]
        /\ own[l] # NoToken /\ own[l].consumed = e /\ own[l].state = "queued"
        /\ \A k \in Links \ {l} : own[k] = token[k]
    <3>1. own = [token EXCEPT ![l] = [token[l] EXCEPT !.consumed = e, !.state = "queued"]]
      BY <1>2 DEF IInv, TypeOK
    <3>2. [token[l] EXCEPT !.consumed = e, !.state = "queued"] \in Token
      BY <1>2 DEF Token
    <3>3. /\ [token[l] EXCEPT !.consumed = e, !.state = "queued"] # NoToken
          /\ [token[l] EXCEPT !.consumed = e, !.state = "queued"].consumed = e
          /\ [token[l] EXCEPT !.consumed = e, !.state = "queued"].state = "queued"
      BY <1>2 DEF Token, NoToken
    <3> QED
      BY <1>2, <3>1, <3>2, <3>3 DEF IInv, TypeOK
  <2>4. /\ token' \in [Links -> Token \cup {NoToken}]
        /\ \A k \in Links :
              /\ token'[k] = NoToken <=> own[k] = NoToken
              /\ own[k] # NoToken =>
                    /\ token'[k].consumed = own[k].consumed
                    /\ own[k].revoked # "none" => token'[k].revoked # "none"
    <3> HIDE DEF own, ousted
    <3> QED
      BY <1>2, <2>1, <2>3, SupersededKeeps DEF Causes
  <2>5. \A k \in ousted :
          /\ token[k] # NoToken /\ token[k].consumed = Nobody
          /\ token'[k].revoked # "none"
    <3> SUFFICES ASSUME NEW k \in ousted
                 PROVE  /\ token[k] # NoToken /\ token[k].consumed = Nobody
                        /\ token'[k].revoked # "none"
      OBVIOUS
    <3>1. k \in Links /\ k # l /\ own[k] = token[k] /\ Presentable(token[k])
      BY <2>3
    <3>2. token[k] \in Token /\ token[k].consumed = Nobody /\ token[k] # NoToken
      BY <3>1 DEF Presentable, Open, IInv, TypeOK
    <3>3. token'[k] = [own[k] EXCEPT !.revoked = "presented"]
      <4> HIDE DEF own, ousted
      <4> QED
        BY <2>1, <2>3, <3>1 DEF Superseded
    <3> QED
      BY <3>1, <3>2, <3>3 DEF Token
  <2>6. /\ new \in Attempt /\ new.link = l /\ new.ousted = ousted /\ new.before = exch[e].before
        /\ new.phase \in {"revet", "session"}
    BY <1>2 DEF Attempt, Running, ExchangePhases
  <2>7. TypeOK'
    BY <1>1, <1>3, <2>1, <2>4, <2>6 DEF IInv, TypeOK
  <2>8. \A f \in Exchanges : exch[f].phase \in ExchangePhases => exch[f].link \in Links
    BY DEF IInv, TypeOK, Attempt, Running, IdleExchange, Refused, Broken, ExchangePhases
  <2>9. \A w \in Workers : worker[w] # IdleWorker => worker[w].link \in Links
    BY DEF IInv, TypeOK, Delivery
  <2>10. \A k \in Links : token'[k] = NoToken <=> token[k] = NoToken
    BY <1>2, <2>3, <2>4
  <2>11. exch'[e] = new /\ \A f \in Exchanges \ {e} : exch'[f] = exch[f]
    BY <2>1 DEF IInv, TypeOK
  <2>12. Inserted'
    <3> HIDE DEF own, ousted, new
    <3>1. \A k \in Links : call'[k] = "idle" <=> token'[k] = NoToken
      BY <1>1, <2>10 DEF IInv, Inserted
    <3>2. \A k \in queue' \cup mailed' : token'[k] # NoToken
      BY <1>1, <2>10 DEF IInv, Inserted, TypeOK
    <3>3. \A w \in Workers : worker'[w] # IdleWorker => token'[worker'[w].link] # NoToken
      BY <1>1, <2>9, <2>10 DEF IInv, Inserted
    <3>4. \A f \in Exchanges \ {e} :
             exch'[f].phase \in ExchangePhases => token'[exch'[f].link] # NoToken
      BY <2>8, <2>10, <2>11 DEF IInv, Inserted
    <3>5. token'[exch'[e].link] # NoToken
      BY <1>2, <2>6, <2>10, <2>11
    <3> QED
      BY <3>1, <3>2, <3>3, <3>4, <3>5 DEF Inserted
  <2>13. Remembers'
    BY <1>1, <2>6, <2>11 DEF IInv, Remembers
  <2>14. Held'
    <3> SUFFICES ASSUME NEW f \in Exchanges, Holds(f)'
                 PROVE  /\ token'[exch'[f].link].consumed = f
                        /\ \A k \in exch'[f].ousted :
                              /\ token'[k] # NoToken /\ token'[k].consumed = Nobody
                              /\ token'[k].revoked # "none"
      BY DEF Held
    <3>1. CASE f = e
      <4>1. exch'[f].link = l /\ exch'[f].ousted = ousted
        BY <2>6, <2>11, <3>1
      <4>2. \A k \in ousted : k \in Links /\ k # l
        OBVIOUS
      <4> HIDE DEF own, ousted, new
      <4>3. token'[l].consumed = f
        BY <1>2, <2>3, <2>4, <3>1
      <4>4. ASSUME NEW k \in ousted
            PROVE  token'[k] # NoToken /\ token'[k].consumed = Nobody
        BY <2>3, <2>4, <2>5, <2>10, <4>2, <4>4
      <4> QED
        BY <2>5, <4>1, <4>3, <4>4
    <3>2. CASE f # e
      <4>1. Holds(f) /\ exch'[f] = exch[f]
        BY <2>11, <3>2 DEF Holds
      <4>2. /\ exch[f].link \in Links /\ exch[f].ousted \subseteq Links
            /\ exch[f].phase \in ExchangePhases
        BY <4>1 DEF Holds, IInv, TypeOK, Attempt, Running, IdleExchange, Refused, Broken
      <4>3. /\ token[exch[f].link].consumed = f /\ token[exch[f].link] # NoToken
            /\ \A k \in exch[f].ousted :
                  token[k] # NoToken /\ token[k].consumed = Nobody /\ token[k].revoked # "none"
        BY <4>1, <4>2 DEF IInv, Held, Inserted
      <4>4. exch[f].link # l /\ l \notin exch[f].ousted
        BY <2>2, <4>3, NobodyAssumption
      <4>5. \A k \in exch[f].ousted : own[k] = token[k]
        BY <2>3, <4>2, <4>4
      <4>6. own[exch[f].link] = token[exch[f].link]
        BY <2>3, <4>2, <4>4
      <4> HIDE DEF own
      <4> QED
        BY <2>4, <4>1, <4>2, <4>3, <4>5, <4>6
    <3> QED
      BY <3>1, <3>2
  <2> QED
    BY <2>7, <2>12, <2>13, <2>14 DEF IInv
<1> QED
  BY <1>4, <1>5

\* A link that is released is held by nobody else, and was given up for none.
LEMMA RollbackSteps ==
    ASSUME IInv, NEW e \in Exchanges, Rollback(e)
    PROVE  IInv'
<1> DEFINE l == exch[e].link
           released == [token[l] EXCEPT !.consumed = Nobody, !.state = exch[e].before]
           end == exch'[e]
<1>1. /\ exch[e].phase \in ExchangePhases /\ exch[e].phase = "rollback"
      /\ UNCHANGED <<purpose, call, queue, worker, mailed>>
  BY DEF Rollback, ExchangePhases
<1>2. /\ exch[e] \in Running /\ l \in Links
      /\ token[l] \in Token /\ token[l] # NoToken
      /\ exch[e].before \in {"pending", "queued"}
  BY <1>1, AttemptOf DEF IInv, Remembers
<1>3. grant' \in [Links -> Grant \cup {NoGrant}]
  <2>1. grant[l] \in Grant \cup {NoGrant}
    BY <1>2 DEF IInv, TypeOK
  <2>2. [grant[l] EXCEPT !.consumed = Nobody] \in Grant \cup {NoGrant}
    <3>1. CASE grant[l] = NoGrant
      BY <3>1, ExceptNoGrant
    <3>2. CASE grant[l] \in Grant
      BY <3>2 DEF Grant
    <3> QED
      BY <2>1, <3>1, <3>2
  <2>3. grant' = grant \/ grant' = [grant EXCEPT ![l] = [grant[l] EXCEPT !.consumed = Nobody]]
    BY <1>2 DEF Rollback, IInv, TypeOK
  <2> QED
    BY <1>2, <2>2, <2>3 DEF IInv, TypeOK
<1>0. /\ exch' = [exch EXCEPT ![e] = end] /\ exch' \in [Exchanges -> Attempt]
      /\ end = Refused \/ end \in [phase: {"barred"}, by: SUBSET Links]
  <2> DEFINE by == {k \in Links : Active(grant[k])} \ exch[e].rivals
  <2>1. PICK last : last \in {Refused, Barred(by)} /\ exch' = [exch EXCEPT ![e] = last]
    BY DEF Rollback
  <2>2. last = Refused \/ last \in [phase: {"barred"}, by: SUBSET Links]
    BY <2>1 DEF Barred
  <2>3. last \in Attempt
    BY <2>2 DEF Attempt
  <2> QED
    BY <2>1, <2>2, <2>3 DEF IInv, TypeOK
<1>4. CASE token' = token
  <2>1. KeepsAll
    BY <1>4, UnchangedKeeps DEF IInv, TypeOK
  <2> HIDE DEF end
  <2> QED
    BY <1>0, <1>1, <1>3, <2>1, ExchangeMoves DEF Refuses
<1>5. CASE /\ token[l].consumed = e /\ token[l].revoked = "none"
           /\ token' = [token EXCEPT ![l] = released]
  <2>1. released \in Token /\ released # NoToken /\ released.consumed = Nobody
    BY <1>2 DEF Token, NoToken
  <2>2. /\ token' \in [Links -> Token \cup {NoToken}] /\ token'[l] = released
        /\ \A k \in Links \ {l} : token'[k] = token[k]
    BY <1>2, <1>5, <2>1 DEF IInv, TypeOK
  <2>3. \A f \in Exchanges \ {e} : exch'[f] = exch[f]
    BY <1>0 DEF IInv, TypeOK
  <2>4. TypeOK'
    BY <1>0, <1>1, <1>3, <2>2 DEF IInv, TypeOK
  <2>5. \A f \in Exchanges : exch[f].phase \in ExchangePhases => exch[f].link \in Links
    BY DEF IInv, TypeOK, Attempt, Running, IdleExchange, Refused, Broken, ExchangePhases
  <2>6. \A w \in Workers : worker[w] # IdleWorker => worker[w].link \in Links
    BY DEF IInv, TypeOK, Delivery
  <2>7. \A k \in Links : token'[k] = NoToken <=> token[k] = NoToken
    BY <1>2, <2>1, <2>2
  <2>8. exch'[e].phase \in {"refused", "barred"}
    BY <1>0 DEF Refused
  <2>9. Inserted'
    BY <1>1, <2>3, <2>5, <2>6, <2>7, <2>8 DEF IInv, Inserted, TypeOK, ExchangePhases
  <2>10. Remembers'
    BY <2>3, <2>8 DEF IInv, Remembers
  <2>11. Held'
    <3> SUFFICES ASSUME NEW f \in Exchanges, Holds(f)'
                 PROVE  /\ token'[exch'[f].link].consumed = f
                        /\ \A k \in exch'[f].ousted :
                              /\ token'[k] # NoToken /\ token'[k].consumed = Nobody
                              /\ token'[k].revoked # "none"
      BY DEF Held
    <3>1. f # e /\ exch'[f] = exch[f] /\ Holds(f)
      BY <2>3, <2>8 DEF Holds
    <3>2. exch[f].link \in Links /\ exch[f].ousted \subseteq Links
      BY <3>1 DEF Holds, IInv, TypeOK, Attempt, Running, IdleExchange, Refused, Broken
    <3>3. /\ token[exch[f].link].consumed = f
          /\ \A k \in exch[f].ousted :
                token[k] # NoToken /\ token[k].consumed = Nobody /\ token[k].revoked # "none"
      BY <3>1 DEF IInv, Held
    <3>4. exch[f].link # l /\ l \notin exch[f].ousted
      BY <1>5, <3>1, <3>3
    <3> QED
      BY <2>2, <3>1, <3>2, <3>3, <3>4
  <2> QED
    BY <2>4, <2>9, <2>10, <2>11 DEF IInv
<1> QED
  BY <1>4, <1>5 DEF Rollback

-----------------------------------------------------------------------------
LEMMA Initially == Init => IInv
<1> SUFFICES ASSUME Init PROVE IInv
  OBVIOUS
<1>1. TypeOK
  BY DEF Init, TypeOK, Delivery, Attempt, CallPhases
<1>2. Inserted
  BY DEF Init, Inserted, IdleExchange, ExchangePhases
<1>3. Held /\ Remembers
  BY DEF Init, Held, Remembers, Holds, IdleExchange
<1> QED
  BY <1>1, <1>2, <1>3 DEF IInv

LEMMA Inductive == IInv /\ [Next]_vars => IInv'
<1> SUFFICES ASSUME IInv, [Next]_vars PROVE IInv'
  OBVIOUS
<1>1. ASSUME NEW l \in Links, Request(l) PROVE IInv'
  BY <1>1, RequestSteps
<1>2. ASSUME NEW w \in Workers, Consumer(w) PROVE IInv'
  BY <1>2, ConsumerSteps
<1>3. ASSUME NEW e \in Exchanges, Exchange(e) PROVE IInv'
  BY <1>3, PresentSteps, ReadSteps, WithdrawSteps, QuietSteps, ConsumeSteps, RollbackSteps
     DEF Exchange
<1>4. CASE UNCHANGED vars
  BY <1>4 DEF vars, rows, IInv, TypeOK, Inserted, Held, Holds, Remembers
<1> QED
  BY <1>1, <1>2, <1>3, <1>4 DEF Next

LEMMA Invariance == Spec => []IInv
BY Initially, Inductive, PTL DEF Spec

\* Rows, messages, deliveries and exchanges keep their types.
THEOREM TypeCorrect == Spec => []TypeOK
BY Invariance, PTL DEF IInv

LEMMA HeldOnce == IInv => OneSessionPerLink /\ FirstPresentedWins
<1> SUFFICES ASSUME IInv PROVE OneSessionPerLink /\ FirstPresentedWins
  OBVIOUS
<1>1. \A e \in Granted :
        /\ e \in Exchanges /\ token[exch[e].link].consumed = e
        /\ \A k \in exch[e].ousted : token[k].consumed = Nobody
  BY DEF Granted, IInv, Held, Holds
<1> QED
  BY <1>1, NobodyAssumption DEF OneSessionPerLink, FirstPresentedWins

\* exchangeMagicLink makes one session of a link, however many calls present it,
\* interleave statement by statement, fail and release it.
THEOREM SessionsAreUnique == Spec => []OneSessionPerLink
BY Invariance, HeldOnce, PTL

\* Once a link was consumed, no other link its recipient held at that moment
\* becomes a session beside it.
THEOREM PresentedLinkWins == Spec => []FirstPresentedWins
BY Invariance, HeldOnce, PTL

-----------------------------------------------------------------------------
(* Replacements, grants and what becomes of a link that was consumed *)

\* What is queued, delivered, mailed or granted went through the queue.
Taken ==
    /\ \A l \in Links : token[l] # NoToken /\ token[l].state = "queued" => l \in queue
    /\ \A l \in Links : call[l] = "mark" => l \in queue
    /\ \A w \in Workers : worker[w] # IdleWorker => worker[w].link \in queue
    /\ mailed \subseteq queue
    /\ \A e \in Exchanges : exch[e].phase \in ExchangePhases => exch[e].link \in queue
    /\ \A l \in Links : grant[l] # NoGrant => l \in queue

\* One grant is active; a grant and its link are consumed together.
Grants ==
    /\ ~Portal => \A l \in Links : grant[l] = NoGrant
    /\ \A k, l \in Links : Active(grant[k]) /\ Active(grant[l]) => k = l
    /\ \A l \in Links : grant[l] # NoGrant /\ ~grant[l].revoked =>
          /\ token[l] # NoToken /\ token[l].revoked \in {"none", "failed"}
          /\ grant[l].consumed # Nobody => ~Open(token[l])
    /\ \A l \in Links : token[l] # NoToken =>
          /\ token[l].state = "failed" => token[l].revoked # "none"
          /\ Portal /\ token[l].consumed # Nobody /\ token[l].revoked = "none" =>
                grant[l] # NoGrant /\ grant[l].consumed = token[l].consumed

\* The exchange that consumed a link is still at work on it, or has ended.
Uses(e, l) ==
    exch[e].phase \in ExchangePhases \cup {"idle"} =>
        /\ exch[e].phase \in {"revet", "session", "rollback", "withdraw", "granted"}
        /\ exch[e].link = l

\* No other grant is active when a link is consumed.
Alone(e) == exch[e].phase \in ExchangePhases => exch[e].rivals = {}

Used ==
    /\ \A l \in Links : token[l] # NoToken /\ token[l].consumed # Nobody =>
          Uses(token[l].consumed, l)
    /\ \A e \in Exchanges : Alone(e)
    /\ ConsumedIsUsedOrReleased

JInv == IInv /\ Taken /\ ReplacementIsOnItsWay /\ Grants /\ Used

\* No row is consumed or released, and none is revoked but for having failed.
Minor ==
    /\ UNCHANGED <<grant, purpose>>
    /\ \A l \in Links :
          /\ token'[l] = NoToken <=> token[l] = NoToken
          /\ token[l] # NoToken =>
                /\ token'[l].created = token[l].created
                /\ token'[l].consumed = token[l].consumed
                /\ \/ token'[l].revoked = token[l].revoked /\ token'[l].state = token[l].state
                   \/ token'[l].revoked = token[l].revoked /\ token'[l].state = "queued"
                   \/ token[l].revoked = "none" /\ token'[l].revoked = "failed"
                      /\ token'[l].state = "failed"

LEMMA MinorGrants == Grants /\ Minor => Grants'
BY DEF Grants, Minor, Open, Portal, Active

\* Replacements stay: rows keep their times, and the queue what it has taken.
LEMMA ReplacementStays ==
    ASSUME IInv, ReplacementIsOnItsWay, queue \subseteq queue', queue \subseteq Links,
           \A l \in Links : token[l] # NoToken =>
              /\ token'[l] # NoToken /\ token'[l].created = token[l].created,
           \A l \in Links : token'[l] # NoToken /\ token'[l].revoked = "replaced" =>
              token[l] # NoToken /\ token[l].revoked = "replaced"
    PROVE  ReplacementIsOnItsWay'
<1> SUFFICES ASSUME NEW l \in Links, token'[l] # NoToken, token'[l].revoked = "replaced"
             PROVE  \E k \in queue' : token'[k] # NoToken /\ Older(l, k)'
  BY DEF ReplacementIsOnItsWay
<1>1. PICK k \in queue : token[k] # NoToken /\ Older(l, k)
  BY DEF ReplacementIsOnItsWay
<1> QED
  BY <1>1 DEF Older

\* So do uses.
LEMMA UsesStay ==
    ASSUME Used, UNCHANGED exch,
           \A l \in Links : token'[l] # NoToken /\ token'[l].consumed # Nobody =>
              /\ token[l] # NoToken /\ token'[l].consumed = token[l].consumed
              /\ token[l].revoked # "none" => token'[l].revoked # "none"
    PROVE  Used'
<1>1. ASSUME NEW l \in Links, NEW f,
             token'[l] # NoToken, token'[l].consumed = f, f # Nobody
      PROVE  Uses(f, l)' /\ (token'[l].revoked # "none" \/ Accounted(f)')
  <2>1. /\ token[l] # NoToken /\ token[l].consumed = f
        /\ token[l].revoked # "none" => token'[l].revoked # "none"
    BY <1>1
  <2>2. Uses(f, l) /\ (token[l].revoked # "none" \/ Accounted(f))
    BY <1>1, <2>1 DEF Used, ConsumedIsUsedOrReleased
  <2> QED
    BY <2>1, <2>2 DEF Uses, Accounted
<1>2. \A e \in Exchanges : Alone(e)'
  BY DEF Used, Alone
<1> QED
  BY <1>1, <1>2 DEF Used, ConsumedIsUsedOrReleased

\* An exchange moves on: what it has consumed is its link, or nothing yet.
LEMMA UsesMove ==
    ASSUME Used, NEW e \in Exchanges, Alone(e)',
           \A f \in Exchanges \ {e} : exch'[f] = exch[f],
           \A l \in Links : token'[l] # NoToken /\ token'[l].consumed \notin {Nobody, e} =>
              /\ token[l] # NoToken /\ token'[l].consumed = token[l].consumed
              /\ token[l].revoked # "none" => token'[l].revoked # "none",
           \A l \in Links : token'[l] # NoToken /\ token'[l].consumed = e =>
              Uses(e, l)' /\ (token'[l].revoked # "none" \/ Accounted(e)'),
           token' \in [Links -> Token \cup {NoToken}]
    PROVE  Used'
<1>1. ASSUME NEW l \in Links, NEW f,
             token'[l] # NoToken, token'[l].consumed = f, f # Nobody
      PROVE  Uses(f, l)' /\ (token'[l].revoked # "none" \/ Accounted(f)')
  <2>1. CASE f = e
    BY <1>1, <2>1
  <2>2. CASE f # e
    <3>1. /\ f \in Exchanges \ {e} /\ exch'[f] = exch[f]
          /\ token[l] # NoToken /\ token[l].consumed = f
          /\ token[l].revoked # "none" => token'[l].revoked # "none"
      BY <1>1, <2>2 DEF Token
    <3>2. Uses(f, l) /\ (token[l].revoked # "none" \/ Accounted(f))
      BY <1>1, <3>1 DEF Used, ConsumedIsUsedOrReleased
    <3> QED
      BY <3>1, <3>2 DEF Uses, Accounted
  <2> QED
    BY <2>1, <2>2
<1>2. \A f \in Exchanges : Alone(f)'
  BY DEF Used, Alone
<1> QED
  BY <1>1, <1>2 DEF Used, ConsumedIsUsedOrReleased

\* The rewrites of a row by the request and by the consumer.
LEMMA MinorRow ==
    ASSUME token \in [Links -> Token \cup {NoToken}], UNCHANGED <<grant, purpose>>,
           NEW l \in Links, token[l] \in Token, token[l] # NoToken,
           NEW new, token' = [token EXCEPT ![l] = new],
           \/ new = [token[l] EXCEPT !.state = "queued"]
           \/ token[l].revoked = "none"
              /\ new = [token[l] EXCEPT !.state = "failed", !.revoked = "failed"]
           \/ new = [token[l] EXCEPT !.completed = TRUE]
           \/ new = [token[l] EXCEPT !.attempt = @ + 1]
    PROVE  Minor /\ \A k \in Links : k # l => token'[k] = token[k]
<1>1. new \in Token
  BY RowTypes
<1>2. new # NoToken
  BY <1>1 DEF Token, NoToken
<1>3. /\ new.created = token[l].created
      /\ new.consumed = token[l].consumed
      /\ \/ new.revoked = token[l].revoked /\ new.state = token[l].state
         \/ new.revoked = token[l].revoked /\ new.state = "queued"
         \/ token[l].revoked = "none" /\ new.revoked = "failed" /\ new.state = "failed"
  BY DEF Token
<1>4. token'[l] = new /\ \A k \in Links : k # l => token'[k] = token[k]
  OBVIOUS
<1> QED
  BY <1>2, <1>3, <1>4 DEF Minor

LEMMA UnchangedMinor == UNCHANGED <<token, grant, purpose>> => Minor
BY DEF Minor

\* What a minor step takes along.
LEMMA MinorSteps ==
    ASSUME JInv, Minor, queue \subseteq queue'
    PROVE  Grants' /\ ReplacementIsOnItsWay' /\ (UNCHANGED exch => Used')
<1>1. Grants'
  BY MinorGrants DEF JInv
<1>2. ReplacementIsOnItsWay'
  <2>1. queue \subseteq Links
    BY DEF JInv, IInv, TypeOK
  <2>2. \A l \in Links : token[l] # NoToken =>
          token'[l] # NoToken /\ token'[l].created = token[l].created
    BY DEF Minor
  <2>3. \A l \in Links : token'[l] # NoToken /\ token'[l].revoked = "replaced" =>
          token[l] # NoToken /\ token[l].revoked = "replaced"
    BY DEF Minor
  <2> QED
    BY <2>1, <2>2, <2>3, ReplacementStays DEF JInv
<1>3. ASSUME UNCHANGED exch PROVE Used'
  <2>1. \A l \in Links : token'[l] # NoToken /\ token'[l].consumed # Nobody =>
          /\ token[l] # NoToken /\ token'[l].consumed = token[l].consumed
          /\ token[l].revoked # "none" => token'[l].revoked # "none"
    BY DEF Minor
  <2> QED
    BY <1>3, <2>1, UsesStay DEF JInv
<1> QED
  BY <1>1, <1>2, <1>3

LEMMA RequestMinor ==
    ASSUME JInv, NEW l \in Links, Request(l), ~Insert(l), ~Finalize(l)
    PROVE  Minor /\ Taken' /\ queue \subseteq queue' /\ UNCHANGED exch
<1> USE DEF JInv, IInv, rows
<1> DEFINE Goal == Minor /\ Taken' /\ queue \subseteq queue' /\ UNCHANGED exch
<1>0. ASSUME UNCHANGED <<token, grant, worker, exch, mailed, purpose>>, queue \subseteq queue',
             \A k \in Links : call'[k] = "mark" => k \in queue'
      PROVE  Goal
  <2>1. Taken'
    BY <1>0 DEF Taken
  <2> QED
    BY <1>0, <2>1, UnchangedMinor
<1>1. \A k \in Links : call[k] = "mark" => k \in queue
  BY DEF Taken
<1>Send. CASE Send(l)
  <2>1. \A k \in Links : call'[k] = "mark" => k \in queue'
    BY <1>1, <1>Send DEF Send, Goes, TypeOK
  <2> QED
    BY <1>Send, <1>0, <2>1 DEF Send
<1>SendFails. CASE SendFails(l)
  <2>1. \A k \in Links : call'[k] = "mark" => k \in queue'
    BY <1>1, <1>SendFails DEF SendFails, Goes, TypeOK
  <2> QED
    BY <1>SendFails, <1>0, <2>1 DEF SendFails
<1>Check. CASE Check(l)
  <2>1. \A k \in Links : call'[k] = "mark" => k \in queue'
    BY <1>1, <1>Check DEF Check, Goes, TypeOK
  <2> QED
    BY <1>Check, <1>0, <2>1 DEF Check
<1>2. ASSUME Fail(l) \/ Mark(l), Pending(token[l])
      PROVE  Goal
  <2>1. token[l] # NoToken /\ token[l] \in Token /\ token[l].revoked = "none"
    BY <1>2 DEF Pending, Open, TypeOK
  <2>2. Minor /\ \A k \in Links : k # l => token'[k] = token[k]
    <3>1. CASE Fail(l)
      <4>1. token' = [token EXCEPT ![l] =
                        [token[l] EXCEPT !.state = "failed", !.revoked = "failed"]]
        BY <1>2, <3>1 DEF Fail
      <4> QED
        BY <2>1, <3>1, <4>1, MinorRow DEF Fail, TypeOK
    <3>2. CASE Mark(l)
      <4>1. token' = [token EXCEPT ![l] = [token[l] EXCEPT !.state = "queued"]]
        BY <1>2, <3>2 DEF Mark
      <4> QED
        BY <2>1, <3>2, <4>1, MinorRow DEF Mark, TypeOK
    <3> QED
      BY <1>2, <3>1, <3>2
  <2>3. token'[l].state = "queued" => l \in queue
    <3>1. CASE Fail(l)
      BY <1>2, <2>1, <3>1 DEF Fail, TypeOK, Token
    <3>2. CASE Mark(l)
      BY <3>2, <1>1 DEF Mark
    <3> QED
      BY <1>2, <3>1, <3>2
  <2>4. /\ \A k \in Links : call'[k] = "mark" => k \in queue
        /\ UNCHANGED <<grant, queue, worker, exch, mailed, purpose>>
    BY <1>1, <1>2 DEF Fail, Mark, Goes, TypeOK
  <2>5. Taken'
    BY <2>1, <2>2, <2>3, <2>4 DEF Taken
  <2> QED
    BY <2>2, <2>4, <2>5
<1>3. ASSUME Fail(l) \/ Mark(l), ~Pending(token[l])
      PROVE  Goal
  <2>1. \A k \in Links : call'[k] = "mark" => k \in queue'
    BY <1>1, <1>3 DEF Fail, Mark, Goes, TypeOK
  <2> QED
    BY <1>0, <1>3, <2>1 DEF Fail, Mark
<1> QED
  BY <1>Send, <1>SendFails, <1>Check, <1>2, <1>3 DEF Request

LEMMA ConsumerMinor ==
    ASSUME JInv, NEW w \in Workers, Consumer(w)
    PROVE  Minor /\ Taken' /\ UNCHANGED <<queue, exch>>
<1> DEFINE l == worker[w].link
           row == token[l]
<1>0. TypeOK /\ Inserted /\ Taken
  BY DEF JInv, IInv
<1>1. /\ worker' \in [Workers -> Delivery]
      /\ UNCHANGED <<purpose, call, grant, queue, exch>>
  BY <1>0, ConsumerKeeps
<1>2. /\ Minor
      /\ \A k \in Links : token'[k] # NoToken /\ token'[k].state = "queued" => k \in queue
  <2>1. CASE UNCHANGED token
    BY <1>0, <1>1, <2>1, UnchangedMinor DEF Taken
  <2>2. ASSUME worker[w].phase \in WorkerPhases,
               \/ token' = [token EXCEPT ![l] = [row EXCEPT !.state = "queued"]]
               \/ token' = [token EXCEPT ![l] = [row EXCEPT !.state = "failed", !.revoked = "failed"]]
                  /\ row.revoked = "none"
               \/ token' = [token EXCEPT ![l] = [row EXCEPT !.completed = TRUE]]
               \/ token' = [token EXCEPT ![l] = [row EXCEPT !.attempt = @ + 1]]
        PROVE  Minor /\ \A k \in Links :
                           token'[k] # NoToken /\ token'[k].state = "queued" => k \in queue
    <3>1. l \in Links /\ row \in Token /\ row # NoToken /\ worker[w] # IdleWorker
      BY <1>0, <2>2, LinkOfDelivery
    <3>2. Minor /\ \A k \in Links : k # l => token'[k] = token[k]
      BY <1>0, <1>1, <2>2, <3>1, MinorRow DEF TypeOK
    <3>3. l \in queue
      BY <1>0, <3>1 DEF Taken
    <3> QED
      BY <1>0, <3>2, <3>3 DEF Taken
  <2>3. CASE Promote(w)
    BY <2>1, <2>2, <2>3 DEF Promote, WorkerPhases
  <2>4. CASE Reject(w)
    BY <2>1, <2>2, <2>4 DEF Reject, WorkerPhases
  <2>5. CASE Claim(w)
    <3>1. UNCHANGED token \/ token' = [token EXCEPT ![l] = [row EXCEPT !.attempt = @ + 1]]
      BY <2>5 DEF Claim
    <3> QED
      BY <2>1, <2>2, <2>5, <3>1 DEF Claim, WorkerPhases
  <2>6. CASE Record(w)
    BY <2>1, <2>2, <2>6 DEF Record, WorkerPhases
  <2>7. CASE GiveUp(w)
    BY <2>1, <2>2, <2>7 DEF GiveUp, WorkerPhases, Fenced, Undone
  <2>8. ASSUME NEW k \in Links, Deliver(w, k) PROVE UNCHANGED token
    BY <2>8 DEF Deliver, rows
  <2>9. CASE ProviderSends(w) \/ ProviderFails(w) \/ WorkerDies(w)
    BY <2>1, <2>9 DEF ProviderSends, ProviderFails, WorkerDies, rows
  <2> QED
    BY <2>1, <2>3, <2>4, <2>5, <2>6, <2>7, <2>8, <2>9 DEF Consumer
<1>3. \A v \in Workers : worker'[v] # IdleWorker => worker'[v].link \in queue
  <2>1. ASSUME worker[w].phase \in WorkerPhases,
               Ends(w) \/ \E phase \in WorkerPhases : Works(w, phase)
        PROVE  \A v \in Workers : worker'[v] # IdleWorker => worker'[v].link \in queue
    BY <1>0, <2>1, DeliveryMoves DEF TypeOK, Taken
  <2>2. CASE Promote(w) \/ Reject(w) \/ Record(w) \/ GiveUp(w) \/ ProviderSends(w)
             \/ ProviderFails(w)
    BY <2>1, <2>2 DEF Promote, Reject, Record, GiveUp, ProviderSends, ProviderFails, WorkerPhases
  <2>3. CASE WorkerDies(w)
    BY <1>0, <2>3 DEF WorkerDies, Ends, TypeOK, Taken
  <2>4. CASE Claim(w)
    <3>1. worker[w].phase \in WorkerPhases
      BY <2>4 DEF Claim, WorkerPhases
    <3>2. CASE Ends(w)
      BY <2>1, <3>1, <3>2
    <3>3. CASE worker' = [worker EXCEPT ![w].phase = "sending", ![w].attempt = row.attempt + 1]
      <4>1. worker[w] # IdleWorker /\ worker[w] \in Delivery
        BY <1>0, <3>1, LinkOfDelivery DEF TypeOK
      <4>2. worker'[w].link = l /\ \A v \in Workers : v # w => worker'[v] = worker[v]
        BY <1>0, <3>3, <4>1 DEF TypeOK, Delivery
      <4> QED
        BY <1>0, <4>1, <4>2 DEF Taken
    <3> QED
      BY <2>4, <3>2, <3>3 DEF Claim
  <2>5. ASSUME NEW k \in Links, Deliver(w, k)
        PROVE  \A v \in Workers : worker'[v] # IdleWorker => worker'[v].link \in queue
    <3>1. worker'[w].link = k /\ \A v \in Workers : v # w => worker'[v] = worker[v]
      BY <1>0, <2>5 DEF Deliver, TypeOK
    <3> QED
      BY <1>0, <2>5, <3>1 DEF Taken, Deliver
  <2> QED
    BY <2>2, <2>3, <2>4, <2>5 DEF Consumer
<1>4. mailed' \subseteq queue
  <2>1. CASE ProviderSends(w) \/ ProviderFails(w)
    <3>1. worker[w] # IdleWorker
      BY <1>0, <2>1, LinkOfDelivery DEF ProviderSends, ProviderFails, WorkerPhases
    <3> QED
      BY <1>0, <2>1, <3>1 DEF Taken, ProviderSends, ProviderFails
  <2>2. CASE ~(ProviderSends(w) \/ ProviderFails(w))
    BY <1>0, <2>2 DEF Consumer, Deliver, Promote, Reject, Claim, Record, GiveUp, WorkerDies, Taken
  <2> QED
    BY <2>1, <2>2
<1>5. Taken'
  BY <1>0, <1>1, <1>2, <1>3, <1>4 DEF Taken
<1> QED
  BY <1>1, <1>2, <1>5

LEMMA InsertSettles ==
    ASSUME JInv, NEW l \in Links, Insert(l)
    PROVE  Taken' /\ ReplacementIsOnItsWay' /\ Grants' /\ Used'
<1> PICK now \in Clock[l] :
        token' = [token EXCEPT ![l] =
                    [state |-> "pending", created |-> now, consumed |-> Nobody,
                     revoked |-> "none", attempt |-> 0, completed |-> FALSE]]
  BY DEF Insert
<1>1. token[l] = NoToken /\ TypeOK
  BY DEF Insert, Inserted, JInv, IInv
<1>2. /\ token'[l] # NoToken /\ token'[l].state = "pending" /\ token'[l].consumed = Nobody
      /\ token'[l].revoked = "none"
      /\ \A k \in Links : k # l => token'[k] = token[k]
  BY <1>1 DEF TypeOK, NoToken
<1>3. /\ UNCHANGED <<grant, queue, worker, exch, mailed, purpose>>
      /\ \A k \in Links : call'[k] = "mark" => call[k] = "mark"
  BY <1>1 DEF Insert, Goes, TypeOK
<1>4. Taken'
  BY <1>2, <1>3 DEF JInv, Taken
<1>5. ReplacementIsOnItsWay'
  <2>1. queue \subseteq Links /\ queue \subseteq queue'
    BY <1>1, <1>3 DEF TypeOK
  <2>2. \A k \in Links : token[k] # NoToken =>
          token'[k] # NoToken /\ token'[k].created = token[k].created
    BY <1>1, <1>2
  <2>3. \A k \in Links : token'[k] # NoToken /\ token'[k].revoked = "replaced" =>
          token[k] # NoToken /\ token[k].revoked = "replaced"
    BY <1>2
  <2> QED
    BY <2>1, <2>2, <2>3, ReplacementStays DEF JInv
<1>6. Grants'
  BY <1>1, <1>2, <1>3 DEF JInv, Grants, Portal, Active, Open
<1>7. Used'
  <2>1. \A k \in Links : token'[k] # NoToken /\ token'[k].consumed # Nobody =>
          /\ token[k] # NoToken /\ token'[k].consumed = token[k].consumed
          /\ token[k].revoked # "none" => token'[k].revoked # "none"
    BY <1>1, <1>2
  <2> QED
    BY <1>1, <1>3, <2>1, UsesStay DEF JInv
<1> QED
  BY <1>4, <1>5, <1>6, <1>7

\* A row that is given up for another link, and is otherwise the same.
Replaced(k) ==
    /\ token[k] # NoToken /\ token'[k] # NoToken
    /\ token'[k].state = token[k].state /\ token'[k].created = token[k].created
    /\ token'[k].consumed = token[k].consumed
    /\ token'[k].revoked = "replaced"

LEMMA RowReplaced ==
    ASSUME NEW row \in Token, NEW cause \in Causes
    PROVE  LET new == [row EXCEPT !.revoked = cause]
           IN  /\ new \in Token /\ new # NoToken
               /\ new.state = row.state /\ new.created = row.created
               /\ new.consumed = row.consumed /\ new.revoked = cause
BY DEF Token, NoToken

LEMMA FinalizedRows ==
    ASSUME token \in [Links -> Token \cup {NoToken}], NEW l \in Links, Finalized(l), NEW k \in Links
    PROVE  \/ token'[k] = token[k]
           \/ /\ k # l /\ Queued(token[l]) /\ Older(k, l) /\ Presentable(token[k])
              /\ Replaced(k)
           \/ /\ k = l /\ Portal /\ Queued(token[l]) /\ grant[l] = NoGrant /\ Outranked(l)
              /\ Replaced(k)
<1> DEFINE late == Portal /\ Queued(token[l]) /\ grant[l] = NoGrant /\ Outranked(l)
           own == IF late THEN [token EXCEPT ![l].revoked = "replaced"] ELSE token
           older == {j \in Links : Older(j, l) /\ Open(own[l])}
<1>1. token' = Superseded(own, l, "replaced", older)
  BY DEF Finalized
<1>2. token'[k] = IF k # l /\ Presentable(own[k]) /\ own[l].state = "queued" /\ k \in older
                  THEN [own[k] EXCEPT !.revoked = "replaced"] ELSE own[k]
  <2> HIDE DEF own, older
  <2> QED
    BY <1>1 DEF Superseded
<1>3. "replaced" \in Causes
  BY DEF Causes
<1>4. CASE k = l
  <2>1. token'[l] = own[l]
    BY <1>2, <1>4
  <2>2. CASE late
    <3>1. token[l] \in Token /\ token[l] # NoToken
      BY <2>2 DEF Queued, Open
    <3>2. token'[l] = [token[l] EXCEPT !.revoked = "replaced"]
      BY <2>1, <2>2
    <3>3. Replaced(l)
      BY <1>3, <3>1, <3>2, RowReplaced DEF Replaced
    <3> QED
      BY <1>4, <2>2, <3>3
  <2>3. CASE ~late
    BY <1>4, <2>1, <2>3
  <2> QED
    BY <2>2, <2>3
<1>5. CASE k # l
  <2>1. own[k] = token[k]
    BY <1>5
  <2>2. CASE Presentable(own[k]) /\ own[l].state = "queued" /\ k \in older
    <3>1. Older(k, l) /\ Open(own[l])
      BY <2>2
    <3>2. ~late
      <4> SUFFICES ASSUME late PROVE FALSE
        OBVIOUS
      <4>1. token[l] \in Token
        BY DEF Queued, Open
      <4>2. own[l].revoked = "replaced"
        BY <4>1 DEF Token
      <4> QED
        BY <3>1, <4>2 DEF Open
    <3>3. own = token
      BY <3>2
    <3>4. Queued(token[l]) /\ Presentable(token[k])
      BY <2>1, <2>2, <3>1, <3>3 DEF Queued
    <3>5. token[k] \in Token /\ token[k] # NoToken
      BY <3>4 DEF Presentable, Open
    <3>6. token'[k] = [token[k] EXCEPT !.revoked = "replaced"]
      BY <1>2, <1>5, <2>1, <2>2
    <3>7. Replaced(k)
      BY <1>3, <3>5, <3>6, RowReplaced DEF Replaced
    <3> QED
      BY <1>5, <3>1, <3>4, <3>7
  <2>3. CASE ~(Presentable(own[k]) /\ own[l].state = "queued" /\ k \in older)
    BY <1>2, <2>1, <2>3
  <2> QED
    BY <2>2, <2>3
<1> QED
  BY <1>4, <1>5

LEMMA FinalizedGrants ==
    ASSUME grant \in [Links -> Grant \cup {NoGrant}], NEW l \in Links, Finalized(l), NEW k \in Links
    PROVE  \/ /\ grant'[k] = grant[k]
              /\ ~(k # l /\ Portal /\ Queued(token[l]) /\ Active(grant[k]) /\ Older(k, l))
           \/ /\ k # l /\ Active(grant[k]) /\ Older(k, l)
              /\ grant'[k] # NoGrant /\ grant'[k].revoked
           \/ /\ k = l /\ Portal /\ Queued(token[l]) /\ grant[l] = NoGrant /\ ~Outranked(l)
              /\ grant'[l] # NoGrant /\ grant'[l].consumed = Nobody /\ ~grant'[l].revoked
<1>1. CASE ~Portal \/ ~Queued(token[l])
  BY <1>1 DEF Finalized, GrantsAfter
<1>2. CASE Portal /\ Queued(token[l])
  <2>1. grant' = GrantsAfter(l)
    BY <1>2 DEF Finalized
  <2>2. CASE k # l /\ Active(grant[k]) /\ Older(k, l)
    <3>1. grant'[k] = [grant[k] EXCEPT !.revoked = TRUE]
      BY <1>2, <2>1, <2>2 DEF GrantsAfter
    <3>2. grant[k] \in Grant
      BY <2>2 DEF Active
    <3>3. grant'[k] # NoGrant /\ grant'[k].revoked
      BY <3>1, <3>2 DEF Grant, NoGrant
    <3> QED
      BY <2>2, <3>3
  <2>3. CASE k = l /\ grant[l] = NoGrant /\ ~Outranked(l)
    <3>1. grant'[l] = [state |-> "granted", consumed |-> Nobody, revoked |-> FALSE]
      BY <1>2, <2>1, <2>3 DEF GrantsAfter
    <3>2. grant'[l] # NoGrant /\ grant'[l].consumed = Nobody /\ ~grant'[l].revoked
      BY <3>1 DEF NoGrant
    <3> QED
      BY <1>2, <2>3, <3>2
  <2>4. CASE ~(k # l /\ Active(grant[k]) /\ Older(k, l))
             /\ ~(k = l /\ grant[l] = NoGrant /\ ~Outranked(l))
    <3>1. grant'[k] = grant[k]
      BY <1>2, <2>1, <2>4 DEF GrantsAfter
    <3> QED
      BY <2>4, <3>1
  <2> QED
    BY <2>2, <2>3, <2>4
<1> QED
  BY <1>1, <1>2

\* Rows have an age, and no two the same.
LEMMA Ages ==
    ASSUME TypeOK, NEW k \in Links, NEW l \in Links, k # l, token[k] # NoToken, token[l] # NoToken
    PROVE  Older(k, l) \/ Older(l, k)
<1>1. token[k].created \in Nat /\ token[l].created \in Nat
  BY DEF TypeOK, Token
<1>2. k \in Nat /\ l \in Nat
  BY LinksAssumption
<1> QED
  BY <1>1, <1>2 DEF Older

\* A finalization gives l its grant and older links up, or l itself.
LEMMA FinalizedSettles ==
    ASSUME JInv, NEW l \in Links, Finalized(l), UNCHANGED <<queue, purpose>>
    PROVE  /\ ReplacementIsOnItsWay' /\ Grants'
           /\ \A k \in Links : grant[k] # NoGrant => grant'[k] # NoGrant
           /\ \A k \in Links : grant'[k] # NoGrant => k \in queue
           /\ \A k \in Links : token'[k] # NoToken /\ token'[k].state = "queued" => k \in queue
           /\ \A k \in Links : token'[k] # NoToken /\ token'[k].consumed # Nobody =>
                 /\ token[k] # NoToken /\ token'[k].consumed = token[k].consumed
                 /\ token[k].revoked # "none" => token'[k].revoked # "none"
<1>0. TypeOK /\ Taken /\ Grants /\ ReplacementIsOnItsWay
  BY DEF JInv, IInv
<1>1. \A k \in Links :
        \/ token'[k] = token[k]
        \/ /\ k # l /\ Queued(token[l]) /\ Older(k, l) /\ Presentable(token[k])
           /\ Replaced(k)
        \/ /\ k = l /\ Portal /\ Queued(token[l]) /\ grant[l] = NoGrant /\ Outranked(l)
           /\ Replaced(k)
  BY <1>0, FinalizedRows DEF TypeOK
<1>2. \A k \in Links :
        \/ /\ grant'[k] = grant[k]
           /\ ~(k # l /\ Portal /\ Queued(token[l]) /\ Active(grant[k]) /\ Older(k, l))
        \/ /\ k # l /\ Active(grant[k]) /\ Older(k, l)
           /\ grant'[k] # NoGrant /\ grant'[k].revoked
        \/ /\ k = l /\ Portal /\ Queued(token[l]) /\ grant[l] = NoGrant /\ ~Outranked(l)
           /\ grant'[l] # NoGrant /\ grant'[l].consumed = Nobody /\ ~grant'[l].revoked
  BY <1>0, FinalizedGrants DEF TypeOK
<1>3. Queued(token[l]) => l \in queue /\ token[l] # NoToken
  BY <1>0 DEF Queued, Open, Taken
<1>4. \A k \in Links :
        /\ grant[k] # NoGrant => grant'[k] # NoGrant
        /\ grant'[k] # NoGrant => k \in queue
  BY <1>0, <1>2, <1>3 DEF Active, Taken
<1>5. \A k \in Links : token'[k] # NoToken /\ token'[k].state = "queued" => k \in queue
  BY <1>0, <1>1 DEF Taken, Replaced
<1>6. \A k \in Links : token'[k] # NoToken /\ token'[k].consumed # Nobody =>
        /\ token[k] # NoToken /\ token'[k].consumed = token[k].consumed
        /\ token[k].revoked # "none" => token'[k].revoked # "none"
  BY <1>1 DEF Replaced
<1>7. \A k \in Links : token[k] # NoToken =>
        token'[k] # NoToken /\ token'[k].created = token[k].created
  BY <1>1 DEF Replaced
<1>8. ReplacementIsOnItsWay'
  <2> SUFFICES ASSUME NEW k \in Links, token'[k] # NoToken, token'[k].revoked = "replaced"
               PROVE  \E j \in queue : token'[j] # NoToken /\ Older(k, j)'
    BY DEF ReplacementIsOnItsWay
  <2>1. ASSUME NEW j \in queue, token[j] # NoToken, token[k] # NoToken, Older(k, j)
        PROVE  \E i \in queue : token'[i] # NoToken /\ Older(k, i)'
    <3>1. j \in Links
      BY <1>0 DEF TypeOK
    <3> QED
      BY <1>7, <2>1, <3>1 DEF Older
  <2>2. CASE token'[k] = token[k]
    BY <1>0, <2>1, <2>2 DEF ReplacementIsOnItsWay
  <2>3. CASE Queued(token[l]) /\ Older(k, l) /\ Replaced(k)
    BY <1>3, <2>1, <2>3 DEF Replaced
  <2>4. CASE k = l /\ Outranked(l) /\ Replaced(l)
    <3>1. PICK j \in Links \ {l} : Active(grant[j]) /\ Older(l, j)
      BY <2>4 DEF Outranked
    <3>2. j \in queue /\ token[j] # NoToken
      BY <1>0, <3>1 DEF Active, Taken, Grants
    <3> QED
      BY <2>1, <2>4, <3>1, <3>2 DEF Replaced
  <2> QED
    BY <1>1, <2>2, <2>3, <2>4
<1>9. Grants'
  <2>1. ~Portal => \A k \in Links : grant'[k] = NoGrant
    <3> SUFFICES ASSUME ~Portal, NEW k \in Links PROVE grant'[k] = NoGrant
      OBVIOUS
    <3>1. grant[k] = NoGrant
      BY <1>0 DEF Grants
    <3> QED
      BY <1>2, <3>1 DEF Active
  <2>2. \A j, k \in Links : Active(grant'[j]) /\ Active(grant'[k]) => j = k
    <3>1. ASSUME NEW k \in Links, k # l, Active(grant'[k]) PROVE Active(grant[k])
      BY <1>2, <3>1 DEF Active
    <3>2. ASSUME NEW k \in Links, k # l, Active(grant'[k]), Active(grant'[l]) PROVE FALSE
      <4>1. Active(grant[k])
        BY <3>1, <3>2
      <4>2. ~Active(grant[l])
        BY <1>0, <3>2, <4>1 DEF Grants
      <4>3. Portal /\ Queued(token[l]) /\ ~Outranked(l)
        BY <1>2, <3>2, <4>2
      <4>4. ~Older(k, l)
        <5>1. ~grant'[k].revoked
          BY <3>2 DEF Active
        <5> QED
          BY <1>2, <3>2, <4>1, <4>3, <5>1
      <4>5. token[k] # NoToken
        BY <1>0, <4>1 DEF Grants, Active
      <4>6. Older(l, k)
        BY <1>0, <1>3, <3>2, <4>3, <4>4, <4>5, Ages
      <4> QED
        BY <3>2, <4>1, <4>3, <4>6 DEF Outranked
    <3> QED
      BY <1>0, <3>1, <3>2 DEF Grants
  <2>3. ASSUME NEW k \in Links, grant'[k] # NoGrant, ~grant'[k].revoked
        PROVE  /\ token'[k] # NoToken /\ token'[k].revoked \in {"none", "failed"}
               /\ grant'[k].consumed # Nobody => ~Open(token'[k])
    <3>1. CASE k = l /\ grant[l] = NoGrant
      <4>1. Queued(token[l]) /\ ~Outranked(l) /\ grant'[l].consumed = Nobody
        BY <1>2, <2>3, <3>1
      <4>2. token'[l] = token[l]
        BY <1>1, <4>1
      <4> QED
        BY <3>1, <4>1, <4>2 DEF Queued, Open
    <3>2. CASE ~(k = l /\ grant[l] = NoGrant)
      <4>1. /\ grant'[k] = grant[k]
            /\ ~(k # l /\ Portal /\ Queued(token[l]) /\ Active(grant[k]) /\ Older(k, l))
        BY <1>2, <2>3, <3>2
      <4>2. /\ token[k] # NoToken /\ token[k].revoked \in {"none", "failed"} /\ Portal
            /\ grant[k].consumed # Nobody => ~Open(token[k])
        BY <1>0, <2>3, <4>1 DEF Grants
      <4>3. token'[k] = token[k]
        <5>1. CASE k # l /\ Queued(token[l]) /\ Older(k, l) /\ Presentable(token[k])
          <6>1. Active(grant[k])
            BY <2>3, <4>1, <4>2, <5>1 DEF Presentable, Active
          <6> QED
            BY <4>1, <4>2, <5>1, <6>1
        <5>2. CASE ~(k # l /\ Queued(token[l]) /\ Older(k, l) /\ Presentable(token[k]))
          BY <1>1, <3>2, <5>2
        <5> QED
          BY <5>1, <5>2
      <4> QED
        BY <4>1, <4>2, <4>3
    <3> QED
      BY <3>1, <3>2
  <2>4. ASSUME NEW k \in Links, token'[k] # NoToken
        PROVE  /\ token'[k].state = "failed" => token'[k].revoked # "none"
               /\ Portal /\ token'[k].consumed # Nobody /\ token'[k].revoked = "none" =>
                     grant'[k] # NoGrant /\ grant'[k].consumed = token'[k].consumed
    <3>1. CASE token'[k] = token[k]
      <4>1. token[k].state = "failed" => token[k].revoked # "none"
        BY <1>0, <2>4, <3>1 DEF Grants
      <4>2. ASSUME Portal, token[k].consumed # Nobody, token[k].revoked = "none"
            PROVE  grant'[k] # NoGrant /\ grant'[k].consumed = token[k].consumed
        <5>1. grant[k] # NoGrant /\ grant[k].consumed = token[k].consumed
          BY <1>0, <2>4, <3>1, <4>2 DEF Grants
        <5>2. ~Active(grant[k])
          BY <4>2, <5>1 DEF Active
        <5>3. grant'[k] = grant[k]
          BY <1>2, <5>1, <5>2
        <5> QED
          BY <5>1, <5>3
      <4> QED
        BY <3>1, <4>1, <4>2
    <3>2. CASE Replaced(k)
      BY <3>2 DEF Replaced
    <3> QED
      BY <1>1, <3>1, <3>2
  <2> QED
    BY <2>1, <2>2, <2>3, <2>4 DEF Grants, Portal
<1> QED
  BY <1>4, <1>5, <1>6, <1>8, <1>9

\* An exchange that leaves the rows alone, or finalizes a link first.
LEMMA QuietSettles ==
    ASSUME JInv, NEW e \in Exchanges, ~Withdraw(e), ~Consume(e), ~Rollback(e), Exchange(e)
    PROVE  Taken' /\ ReplacementIsOnItsWay' /\ Grants' /\ Used'
<1>0. TypeOK /\ Inserted /\ Taken /\ Used
  BY DEF JInv, IInv
<1>1. UNCHANGED <<purpose, call, queue, worker, mailed>>
  BY DEF Exchange, Present, RepairFinalization, ReadCandidate, Vet, CreateSession, CreateFails,
     Breaks
<1>2. /\ \A f \in Exchanges \ {e} : exch'[f] = exch[f]
      /\ exch'[e].phase \in ExchangePhases => exch'[e].link \in queue
      /\ \A l \in Links : Uses(e, l) => Uses(e, l)' /\ Accounted(e)'
      /\ Alone(e)'
  <2> USE DEF ExchangePhases
  <2>1. ASSUME NEW l \in Links, Present(e, l)
        PROVE  /\ \A f \in Exchanges \ {e} : exch'[f] = exch[f]
               /\ exch'[e].link \in queue /\ exch[e] = IdleExchange /\ Alone(e)'
    BY <1>0, <2>1 DEF Present, TypeOK, Taken, Alone
  <2>2. ASSUME exch[e].phase \in ExchangePhases,
               \/ Refuses(e) /\ exch[e].phase = "read"
               \/ exch' = [exch EXCEPT ![e] = Broken]
               \/ \E phase \in ExchangePhases :
                     /\ ExchangeGoes(e, phase)
                     /\ exch[e].phase \in {"repair", "read", "vet"}
                        \/ phase \in {"revet", "session", "rollback", "withdraw", "granted"}
               \/ /\ exch[e].phase = "read"
                  /\ exch' = [exch EXCEPT ![e].phase = IF Portal THEN "vet" ELSE "consume",
                                          ![e].before = token[exch[e].link].state]
        PROVE  /\ \A f \in Exchanges \ {e} : exch'[f] = exch[f]
               /\ exch'[e].phase \in ExchangePhases => exch'[e].link \in queue
               /\ \A l \in Links : Uses(e, l) => Uses(e, l)' /\ Accounted(e)'
               /\ Alone(e)'
    <3>1. exch[e] \in Running /\ exch[e].rivals = {}
      BY <1>0, <2>2, AttemptOf DEF Used, Alone
    <3>2. exch[e].link \in queue
      BY <1>0, <2>2 DEF Taken
    <3>3. CASE Refuses(e) /\ exch[e].phase = "read"
      <4>1. exch'[e] = Refused /\ \A f \in Exchanges \ {e} : exch'[f] = exch[f]
        BY <1>0, <3>3 DEF Refuses, TypeOK
      <4>2. \A l \in Links : ~Uses(e, l)
        BY <3>3 DEF Uses
      <4> QED
        BY <4>1, <4>2 DEF Refused, Alone
    <3>4. ASSUME NEW phase \in ExchangePhases, ExchangeGoes(e, phase),
                 exch[e].phase \in {"repair", "read", "vet"}
                 \/ phase \in {"revet", "session", "rollback", "withdraw", "granted"}
          PROVE  /\ \A f \in Exchanges \ {e} : exch'[f] = exch[f]
                 /\ exch'[e].phase \in ExchangePhases => exch'[e].link \in queue
                 /\ \A l \in Links : Uses(e, l) => Uses(e, l)' /\ Accounted(e)'
                 /\ Alone(e)'
      <4>1. /\ exch'[e].phase = phase /\ exch'[e].link = exch[e].link
            /\ exch'[e].rivals = exch[e].rivals
            /\ \A f \in Exchanges \ {e} : exch'[f] = exch[f]
        BY <1>0, <3>1, <3>4 DEF ExchangeGoes, TypeOK, Running
      <4>2. \A l \in Links : Uses(e, l) => Uses(e, l)' /\ Accounted(e)'
        BY <2>2, <3>4, <4>1 DEF Uses, Accounted
      <4> QED
        BY <3>1, <3>2, <4>1, <4>2 DEF Alone
    <3>5. CASE /\ exch[e].phase = "read"
               /\ exch' = [exch EXCEPT ![e].phase = IF Portal THEN "vet" ELSE "consume",
                                       ![e].before = token[exch[e].link].state]
      <4>1. /\ exch'[e].link = exch[e].link /\ exch'[e].rivals = exch[e].rivals
            /\ \A f \in Exchanges \ {e} : exch'[f] = exch[f]
        BY <1>0, <3>1, <3>5 DEF TypeOK, Running
      <4>2. \A l \in Links : ~Uses(e, l)
        BY <3>5 DEF Uses
      <4> QED
        BY <3>1, <3>2, <4>1, <4>2 DEF Alone
    <3>6. CASE exch' = [exch EXCEPT ![e] = Broken]
      <4>1. exch'[e] = Broken /\ \A f \in Exchanges \ {e} : exch'[f] = exch[f]
        BY <1>0, <3>6 DEF TypeOK
      <4>2. Broken.phase \notin ExchangePhases \cup {"idle"}
        BY DEF Broken
      <4> QED
        BY <4>1, <4>2 DEF Uses, Accounted, Alone
    <3> QED
      BY <2>2, <3>3, <3>4, <3>5, <3>6
  <2>3. CASE RepairFinalization(e)
    BY <2>2, <2>3 DEF RepairFinalization
  <2>4. CASE ReadCandidate(e)
    <3>1. CASE Refuses(e)
      BY <2>2, <2>4, <3>1 DEF ReadCandidate
    <3>2. CASE ~Refuses(e)
      BY <2>2, <2>4, <3>2 DEF ReadCandidate
    <3> QED
      BY <3>1, <3>2
  <2>5. CASE Vet(e)
    <3>1. CASE exch[e].phase = "vet"
      BY <2>2, <2>5, <3>1 DEF Vet
    <3>2. CASE exch[e].phase = "revet"
      BY <2>2, <2>5, <3>2 DEF Vet
    <3> QED
      BY <2>5, <3>1, <3>2 DEF Vet
  <2>6. CASE CreateSession(e)
    BY <2>2, <2>6 DEF CreateSession
  <2>7. CASE CreateFails(e)
    BY <2>2, <2>7 DEF CreateFails
  <2>8. CASE Breaks(e)
    BY <2>2, <2>8 DEF Breaks
  <2>9. \A l \in Links : exch[e] = IdleExchange => ~Uses(e, l)
    BY DEF Uses, IdleExchange
  <2> QED
    BY <2>1, <2>3, <2>4, <2>5, <2>6, <2>7, <2>8, <2>9 DEF Exchange
<1>3. \/ UNCHANGED rows
      \/ exch[e].phase = "repair" /\ Finalized(exch[e].link)
  BY DEF Exchange, Present, RepairFinalization, ReadCandidate, Vet, CreateSession, CreateFails,
     Breaks
<1>4. /\ ReplacementIsOnItsWay' /\ Grants'
      /\ \A k \in Links : grant[k] # NoGrant => grant'[k] # NoGrant
      /\ \A k \in Links : grant'[k] # NoGrant => k \in queue
      /\ \A k \in Links : token'[k] # NoToken /\ token'[k].state = "queued" => k \in queue
      /\ \A k \in Links : token'[k] # NoToken /\ token'[k].consumed # Nobody =>
            /\ token[k] # NoToken /\ token'[k].consumed = token[k].consumed
            /\ token[k].revoked # "none" => token'[k].revoked # "none"
      /\ token' \in [Links -> Token \cup {NoToken}]
  <2>1. CASE UNCHANGED rows
    <3>1. ReplacementIsOnItsWay' /\ Grants'
      BY <1>1, <2>1, UnchangedMinor, MinorSteps DEF rows
    <3> QED
      BY <1>0, <2>1, <3>1 DEF rows, Taken, TypeOK
  <2>2. CASE exch[e].phase = "repair" /\ Finalized(exch[e].link)
    <3>1. exch[e].link \in Links
      BY <1>0, <2>2, AttemptOf DEF ExchangePhases
    <3>2. token' \in [Links -> Token \cup {NoToken}]
      BY <1>0, <2>2, <3>1, FinalizedKeeps DEF TypeOK, KeepsAll
    <3> QED
      BY <1>1, <2>2, <3>1, <3>2, FinalizedSettles
  <2> QED
    BY <1>3, <2>1, <2>2
<1>5. Taken'
  <2>1. \A f \in Exchanges : exch'[f].phase \in ExchangePhases => exch'[f].link \in queue
    BY <1>0, <1>2 DEF Taken
  <2> QED
    BY <1>0, <1>1, <1>4, <2>1 DEF Taken
<1>6. Used'
  <2>1. ASSUME NEW l \in Links, token'[l] # NoToken, token'[l].consumed = e
        PROVE  Uses(e, l)' /\ Accounted(e)'
    <3>1. token[l] # NoToken /\ token[l].consumed = e
      BY <1>4, <2>1, NobodyAssumption
    <3>2. Uses(e, l)
      BY <3>1, <1>0, NobodyAssumption DEF Used
    <3> QED
      BY <1>2, <3>2
  <2>2. \A l \in Links : token'[l] # NoToken /\ token'[l].consumed \notin {Nobody, e} =>
          /\ token[l] # NoToken /\ token'[l].consumed = token[l].consumed
          /\ token[l].revoked # "none" => token'[l].revoked # "none"
    BY <1>4
  <2> QED
    BY <1>0, <1>2, <1>4, <2>1, <2>2, UsesMove
<1> QED
  BY <1>4, <1>5, <1>6

LEMMA WithdrawSettles ==
    ASSUME JInv, NEW e \in Exchanges, Withdraw(e)
    PROVE  Taken' /\ ReplacementIsOnItsWay' /\ Grants' /\ Used'
<1> DEFINE l == exch[e].link
<1>0. TypeOK /\ Inserted /\ Taken /\ Used /\ Grants
  BY DEF JInv, IInv
<1>1. /\ exch[e].phase \in ExchangePhases /\ exch[e].phase = "withdraw"
      /\ UNCHANGED <<purpose, call, queue, worker, mailed>>
  BY DEF Withdraw, ExchangePhases
<1>2. /\ l \in Links /\ token[l] \in Token /\ token[l] # NoToken
  BY <1>0, <1>1, AttemptOf DEF Running
<1>3. /\ \A k \in Links : k # l => token'[k] = token[k]
      /\ token'[l] # NoToken /\ token'[l] \in Token
      /\ token'[l].state = token[l].state /\ token'[l].created = token[l].created
      /\ token'[l].consumed = token[l].consumed
      /\ \/ token[l].revoked = "none" /\ token'[l].revoked = "withdrawn"
         \/ token[l].revoked # "none" /\ token'[l].revoked = token[l].revoked
  <2>1. CASE token[l].revoked = "none"
    <3>1. token' = [token EXCEPT ![l] = [token[l] EXCEPT !.revoked = "withdrawn"]]
      BY <2>1 DEF Withdraw
    <3> QED
      BY <1>0, <1>2, <2>1, <3>1, RowReplaced DEF TypeOK, Causes
  <2>2. CASE token[l].revoked # "none"
    BY <1>2, <2>2 DEF Withdraw
  <2> QED
    BY <2>1, <2>2
<1>4. /\ \A k \in Links : k # l => grant'[k] = grant[k]
      /\ grant[l] = NoGrant => grant'[l] = NoGrant
      /\ grant[l] # NoGrant => grant'[l] # NoGrant /\ grant'[l].revoked
  <2>1. grant' = [grant EXCEPT ![l] = [grant[l] EXCEPT !.revoked = TRUE]]
    BY DEF Withdraw
  <2>2. CASE grant[l] = NoGrant
    BY <1>0, <1>2, <2>1, <2>2, ExceptNoGrant DEF TypeOK
  <2>3. CASE grant[l] # NoGrant
    <3>1. grant[l] \in Grant
      BY <1>0, <1>2, <2>3 DEF TypeOK
    <3>2. [grant[l] EXCEPT !.revoked = TRUE] # NoGrant /\ [grant[l] EXCEPT !.revoked = TRUE].revoked
      BY <3>1 DEF Grant, NoGrant
    <3> QED
      BY <1>0, <1>2, <2>1, <2>3, <3>2 DEF TypeOK
  <2> QED
    BY <2>2, <2>3
<1>5. exch'[e] = Refused /\ \A f \in Exchanges \ {e} : exch'[f] = exch[f]
  BY <1>0 DEF Withdraw, Refuses, TypeOK
<1>6. Taken'
  <2>1. Refused.phase \notin ExchangePhases
    BY DEF Refused, ExchangePhases
  <2>2. \A f \in Exchanges : exch'[f].phase \in ExchangePhases => exch'[f].link \in queue
    BY <1>0, <1>5, <2>1 DEF Taken
  <2>3. \A k \in Links : token'[k] # NoToken /\ token'[k].state = "queued" => k \in queue
    BY <1>0, <1>2, <1>3 DEF Taken
  <2>4. \A k \in Links : grant'[k] # NoGrant => k \in queue
    BY <1>0, <1>2, <1>4 DEF Taken
  <2> QED
    BY <1>0, <1>1, <2>2, <2>3, <2>4 DEF Taken
<1>7. ReplacementIsOnItsWay'
  BY <1>0, <1>1, <1>2, <1>3, ReplacementStays DEF JInv, TypeOK
<1>8. Grants'
  <2>1. \A k \in Links : grant'[k] # NoGrant /\ ~grant'[k].revoked => k # l
    BY <1>4
  <2>2. ~Portal => \A k \in Links : grant'[k] = NoGrant
    BY <1>0, <1>4 DEF Grants
  <2>3. \A j, k \in Links : Active(grant'[j]) /\ Active(grant'[k]) => j = k
    BY <1>0, <1>4, <2>1 DEF Grants, Active
  <2>4. \A k \in Links : grant'[k] # NoGrant /\ ~grant'[k].revoked =>
          /\ token'[k] # NoToken /\ token'[k].revoked \in {"none", "failed"}
          /\ grant'[k].consumed # Nobody => ~Open(token'[k])
    BY <1>0, <1>3, <1>4, <2>1 DEF Grants
  <2>5. \A k \in Links : token'[k] # NoToken =>
          /\ token'[k].state = "failed" => token'[k].revoked # "none"
          /\ Portal /\ token'[k].consumed # Nobody /\ token'[k].revoked = "none" =>
                grant'[k] # NoGrant /\ grant'[k].consumed = token'[k].consumed
    BY <1>0, <1>2, <1>3, <1>4 DEF Grants
  <2> QED
    BY <1>1, <2>2, <2>3, <2>4, <2>5 DEF Grants, Portal
<1>9. Used'
  <2>1. ASSUME NEW k \in Links, token'[k] # NoToken, token'[k].consumed = e
        PROVE  /\ Uses(e, k)'
               /\ token'[k].revoked # "none"
    <3>1. token[k] # NoToken /\ token[k].consumed = e
      BY <1>2, <1>3, <2>1
    <3>2. k = l
      BY <1>0, <1>1, <1>2, <3>1, NobodyAssumption DEF Used, Uses
    <3> QED
      BY <1>3, <1>5, <2>1, <3>1, <3>2, NobodyAssumption DEF Uses, Refused, ExchangePhases
  <2>2. \A k \in Links : token'[k] # NoToken /\ token'[k].consumed \notin {Nobody, e} =>
          /\ token[k] # NoToken /\ token'[k].consumed = token[k].consumed
          /\ token[k].revoked # "none" => token'[k].revoked # "none"
    BY <1>2, <1>3
  <2>3. token' \in [Links -> Token \cup {NoToken}]
    BY WithdrawSteps DEF JInv, IInv, TypeOK
  <2>4. Alone(e)'
    BY <1>5 DEF Alone, Refused, ExchangePhases
  <2> QED
    BY <1>0, <1>5, <2>1, <2>2, <2>3, <2>4, UsesMove
<1> QED
  BY <1>6, <1>7, <1>8, <1>9

\* The link is consumed with its grant, which was the active one.
LEMMA ConsumeSettles ==
    ASSUME JInv, NEW e \in Exchanges, Consume(e)
    PROVE  Taken' /\ ReplacementIsOnItsWay' /\ Grants' /\ Used'
<1> DEFINE l == exch[e].link
           own == [token EXCEPT ![l].consumed = e, ![l].state = "queued"]
           ousted == {k \in Links \ {l} : Presentable(token[k])}
<1>0. TypeOK /\ Inserted /\ Taken /\ Used /\ Grants
  BY DEF JInv, IInv
<1>1. /\ exch[e].phase \in ExchangePhases /\ exch[e].phase = "consume"
      /\ UNCHANGED <<purpose, call, queue, worker, mailed>>
  BY DEF Consume, ExchangePhases
<1>2. /\ exch[e] \in Running /\ l \in Links
      /\ token[l] \in Token /\ token[l] # NoToken /\ l \in queue
  BY <1>0, <1>1, AttemptOf DEF Taken
<1>3. /\ \A k \in Links : k # l => grant'[k] = grant[k]
      /\ ~(Portal /\ Active(grant[l])) => grant'[l] = grant[l]
      /\ Portal /\ Active(grant[l]) =>
            /\ grant'[l] # NoGrant /\ grant'[l].consumed = e
            /\ grant'[l].revoked = grant[l].revoked
  <2>1. CASE Portal /\ Active(grant[l])
    <3>1. grant[l] \in Grant /\ grant' = [grant EXCEPT ![l] = [grant[l] EXCEPT !.consumed = e]]
      BY <1>0, <1>2, <2>1 DEF Consume, Active, TypeOK
    <3>2. LET new == [grant[l] EXCEPT !.consumed = e]
          IN  new # NoGrant /\ new.consumed = e /\ new.revoked = grant[l].revoked
      BY <3>1 DEF Grant, NoGrant
    <3> QED
      BY <1>0, <1>2, <2>1, <3>1, <3>2 DEF TypeOK
  <2>2. CASE ~(Portal /\ Active(grant[l]))
    BY <2>2 DEF Consume
  <2> QED
    BY <2>1, <2>2
<1>4. \A f \in Exchanges \ {e} : exch'[f] = exch[f]
  BY <1>0 DEF Consume, Refuses, TypeOK
<1>5. \A k \in Links : token[k] # NoToken => token[k].consumed # e
  BY <1>0, <1>1, <1>2, NobodyAssumption DEF Used, Uses
<1>6. /\ ~Portal => \A k \in Links : grant'[k] = NoGrant
      /\ \A k \in Links : grant[k] # NoGrant <=> grant'[k] # NoGrant
      /\ \A j, k \in Links : Active(grant'[j]) /\ Active(grant'[k]) => j = k
  BY <1>0, <1>3 DEF Grants, Active
<1>7. TypeOK'
  BY ConsumeSteps DEF JInv, IInv
<1>8. CASE ~Consumable(e)
  <2>1. token' = token /\ exch'[e] = Refused
    BY <1>0, <1>8 DEF Consume, Refuses, TypeOK
  <2>2. Refused.phase \notin ExchangePhases
    BY DEF Refused, ExchangePhases
  <2>3. Taken'
    <3>1. \A f \in Exchanges : exch'[f].phase \in ExchangePhases => exch'[f].link \in queue
      BY <1>0, <1>4, <2>1, <2>2 DEF Taken
    <3> QED
      BY <1>0, <1>1, <1>6, <2>1, <3>1 DEF Taken
  <2>4. ReplacementIsOnItsWay'
    BY <1>1, <2>1 DEF JInv, ReplacementIsOnItsWay, Older
  <2>5. Portal /\ Active(grant[l]) => ~Open(token[l])
    <3> SUFFICES ASSUME Portal, Active(grant[l]), Open(token[l]) PROVE FALSE
      OBVIOUS
    <3>1. ~Presentable(token[l])
      BY <1>8 DEF Consumable
    <3>2. token[l].state = "failed"
      BY <1>2, <3>1 DEF Presentable, Token
    <3> QED
      BY <1>0, <1>2, <3>2 DEF Grants, Open
  <2>6. \A k \in Links : grant'[k] # NoGrant /\ ~grant'[k].revoked =>
          /\ token'[k] # NoToken /\ token'[k].revoked \in {"none", "failed"}
          /\ grant'[k].consumed # Nobody => ~Open(token'[k])
    BY <1>0, <1>3, <2>1, <2>5 DEF Grants, Active
  <2>7. \A k \in Links : token'[k] # NoToken =>
          /\ token'[k].state = "failed" => token'[k].revoked # "none"
          /\ Portal /\ token'[k].consumed # Nobody /\ token'[k].revoked = "none" =>
                grant'[k] # NoGrant /\ grant'[k].consumed = token'[k].consumed
    BY <1>0, <1>3, <2>1 DEF Grants, Active
  <2>8. Grants'
    BY <1>1, <1>6, <2>6, <2>7 DEF Grants, Portal
  <2>9. Used'
    <3>1. Alone(e)'
      BY <2>1, <2>2 DEF Alone
    <3> QED
      BY <1>0, <1>4, <1>5, <1>7, <2>1, <3>1, UsesMove DEF TypeOK
  <2> QED
    BY <2>3, <2>4, <2>8, <2>9
<1>9. CASE Consumable(e)
  <2>1. token' = Superseded(own, l, "presented", ousted)
    BY <1>9 DEF Consume, Ousted
  <2>2. /\ own[l] \in Token /\ own[l] # NoToken /\ own[l].consumed = e /\ own[l].state = "queued"
        /\ own[l].revoked = "none" /\ own[l].created = token[l].created
        /\ \A k \in Links : k # l => own[k] = token[k]
    <3> DEFINE new == [token[l] EXCEPT !.consumed = e, !.state = "queued"]
    <3>1. own = [token EXCEPT ![l] = new]
      BY <1>0, <1>2 DEF TypeOK
    <3>2. token[l].revoked = "none"
      BY <1>9 DEF Consumable, Presentable, Open
    <3>3. /\ new \in Token /\ new # NoToken /\ new.consumed = e /\ new.state = "queued"
          /\ new.revoked = token[l].revoked /\ new.created = token[l].created
      BY <1>2 DEF Token, NoToken
    <3> QED
      BY <1>0, <1>2, <3>1, <3>2, <3>3 DEF TypeOK
  <2>3. /\ token'[l] = own[l]
        /\ \A k \in Links : k # l =>
              \/ token'[k] = token[k] /\ ~Presentable(token[k])
              \/ /\ Presentable(token[k]) /\ token'[k] # NoToken
                 /\ token'[k].state = token[k].state /\ token'[k].created = token[k].created
                 /\ token'[k].consumed = token[k].consumed /\ token'[k].revoked = "presented"
    <3>1. \A k \in Links :
            token'[k] = IF k # l /\ Presentable(own[k]) /\ own[l].state = "queued" /\ k \in ousted
                        THEN [own[k] EXCEPT !.revoked = "presented"] ELSE own[k]
      <4> HIDE DEF own, ousted
      <4> QED
        BY <2>1 DEF Superseded
    <3>2. token'[l] = own[l]
      BY <1>2, <3>1
    <3>3. ASSUME NEW k \in Links, k # l, Presentable(token[k])
          PROVE  /\ token'[k] # NoToken
                 /\ token'[k].state = token[k].state /\ token'[k].created = token[k].created
                 /\ token'[k].consumed = token[k].consumed /\ token'[k].revoked = "presented"
      <4>1. own[k] = token[k] /\ own[l].state = "queued"
        BY <2>2, <3>3
      <4>2. token'[k] = [token[k] EXCEPT !.revoked = "presented"]
        <5>1. k \in ousted
          BY <3>3
        <5> HIDE DEF own, ousted
        <5> QED
          BY <3>1, <3>3, <4>1, <5>1
      <4>3. token[k] \in Token /\ "presented" \in Causes
        BY <1>0, <3>3 DEF Presentable, Open, TypeOK, Causes
      <4>4. LET new == [token[k] EXCEPT !.revoked = "presented"]
            IN  /\ new # NoToken /\ new.state = token[k].state /\ new.created = token[k].created
                /\ new.consumed = token[k].consumed /\ new.revoked = "presented"
        BY <4>3, RowReplaced
      <4> QED
        BY <4>2, <4>4
    <3>4. ASSUME NEW k \in Links, k # l, ~Presentable(token[k])
          PROVE  token'[k] = token[k]
      <4>1. k \notin ousted /\ own[k] = token[k]
        BY <2>2, <3>4
      <4> HIDE DEF own, ousted
      <4> QED
        BY <3>1, <4>1
    <3> QED
      BY <3>2, <3>3, <3>4
  <2> HIDE DEF own, ousted
  <2>4. /\ exch'[e].link = l /\ exch'[e].phase \in {"revet", "session"}
        /\ exch'[e].rivals = {}
    <3>1. exch' = [exch EXCEPT ![e].phase = IF Portal THEN "revet" ELSE "session",
                               ![e].ousted = {k \in Links \ {l} : Presentable(token[k])},
                               ![e].rivals = {k \in Links \ {l} : Active(grant[k])}]
      BY <1>9 DEF Consume
    <3>2. {k \in Links \ {l} : Active(grant[k])} = {}
      BY <1>0, <1>2, <1>9 DEF Consumable, Grants, Active, Running
    <3> QED
      BY <1>0, <1>2, <3>1, <3>2 DEF TypeOK, Running
  <2>5. Taken'
    <3>1. \A f \in Exchanges : exch'[f].phase \in ExchangePhases => exch'[f].link \in queue
      BY <1>0, <1>2, <1>4, <2>4 DEF Taken
    <3>2. \A k \in Links : token'[k] # NoToken /\ token'[k].state = "queued" => k \in queue
      BY <1>0, <1>2, <2>3 DEF Taken, Presentable, Open
    <3> QED
      BY <1>0, <1>1, <1>6, <3>1, <3>2 DEF Taken
  <2>6. ReplacementIsOnItsWay'
    <3>1. \A k \in Links : token[k] # NoToken =>
            token'[k] # NoToken /\ token'[k].created = token[k].created
      BY <1>2, <2>2, <2>3
    <3>2. \A k \in Links : token'[k] # NoToken /\ token'[k].revoked = "replaced" =>
            token[k] # NoToken /\ token[k].revoked = "replaced"
      BY <2>2, <2>3
    <3>3. queue \subseteq Links /\ queue \subseteq queue'
      BY <1>0, <1>1 DEF TypeOK
    <3> QED
      BY <3>1, <3>2, <3>3, ReplacementStays DEF JInv
  <2>7. Portal => Active(grant[l])
    BY <1>9 DEF Consumable
  <2>8. \A k \in Links : grant'[k] # NoGrant /\ ~grant'[k].revoked =>
          /\ token'[k] # NoToken /\ token'[k].revoked \in {"none", "failed"}
          /\ grant'[k].consumed # Nobody => ~Open(token'[k])
    <3> SUFFICES ASSUME NEW k \in Links, grant'[k] # NoGrant, ~grant'[k].revoked
                 PROVE  /\ token'[k] # NoToken /\ token'[k].revoked \in {"none", "failed"}
                        /\ grant'[k].consumed # Nobody => ~Open(token'[k])
      OBVIOUS
    <3>1. CASE k = l
      <4>1. token'[l] # NoToken /\ token'[l].revoked = "none" /\ token'[l].consumed = e
        BY <2>2, <2>3
      <4> QED
        BY <3>1, <4>1, NobodyAssumption DEF Open
    <3>2. CASE k # l
      <4>1. /\ grant'[k] = grant[k] /\ Portal /\ token[k] # NoToken
            /\ token[k].revoked \in {"none", "failed"}
            /\ grant[k].consumed # Nobody => ~Open(token[k])
        BY <1>0, <1>3, <1>6, <3>2 DEF Grants
      <4>2. ~Presentable(token[k])
        <5> SUFFICES ASSUME Presentable(token[k]) PROVE FALSE
          OBVIOUS
        <5>1. Active(grant[k])
          BY <1>6, <3>2, <4>1 DEF Presentable, Open, Active
        <5>2. Active(grant[l])
          BY <2>7, <4>1
        <5> QED
          BY <1>0, <1>2, <3>2, <5>1, <5>2 DEF Grants
      <4>3. token'[k] = token[k]
        BY <2>3, <3>2, <4>2
      <4> QED
        BY <4>1, <4>3
    <3> QED
      BY <3>1, <3>2
  <2>9. \A k \in Links : token'[k] # NoToken =>
          /\ token'[k].state = "failed" => token'[k].revoked # "none"
          /\ Portal /\ token'[k].consumed # Nobody /\ token'[k].revoked = "none" =>
                grant'[k] # NoGrant /\ grant'[k].consumed = token'[k].consumed
    <3> SUFFICES ASSUME NEW k \in Links, token'[k] # NoToken
                 PROVE  /\ token'[k].state = "failed" => token'[k].revoked # "none"
                        /\ Portal /\ token'[k].consumed # Nobody /\ token'[k].revoked = "none" =>
                              grant'[k] # NoGrant /\ grant'[k].consumed = token'[k].consumed
      OBVIOUS
    <3>1. CASE k = l
      BY <1>3, <2>2, <2>3, <2>7, <3>1
    <3>2. CASE k # l
      BY <1>0, <1>3, <2>3, <3>2 DEF Grants
    <3> QED
      BY <3>1, <3>2
  <2>10. Grants'
    BY <1>1, <1>6, <2>8, <2>9 DEF Grants, Portal
  <2>11. Used'
    <3>1. ASSUME NEW k \in Links, token'[k] # NoToken, token'[k].consumed = e
          PROVE  Uses(e, k)' /\ Accounted(e)'
      <4>1. k = l
        BY <1>5, <2>3, <3>1 DEF Presentable, Open
      <4> QED
        BY <2>4, <4>1 DEF Uses, Accounted
    <3>2. ASSUME NEW k \in Links, token'[k] # NoToken, token'[k].consumed \notin {Nobody, e}
          PROVE  /\ token[k] # NoToken /\ token'[k].consumed = token[k].consumed
                 /\ token[k].revoked # "none" => token'[k].revoked # "none"
      <4>1. k # l
        BY <2>2, <2>3, <3>2
      <4> QED
        BY <2>3, <3>2, <4>1 DEF Presentable, Open
    <3> QED
      BY <1>0, <1>4, <1>7, <2>4, <3>1, <3>2, UsesMove DEF TypeOK, Alone
  <2> QED
    BY <2>5, <2>6, <2>10, <2>11
<1> QED
  BY <1>8, <1>9

\* The link is released with its grant, or neither is.
LEMMA RollbackSettles ==
    ASSUME JInv, NEW e \in Exchanges, Rollback(e)
    PROVE  Taken' /\ ReplacementIsOnItsWay' /\ Grants' /\ Used'
<1> DEFINE l == exch[e].link
           taken == Portal /\ grant[l].consumed = e /\ ~grant[l].revoked
                           /\ \E k \in Links : Active(grant[k])
           released == [token[l] EXCEPT !.consumed = Nobody, !.state = exch[e].before]
<1>0. TypeOK /\ Inserted /\ Taken /\ Used /\ Grants
  BY DEF JInv, IInv
<1>1. /\ exch[e].phase \in ExchangePhases /\ exch[e].phase = "rollback"
      /\ UNCHANGED <<purpose, call, queue, worker, mailed>>
  BY DEF Rollback, ExchangePhases
<1>2. /\ exch[e] \in Running /\ l \in Links
      /\ token[l] \in Token /\ token[l] # NoToken /\ l \in queue
      /\ exch[e].before # "none" /\ exch[e].rivals = {}
  BY <1>0, <1>1, AttemptOf DEF Taken, JInv, IInv, Remembers, Used, Alone
<1>3. /\ exch'[e] = IF taken THEN Barred({k \in Links : Active(grant[k])}) ELSE Refused
      /\ \A f \in Exchanges \ {e} : exch'[f] = exch[f]
  <2>1. exch' = [exch EXCEPT ![e] =
                   IF taken THEN Barred({k \in Links : Active(grant[k])} \ exch[e].rivals)
                   ELSE Refused]
    BY DEF Rollback
  <2> HIDE DEF taken
  <2> QED
    BY <1>0, <1>2, <2>1 DEF TypeOK
<1>4. TypeOK'
  BY RollbackSteps DEF JInv, IInv
<1>5. /\ \A k \in Links : k # l => token'[k] = token[k]
      /\ token'[l] # NoToken /\ token'[l].created = token[l].created
      /\ token'[l].revoked = token[l].revoked
      /\ \/ /\ ~taken /\ token[l].consumed = e /\ token[l].revoked = "none"
            /\ token'[l].consumed = Nobody /\ token'[l].state # "failed"
         \/ /\ token'[l] = token[l]
            /\ ~(~taken /\ token[l].consumed = e /\ token[l].revoked = "none")
  <2>1. CASE ~taken /\ token[l].consumed = e /\ token[l].revoked = "none"
    <3>1. token' = [token EXCEPT ![l] = released]
      BY <1>2, <2>1 DEF Rollback
    <3>2. /\ released # NoToken /\ released.created = token[l].created
          /\ released.revoked = token[l].revoked
          /\ released.consumed = Nobody /\ released.state # "failed"
      BY <1>2 DEF Token, NoToken, Running
    <3>3. token'[l] = released /\ \A k \in Links : k # l => token'[k] = token[k]
      BY <1>0, <1>2, <3>1 DEF TypeOK
    <3> HIDE DEF released, taken
    <3> QED
      BY <2>1, <3>2, <3>3
  <2>2. CASE ~(~taken /\ token[l].consumed = e /\ token[l].revoked = "none")
    <3>1. token' = token
      BY <2>2 DEF Rollback
    <3> QED
      BY <1>2, <2>2, <3>1
  <2> QED
    BY <2>1, <2>2
<1>6. /\ \A k \in Links : k # l => grant'[k] = grant[k]
      /\ grant[l] = NoGrant => grant'[l] = NoGrant
      /\ grant[l] # NoGrant =>
            \/ /\ Portal /\ ~taken /\ grant[l].consumed = e /\ ~grant[l].revoked
               /\ grant'[l] # NoGrant /\ grant'[l].consumed = Nobody
            \/ /\ ~(Portal /\ ~taken /\ grant[l].consumed = e /\ ~grant[l].revoked)
               /\ grant'[l] = grant[l]
  <2>1. CASE Portal /\ ~taken /\ grant[l].consumed = e /\ ~grant[l].revoked
    <3>1. grant' = [grant EXCEPT ![l] = [grant[l] EXCEPT !.consumed = Nobody]]
      BY <1>0, <1>2, <2>1 DEF Rollback, TypeOK
    <3>2. CASE grant[l] = NoGrant
      <4>1. grant'[l] = NoGrant
        BY <1>0, <1>2, <3>1, <3>2, ExceptNoGrant DEF TypeOK
      <4> QED
        BY <1>0, <3>1, <3>2, <4>1 DEF TypeOK
    <3>3. CASE grant[l] # NoGrant
      <4>1. grant[l] \in Grant
        BY <1>0, <1>2, <3>3 DEF TypeOK
      <4>2. LET new == [grant[l] EXCEPT !.consumed = Nobody]
            IN  new # NoGrant /\ new.consumed = Nobody
        BY <4>1 DEF Grant, NoGrant
      <4>3. /\ grant'[l] = [grant[l] EXCEPT !.consumed = Nobody]
            /\ \A k \in Links : k # l => grant'[k] = grant[k]
        BY <1>0, <1>2, <3>1 DEF TypeOK
      <4> HIDE DEF taken
      <4> QED
        BY <2>1, <3>3, <4>2, <4>3
    <3> QED
      BY <3>2, <3>3
  <2>2. CASE ~(Portal /\ ~taken /\ grant[l].consumed = e /\ ~grant[l].revoked)
    <3>1. grant' = grant
      BY <2>2 DEF Rollback
    <3> HIDE DEF taken
    <3> QED
      BY <2>2, <3>1
  <2> QED
    BY <2>1, <2>2
<1>7. taken => \E k \in Links : Active(grant[k])
  OBVIOUS
<1>8. ~taken => ~(Portal /\ grant[l].consumed = e /\ ~grant[l].revoked)
               \/ \A k \in Links : ~Active(grant[k])
  OBVIOUS
<1> HIDE DEF taken, released
<1>9. Taken'
  <2>1. exch'[e].phase \in {"refused", "barred"} /\ exch'[e].phase \notin ExchangePhases
    BY <1>3 DEF Refused, Barred, ExchangePhases
  <2>2. \A f \in Exchanges : exch'[f].phase \in ExchangePhases => exch'[f].link \in queue
    BY <1>0, <1>3, <2>1 DEF Taken
  <2>3. \A k \in Links : token'[k] # NoToken /\ token'[k].state = "queued" => k \in queue
    BY <1>0, <1>2, <1>5 DEF Taken
  <2>4. \A k \in Links : grant'[k] # NoGrant => k \in queue
    BY <1>0, <1>2, <1>6 DEF Taken
  <2> QED
    BY <1>0, <1>1, <2>2, <2>3, <2>4 DEF Taken
<1>10. ReplacementIsOnItsWay'
  <2>1. \A k \in Links : token[k] # NoToken =>
          token'[k] # NoToken /\ token'[k].created = token[k].created
    BY <1>5
  <2>2. \A k \in Links : token'[k] # NoToken /\ token'[k].revoked = "replaced" =>
          token[k] # NoToken /\ token[k].revoked = "replaced"
    BY <1>2, <1>5
  <2>3. queue \subseteq Links /\ queue \subseteq queue'
    BY <1>0, <1>1 DEF TypeOK
  <2> QED
    BY <2>1, <2>2, <2>3, ReplacementStays DEF JInv
<1>11. Grants'
  <2>1. ~Portal => \A k \in Links : grant'[k] = NoGrant
    BY <1>0, <1>6 DEF Grants
  <2>2. \A j, k \in Links : Active(grant'[j]) /\ Active(grant'[k]) => j = k
    <3>1. ASSUME NEW k \in Links, k # l, Active(grant'[k]), Active(grant'[l]) PROVE FALSE
      <4>1. Active(grant[k])
        BY <1>6, <3>1
      <4>2. ~Active(grant[l])
        BY <1>0, <1>2, <3>1, <4>1 DEF Grants
      <4>3. grant[l] # NoGrant /\ grant'[l] # grant[l]
        BY <1>6, <3>1, <4>2 DEF Active
      <4>4. Portal /\ ~taken /\ grant[l].consumed = e /\ ~grant[l].revoked
        BY <1>6, <4>3
      <4> QED
        BY <1>8, <4>1, <4>4
    <3>2. ASSUME NEW k \in Links, k # l, Active(grant'[k]) PROVE Active(grant[k])
      BY <1>6, <3>2
    <3> QED
      BY <1>0, <3>1, <3>2 DEF Grants
  <2>3. \A k \in Links : grant'[k] # NoGrant /\ ~grant'[k].revoked =>
          /\ token'[k] # NoToken /\ token'[k].revoked \in {"none", "failed"}
          /\ grant'[k].consumed # Nobody => ~Open(token'[k])
    <3> SUFFICES ASSUME NEW k \in Links, grant'[k] # NoGrant, ~grant'[k].revoked
                 PROVE  /\ token'[k] # NoToken /\ token'[k].revoked \in {"none", "failed"}
                        /\ grant'[k].consumed # Nobody => ~Open(token'[k])
      OBVIOUS
    <3>1. CASE k # l
      BY <1>0, <1>5, <1>6, <3>1 DEF Grants
    <3>2. CASE k = l
      <4>1. grant[l] # NoGrant
        BY <1>6, <3>2
      <4>2. CASE Portal /\ ~taken /\ grant[l].consumed = e /\ ~grant[l].revoked
        <5>1. grant'[l].consumed = Nobody
          BY <1>6, <4>1, <4>2
        <5>2. token[l].revoked \in {"none", "failed"}
          BY <1>0, <1>2, <4>1, <4>2 DEF Grants
        <5> QED
          BY <1>5, <3>2, <5>1, <5>2
      <4>3. CASE ~(Portal /\ ~taken /\ grant[l].consumed = e /\ ~grant[l].revoked)
        <5>1. grant'[l] = grant[l] /\ Portal
          BY <1>0, <1>2, <1>6, <4>1, <4>3 DEF Grants
        <5>2. /\ token[l].revoked \in {"none", "failed"}
              /\ grant[l].consumed # Nobody => ~Open(token[l])
          BY <1>0, <1>2, <3>2, <4>1, <5>1 DEF Grants
        <5>3. CASE token'[l] = token[l]
          BY <1>2, <3>2, <5>1, <5>2, <5>3
        <5>4. CASE ~taken /\ token[l].consumed = e /\ token[l].revoked = "none"
          <6>1. grant[l].consumed = e
            BY <1>0, <1>2, <5>1, <5>4, NobodyAssumption DEF Grants
          <6> QED
            BY <3>2, <4>3, <5>1, <5>4, <6>1
        <5> QED
          BY <1>5, <5>3, <5>4
      <4> QED
        BY <4>2, <4>3
    <3> QED
      BY <3>1, <3>2
  <2>4. \A k \in Links : token'[k] # NoToken =>
          /\ token'[k].state = "failed" => token'[k].revoked # "none"
          /\ Portal /\ token'[k].consumed # Nobody /\ token'[k].revoked = "none" =>
                grant'[k] # NoGrant /\ grant'[k].consumed = token'[k].consumed
    <3> SUFFICES ASSUME NEW k \in Links, token'[k] # NoToken
                 PROVE  /\ token'[k].state = "failed" => token'[k].revoked # "none"
                        /\ Portal /\ token'[k].consumed # Nobody /\ token'[k].revoked = "none" =>
                              grant'[k] # NoGrant /\ grant'[k].consumed = token'[k].consumed
      OBVIOUS
    <3>1. CASE k # l
      BY <1>0, <1>5, <1>6, <3>1 DEF Grants
    <3>2. CASE k = l /\ token'[l].consumed = Nobody /\ token'[l].state # "failed"
      BY <3>2
    <3>3. CASE /\ k = l /\ token'[l] = token[l]
               /\ ~(~taken /\ token[l].consumed = e /\ token[l].revoked = "none")
      <4>1. token[l].state = "failed" => token[l].revoked # "none"
        BY <1>0, <1>2, <3>3 DEF Grants
      <4>2. ASSUME Portal, token[l].consumed # Nobody, token[l].revoked = "none"
            PROVE  grant'[l] # NoGrant /\ grant'[l].consumed = token[l].consumed
        <5>1. grant[l] # NoGrant /\ grant[l].consumed = token[l].consumed
          BY <1>0, <1>2, <3>3, <4>2 DEF Grants
        <5>2. ~(Portal /\ ~taken /\ grant[l].consumed = e /\ ~grant[l].revoked)
          BY <3>3, <4>2, <5>1
        <5> QED
          BY <1>6, <5>1, <5>2
      <4> QED
        BY <3>3, <4>1, <4>2
    <3> QED
      BY <1>5, <3>1, <3>2, <3>3
  <2> QED
    BY <1>1, <2>1, <2>2, <2>3, <2>4 DEF Grants, Portal
<1>12. Used'
  <2>1. exch'[e].phase \in {"refused", "barred"}
    BY <1>3 DEF Refused, Barred
  <2>2. ASSUME NEW k \in Links, token'[k] # NoToken, token'[k].consumed = e
        PROVE  Uses(e, k)' /\ (token'[k].revoked # "none" \/ Accounted(e)')
    <3>1. token'[k] = token[k]
      BY <1>5, <2>2, NobodyAssumption
    <3>2. k = l
      BY <1>0, <1>1, <1>2, <2>2, <3>1, NobodyAssumption DEF Used, Uses
    <3>3. Uses(e, k)'
      BY <2>1 DEF Uses, ExchangePhases
    <3>4. CASE taken
      <4>1. exch'[e] = Barred({j \in Links : Active(grant[j])})
        BY <1>3, <3>4
      <4>2. Accounted(e)'
        BY <1>7, <3>4, <4>1 DEF Accounted, Barred
      <4> QED
        BY <3>3, <4>2
    <3>5. CASE ~taken
      BY <1>5, <2>2, <3>1, <3>2, <3>3, <3>5, NobodyAssumption
    <3> QED
      BY <3>4, <3>5
  <2>3. \A k \in Links : token'[k] # NoToken /\ token'[k].consumed \notin {Nobody, e} =>
          /\ token[k] # NoToken /\ token'[k].consumed = token[k].consumed
          /\ token[k].revoked # "none" => token'[k].revoked # "none"
    BY <1>2, <1>5
  <2> QED
    BY <1>0, <1>3, <1>4, <2>1, <2>2, <2>3, UsesMove DEF TypeOK, Alone, ExchangePhases
<1> QED
  BY <1>9, <1>10, <1>11, <1>12

LEMMA FinalizeSettles ==
    ASSUME JInv, NEW l \in Links, Finalize(l)
    PROVE  Taken' /\ ReplacementIsOnItsWay' /\ Grants' /\ Used'
<1>0. TypeOK /\ Taken /\ Used
  BY DEF JInv, IInv
<1>1. /\ Finalized(l) /\ UNCHANGED <<queue, worker, exch, mailed, purpose>>
      /\ \A k \in Links : call'[k] = "mark" => call[k] = "mark"
  BY <1>0 DEF Finalize, Goes, TypeOK
<1>2. /\ ReplacementIsOnItsWay' /\ Grants'
      /\ \A k \in Links : grant[k] # NoGrant => grant'[k] # NoGrant
      /\ \A k \in Links : grant'[k] # NoGrant => k \in queue
      /\ \A k \in Links : token'[k] # NoToken /\ token'[k].state = "queued" => k \in queue
      /\ \A k \in Links : token'[k] # NoToken /\ token'[k].consumed # Nobody =>
            /\ token[k] # NoToken /\ token'[k].consumed = token[k].consumed
            /\ token[k].revoked # "none" => token'[k].revoked # "none"
  BY <1>1, FinalizedSettles
<1>3. Taken'
  BY <1>0, <1>1, <1>2 DEF Taken
<1>4. Used'
  BY <1>0, <1>1, <1>2, UsesStay
<1> QED
  BY <1>2, <1>3, <1>4

-----------------------------------------------------------------------------
LEMMA SettledAtFirst == Init => JInv
<1> SUFFICES ASSUME Init PROVE JInv
  OBVIOUS
<1>1. \A l \in Links : token[l] = NoToken /\ grant[l] = NoGrant /\ call[l] = "idle"
  BY DEF Init
<1>2. Taken
  BY <1>1 DEF Init, Taken, IdleExchange, ExchangePhases
<1>3. ReplacementIsOnItsWay /\ Grants /\ Used
  BY <1>1 DEF Init, ReplacementIsOnItsWay, Grants, Used, Alone, IdleExchange, ExchangePhases,
     ConsumedIsUsedOrReleased, Active
<1> QED
  BY <1>2, <1>3, Initially DEF JInv

LEMMA Settles == JInv /\ [Next]_vars => JInv'
<1> SUFFICES ASSUME JInv, [Next]_vars PROVE JInv'
  OBVIOUS
<1>1. IInv'
  BY Inductive DEF JInv
<1>2. ASSUME NEW l \in Links, Request(l)
      PROVE  Taken' /\ ReplacementIsOnItsWay' /\ Grants' /\ Used'
  <2>1. CASE Insert(l)
    BY <2>1, InsertSettles
  <2>2. CASE Finalize(l)
    BY <2>2, FinalizeSettles
  <2>3. CASE ~Insert(l) /\ ~Finalize(l)
    BY <1>2, <2>3, RequestMinor, MinorSteps
  <2> QED
    BY <2>1, <2>2, <2>3
<1>3. ASSUME NEW w \in Workers, Consumer(w)
      PROVE  Taken' /\ ReplacementIsOnItsWay' /\ Grants' /\ Used'
  <2>1. Minor /\ Taken' /\ UNCHANGED <<queue, exch>>
    BY <1>3, ConsumerMinor
  <2> QED
    BY <2>1, MinorSteps
<1>4. ASSUME NEW e \in Exchanges, Exchange(e)
      PROVE  Taken' /\ ReplacementIsOnItsWay' /\ Grants' /\ Used'
  BY <1>4, WithdrawSettles, ConsumeSettles, RollbackSettles, QuietSettles
<1>5. CASE UNCHANGED vars
  <2>1. Taken'
    BY <1>5 DEF vars, rows, JInv, Taken
  <2>2. Minor /\ queue \subseteq queue' /\ UNCHANGED exch
    BY <1>5, UnchangedMinor DEF vars, rows
  <2> QED
    BY <1>1, <2>1, <2>2, MinorSteps DEF JInv
<1> QED
  BY <1>1, <1>2, <1>3, <1>4, <1>5 DEF JInv, Next

LEMMA Settled == Spec => []JInv
BY SettledAtFirst, Settles, PTL DEF Spec

\* A request gives a link up only once the queue has taken the message of a
\* newer one, whatever order the statements of the requests and exchanges take.
THEOREM RecipientKeepsALink == Spec => []ReplacementIsOnItsWay
BY Settled, PTL DEF JInv

\* portal_grants never holds an active grant of a link that was replaced, given
\* up for another one or withdrawn.
THEOREM GrantsFollowLinks == Spec => []GrantFollowsLink
<1>1. JInv => GrantFollowsLink
  BY DEF JInv, Grants, GrantFollowsLink, Active
<1> QED
  BY <1>1, Settled, PTL

\* A link whose call has ended without a session is open again, or void, unless
\* the call broke off in an error that exchangeMagicLink does not handle, or its
\* rollback met a grant that became active after the link was consumed.
THEOREM ConsumedIsAccountedFor == Spec => []ConsumedIsUsedOrReleased
BY Settled, PTL DEF JInv, Used
=============================================================================

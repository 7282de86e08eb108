------------------------- MODULE EmailDeliveryProofs -------------------------
(***************************************************************************)
(* Theorems about EmailDelivery for every number of calls, consumers,      *)
(* webhooks, events, texts, retries and deployments: first the text, the   *)
(* attempts and the provider's answers, then what provider events leave    *)
(* behind, the recipient's suppression and a row that stays settled, and   *)
(* last that no unsettled e-mail is without a copy that carries it on.     *)
(***************************************************************************)
EXTENDS EmailDelivery, TLAPS

\* Before the row exists there is nothing of the e-mail anywhere.
Begun ==
    /\ row.status # "none" => row.hash \in Payload
    /\ row.status = "none" =>
        /\ ~row.known /\ accepted = "none"
        /\ \A k \in Copy : queue[k] = 0
        /\ \A c \in Consumer : cons[c].phase = "idle"
        /\ \A p \in Producer : prod[p].phase \in {"idle", "inserting"}
        /\ \A h \in Hook : ~hook[h].busy

\* What every call and consumer has in hand is the text of the row.
OneText ==
    /\ DurablePayload
    /\ \A c \in Consumer : cons[c].phase # "idle" => cons[c].payload = row.hash
    /\ \A p \in Producer :
        /\ prod[p].phase = "inserting" => prod[p].payload \in Payload
        /\ prod[p].phase \in {"suppressing", "claiming"} =>
                prod[p].payload \in {row.hash, "none"}
        /\ prod[p].phase \in {"queueing", "resetting"} => prod[p].payload = row.hash

\* No attempt under way is numbered above the row's counter.
Fenced ==
    /\ AttemptsAreFenced
    /\ \A c \in Consumer : Attempting(c) => cons[c].attempt <= row.attempts

\* A consumer that is about to record "sent" was told so, and a webhook call
\* found the provider's id on the row.
Told ==
    /\ SentIsAccepted
    /\ \A c \in Consumer : cons[c].phase = "finishing" =>
        /\ cons[c].result # "none"
        /\ cons[c].result = "sent" => accepted = cons[c].payload
    /\ \A h \in Hook : hook[h].busy => row.known /\ hook[h].event \in Event

IInv == TypeOK /\ Begun /\ OneText /\ Fenced /\ Told

-----------------------------------------------------------------------------
(* Pieces of a step that several actions share *)

\* An ended invocation leaves a value of its type.
LEMMA IdleTypes ==
    /\ IdleProducer \in ProducerCall /\ IdleConsumer \in ConsumerCall
    /\ IdleHook \in HookCall /\ NoRow \in Row
<1>1. 0 \in 0..MaxRetries
    BY LimitAssumption
<1> QED
    BY <1>1 DEF IdleProducer, ProducerCall, ProducerPhase, Mode, IdleConsumer,
        ConsumerCall, ConsumerPhase, Config, Result, IdleHook, HookCall, NoRow, Row,
        Status, Normalized

\* Every configuration has a delivery mode.
LEMMA ModeType == \A d \in Config : ModeOf(d) \in Mode
BY DEF Config, ModeOf, Mode

\* A coordinator call moves on, ends or begins.
LEMMA GoesType ==
    ASSUME TypeOK, NEW p \in Producer, NEW ph \in ProducerPhase, Goes(p, ph)
    PROVE  prod' \in [Producer -> ProducerCall]
BY DEF TypeOK, Goes, ProducerCall

LEMMA ReturnsType ==
    ASSUME TypeOK, NEW p \in Producer, Returns(p)
    PROVE  prod' \in [Producer -> ProducerCall]
BY IdleTypes DEF TypeOK, Returns

LEMMA BeginType ==
    ASSUME TypeOK, NEW p \in Producer, NEW ph \in ProducerPhase,
           NEW x \in Payload, Begin(p, ph, x)
    PROVE  prod' \in [Producer -> ProducerCall]
<1>1. [phase |-> ph, payload |-> x, mode |-> ModeOf(config), suppressed |-> Suppressed]
        \in ProducerCall
    BY ModeType DEF TypeOK, ProducerCall, Suppressed
<1> QED
    BY <1>1 DEF TypeOK, Begin

\* Clearing the handoff lease keeps the row well typed.
LEMMA HandedOffType == TypeOK => \A b \in BOOLEAN : HandedOff(b) \in Row
BY DEF TypeOK, HandedOff, Row

\* A copy put in the queue, acknowledged or retried.
LEMMA PutType ==
    ASSUME TypeOK, NEW x \in Payload, Put(x)
    PROVE  queue' \in [Copy -> Nat]
<1>1. [tries |-> 0, payload |-> x] \in Copy
    BY LimitAssumption DEF Copy
<1> QED
    BY <1>1 DEF TypeOK, Put

LEMMA AckType ==
    ASSUME TypeOK, NEW c \in Consumer, Ack(c)
    PROVE  /\ cons' \in [Consumer -> ConsumerCall]
           /\ queue' \in [Copy -> Nat] /\ dead' \in BOOLEAN
BY IdleTypes DEF TypeOK, Ack, queueVars

LEMMA RetryType ==
    ASSUME TypeOK, NEW c \in Consumer, cons[c].payload \in Payload, Retry(c)
    PROVE  /\ cons' \in [Consumer -> ConsumerCall]
           /\ queue' \in [Copy -> Nat] /\ dead' \in BOOLEAN
<1>1. cons' \in [Consumer -> ConsumerCall]
    BY IdleTypes DEF TypeOK, Retry
<1>2. CASE cons[c].tries < MaxRetries
    <2>1. [tries |-> cons[c].tries + 1, payload |-> cons[c].payload] \in Copy
        BY <1>2, LimitAssumption DEF TypeOK, ConsumerCall, Copy
    <2> QED
        BY <1>1, <1>2, <2>1 DEF TypeOK, Retry
<1>3. CASE ~(cons[c].tries < MaxRetries)
    BY <1>1, <1>3 DEF TypeOK, Retry
<1> QED
    BY <1>2, <1>3

\* A consumer moves on, or to its result.
LEMMA MovesType ==
    ASSUME TypeOK, NEW c \in Consumer, NEW ph \in ConsumerPhase, Moves(c, ph)
    PROVE  cons' \in [Consumer -> ConsumerCall]
BY DEF TypeOK, Moves, ConsumerCall

LEMMA AttemptedType ==
    ASSUME TypeOK, NEW c \in Consumer, NEW r \in Result, Attempted(c, r)
    PROVE  cons' \in [Consumer -> ConsumerCall]
<1>1. [[cons[c] EXCEPT !.phase = "finishing"] EXCEPT !.result = r] \in ConsumerCall
    BY DEF TypeOK, ConsumerCall, ConsumerPhase
<1>2. cons' = [cons EXCEPT ![c] = [[cons[c] EXCEPT !.phase = "finishing"] EXCEPT !.result = r]]
    BY DEF TypeOK, Attempted
<1> QED
    BY <1>1, <1>2 DEF TypeOK

\* A busy consumer holds a copy of the row's text.
LEMMA HeldText ==
    ASSUME IInv, NEW c \in Consumer, cons[c].phase # "idle"
    PROVE  row.status # "none" /\ cons[c].payload = row.hash /\ row.hash \in Payload
BY DEF IInv, Begun, OneText

\* A claim either takes the next attempt number for its consumer, or nothing.
LEMMA ClaimEffect ==
    ASSUME TypeOK, NEW c \in Consumer, Claim(c)
    PROVE  /\ cons[c].phase = "claiming"
           /\ \A d \in Consumer : d # c => cons'[d] = cons[d]
           /\ row'.hash = row.hash /\ row'.known = row.known
           /\ \/ row' = row /\ cons'[c].phase = "idle"
              \/ /\ row'.status = "sending" /\ row'.attempts = row.attempts + 1
                 /\ cons'[c].phase = "checking" /\ cons'[c].payload = cons[c].payload
                 /\ cons'[c].attempt = row.attempts + 1
<1> DEFINE n == row.attempts + 1
<1>1. cons[c].phase = "claiming" /\ cons[c] \in ConsumerCall /\ row \in Row
    BY DEF Claim, TypeOK
<1>2. CASE MayClaim
    <2>1. cons' = [cons EXCEPT ![c].phase = "checking", ![c].attempt = n]
        BY <1>2 DEF Claim
    <2>2. HandedOff(TRUE) \in Row /\ HandedOff(TRUE).attempts = row.attempts
          /\ HandedOff(TRUE).hash = row.hash /\ HandedOff(TRUE).known = row.known
        BY <1>1, HandedOffType DEF HandedOff, Row
    <2>3. row' = [HandedOff(TRUE) EXCEPT !.status = "sending",
                      !.attempts = HandedOff(TRUE).attempts + 1, !.leaseOver = FALSE]
        BY <1>2 DEF Claim
    <2>4. /\ row'.status = "sending" /\ row'.attempts = n
          /\ row'.hash = row.hash /\ row'.known = row.known
        BY <2>2, <2>3 DEF Row
    <2> HIDE DEF n
    <2>5. /\ \A d \in Consumer : d # c => cons'[d] = cons[d]
          /\ cons'[c].phase = "checking" /\ cons'[c].payload = cons[c].payload
          /\ cons'[c].attempt = n
        BY <1>1, <2>1 DEF TypeOK, ConsumerCall
    <2> QED
        BY <1>1, <2>4, <2>5 DEF n
<1>3. CASE ~MayClaim
    <2>1. row' = row /\ cons' = [cons EXCEPT ![c] = IdleConsumer]
        BY <1>3 DEF Claim, Retry
    <2>2. cons'[c].phase = "idle" /\ \A d \in Consumer : d # c => cons'[d] = cons[d]
        BY <2>1 DEF TypeOK, IdleConsumer
    <2> QED
        BY <1>1, <2>1, <2>2
<1> QED
    BY <1>2, <1>3

-----------------------------------------------------------------------------
(* One lemma per action *)

\* enqueue() reads the suppression before it writes anything.
LEMMA EnqueueCalledKeeps ==
    ASSUME IInv, NEW p \in Producer, NEW x \in Payload, EnqueueCalled(p, x)
    PROVE  IInv'
<1> USE NoneAssumption DEF IInv
<1>1. prod' \in [Producer -> ProducerCall]
    BY BeginType DEF EnqueueCalled, ProducerPhase
<1>2. TypeOK'
    BY <1>1 DEF TypeOK, EnqueueCalled, Begin, worldVars, eventVars, queueVars,
        callVars
<1>3. Begun'
    BY DEF TypeOK, Row, Terminal, Normalized, Begun, ProducerCall, IdleProducer,
        EnqueueCalled, Begin, worldVars, eventVars, queueVars, callVars
<1>4. OneText'
    BY DEF TypeOK, Row, OneText, DurablePayload, Begun, ProducerCall, IdleProducer,
        EnqueueCalled, Begin, worldVars, eventVars, queueVars, callVars
<1>5. Fenced'
    BY DEF TypeOK, Row, Fenced, AttemptsAreFenced, Attempting, Begun, ProducerCall,
        IdleProducer, EnqueueCalled, Begin, worldVars, eventVars, queueVars, callVars
<1>6. Told'
    BY DEF TypeOK, Row, Terminal, Normalized, Told, SentIsAccepted, Begun, OneText,
        DurablePayload, ProducerCall, IdleProducer, EnqueueCalled, Begin, worldVars,
        eventVars, queueVars, callVars
<1> QED
    BY <1>2, <1>3, <1>4, <1>5, <1>6

\* drainPendingHandoffs() enqueues the envelope the row keeps.
LEMMA DrainSelectsKeeps ==
    ASSUME IInv, NEW p \in Producer, DrainSelects(p)
    PROVE  IInv'
<1> USE NoneAssumption DEF IInv
<1>1. prod' \in [Producer -> ProducerCall]
    BY BeginType DEF DrainSelects, ProducerPhase, OneText, Begun, AwaitsHandoff
<1>2. TypeOK'
    BY <1>1 DEF TypeOK, DrainSelects, Begin, worldVars, eventVars, queueVars, callVars
<1>3. Begun'
    BY DEF TypeOK, Row, Terminal, Normalized, Begun, ProducerCall, IdleProducer,
        DrainSelects, Begin, worldVars, eventVars, queueVars, callVars
<1>4. OneText'
    BY DEF TypeOK, ProducerCall, OneText, DurablePayload, Begun, DrainSelects, Begin,
        AwaitsHandoff, worldVars, eventVars, queueVars, callVars
<1>5. Fenced'
    BY DEF TypeOK, Row, Fenced, AttemptsAreFenced, Attempting, Begun, ProducerCall,
        IdleProducer, DrainSelects, Begin, worldVars, eventVars, queueVars, callVars
<1>6. Told'
    BY DEF TypeOK, Row, Terminal, Normalized, Told, SentIsAccepted, Begun, OneText,
        DurablePayload, ProducerCall, IdleProducer, DrainSelects, Begin, worldVars,
        eventVars, queueVars, callVars
<1> QED
    BY <1>2, <1>3, <1>4, <1>5, <1>6

\* replayById() carries the envelope the row keeps.
LEMMA ReplayCalledKeeps ==
    ASSUME IInv, NEW p \in Producer, ReplayCalled(p)
    PROVE  IInv'
<1> USE NoneAssumption DEF IInv
<1>1. prod' \in [Producer -> ProducerCall]
    BY BeginType DEF ReplayCalled, ProducerPhase, Begun
<1>2. /\ accepted' \in Payload \cup {"none"} /\ config' \in Config
      /\ clock' \in {"before", "near", "after"} /\ aged' \in BOOLEAN
      /\ replays' \in 0..MaxReplays /\ ends' \in 0..MaxEnds
      /\ deploys' \in 0..MaxDeploys
    BY LimitAssumption DEF ReplayCalled, Begin, TypeOK, Config, ConsumerCall
<1>3. TypeOK'
    BY <1>1, <1>2 DEF TypeOK, ReplayCalled, Begin, eventVars, queueVars, callVars
<1>4. Begun'
    BY DEF TypeOK, Row, Terminal, Normalized, Begun, ProducerCall, IdleProducer,
        ReplayCalled, Begin, eventVars, queueVars, callVars
<1>5. OneText'
    BY DEF TypeOK, Row, OneText, DurablePayload, Begun, ProducerCall, IdleProducer,
        ReplayCalled, Begin, eventVars, queueVars, callVars
<1>6. Fenced'
    BY DEF TypeOK, Row, Fenced, AttemptsAreFenced, Attempting, Begun, ProducerCall,
        IdleProducer, ReplayCalled, Begin, eventVars, queueVars, callVars
<1>7. Told'
    BY DEF TypeOK, Row, Terminal, Normalized, Told, SentIsAccepted, Begun, OneText,
        DurablePayload, ProducerCall, IdleProducer, ReplayCalled, Begin, eventVars,
        queueVars, callVars
<1> QED
    BY <1>3, <1>4, <1>5, <1>6, <1>7

\* The first insert under the key fixes the text.
LEMMA InsertKeeps ==
    ASSUME IInv, NEW p \in Producer, Insert(p)
    PROVE  IInv'
<1> USE NoneAssumption DEF IInv
<1>1. row' \in Row
    <2>1. CASE prod[p].suppressed
        BY ZenonT(60), <2>1, IdleTypes DEF Insert, TypeOK, Row, Status, Normalized, ProducerCall
    <2>2. CASE ~prod[p].suppressed
        BY <2>2, IdleTypes DEF Insert, TypeOK, Row, Status, ProducerCall
    <2> QED
        BY <2>1, <2>2
<1>2. prod' \in [Producer -> ProducerCall]
    BY GoesType, ReturnsType DEF Insert, ProducerPhase
<1>3. TypeOK'
    BY <1>1, <1>2 DEF TypeOK, Insert, Goes, Returns, worldVars, eventVars, queueVars,
        callVars
<1>4. Begun'
    <2>1. /\ row'.hash = prod[p].payload /\ row'.status \in {"suppressed", "queued"}
          /\ ~row'.known /\ row'.attempts = 0
        BY DEF Insert, NoRow
    <2> QED
        BY <2>1 DEF Insert, TypeOK, ProducerCall, Begun, OneText
<1>5. OneText'
    BY DEF TypeOK, Row, OneText, DurablePayload, Begun, ProducerCall, IdleProducer,
        Insert, Goes, Returns, worldVars, eventVars, queueVars, callVars
<1>6. Fenced'
    BY DEF TypeOK, Row, Fenced, AttemptsAreFenced, Attempting, Begun, ProducerCall,
        IdleProducer, Insert, Goes, Returns, worldVars, eventVars, queueVars, callVars
<1>7. Told'
    <2>1. /\ row'.hash = prod[p].payload /\ row'.status \in {"suppressed", "queued"}
          /\ ~row'.known /\ row'.attempts = 0
        BY DEF Insert, NoRow
    <2> QED
        BY <2>1 DEF Insert, Told, SentIsAccepted, Begun, eventVars, queueVars,
            callVars, worldVars
<1> QED
    BY <1>3, <1>4, <1>5, <1>6, <1>7

\* Later calls take over the row's text, or none.
LEMMA FindExistingKeeps ==
    ASSUME IInv, NEW p \in Producer, FindExisting(p)
    PROVE  IInv'
<1> USE NoneAssumption DEF IInv
<1>1. prod' \in [Producer -> ProducerCall]
    BY ReturnsType DEF FindExisting, TypeOK, ProducerCall, ProducerPhase, Row
<1>2. TypeOK'
    BY <1>1 DEF TypeOK, FindExisting, Goes, Returns, worldVars, eventVars, queueVars,
        callVars
<1>3. Begun'
    BY DEF TypeOK, Row, Terminal, Normalized, Begun, ProducerCall, IdleProducer,
        FindExisting, Goes, Returns, worldVars, eventVars, queueVars, callVars
<1>4. OneText'
    BY DEF TypeOK, Row, OneText, DurablePayload, Begun, ProducerCall, IdleProducer,
        FindExisting, Goes, Returns, worldVars, eventVars, queueVars, callVars
<1>5. Fenced'
    BY DEF TypeOK, Row, Fenced, AttemptsAreFenced, Attempting, Begun, ProducerCall,
        IdleProducer, FindExisting, Goes, Returns, worldVars, eventVars, queueVars,
        callVars
<1>6. Told'
    BY DEF TypeOK, Row, Terminal, Normalized, Told, SentIsAccepted, Begun, OneText,
        DurablePayload, ProducerCall, IdleProducer, FindExisting, Goes, Returns,
        worldVars, eventVars, queueVars, callVars
<1> QED
    BY <1>2, <1>3, <1>4, <1>5, <1>6

\* Suppressing a queued row leaves its text and counter.
LEMMA SuppressQueuedKeeps ==
    ASSUME IInv, NEW p \in Producer, SuppressQueued(p)
    PROVE  IInv'
<1> USE NoneAssumption DEF IInv
<1>1. row' \in Row
    BY ZenonT(60) DEF SuppressQueued, AwaitsHandoff, HandoffFree, TypeOK, Row, Status, Normalized
<1>2. prod' \in [Producer -> ProducerCall]
    BY GoesType, ReturnsType DEF SuppressQueued, ProducerPhase
<1>3. TypeOK'
    BY <1>1, <1>2 DEF TypeOK, SuppressQueued, Goes, Returns, worldVars, eventVars,
        queueVars, callVars
<1>4. Begun'
    BY DEF TypeOK, Row, Terminal, Normalized, Begun, ProducerCall, IdleProducer,
        SuppressQueued, Goes, Returns, worldVars, AwaitsHandoff, HandoffFree,
        eventVars, queueVars, callVars
<1>5. OneText'
    <2>1. row'.hash = row.hash
        BY DEF SuppressQueued, TypeOK, Row
    <2>2. \A q \in Producer : prod'[q] = prod[q] \/ (q = p /\
              \/ prod'[q].phase = "idle"
              \/ prod'[q].phase = "claiming" /\ prod'[q].payload = prod[q].payload)
        BY DEF SuppressQueued, Goes, Returns, IdleProducer, TypeOK, ProducerCall
    <2> QED
        BY <2>1, <2>2 DEF SuppressQueued, OneText, DurablePayload, eventVars,
            queueVars, callVars, worldVars
<1>6. Fenced'
    BY DEF TypeOK, Row, Fenced, AttemptsAreFenced, Attempting, Begun, ProducerCall,
        IdleProducer, SuppressQueued, Goes, Returns, worldVars, AwaitsHandoff,
        HandoffFree, eventVars, queueVars, callVars
<1>7. Told'
    BY ZenonT(60) DEF TypeOK, Row, Terminal, Normalized, Told, SentIsAccepted, Begun, OneText,
        DurablePayload, ProducerCall, IdleProducer, SuppressQueued, Goes, Returns,
        worldVars, AwaitsHandoff, HandoffFree, eventVars, queueVars, callVars
<1> QED
    BY <1>3, <1>4, <1>5, <1>6, <1>7

\* A handoff lease leaves text and counter.
LEMMA ClaimHandoffKeeps ==
    ASSUME IInv, NEW p \in Producer, ClaimHandoff(p)
    PROVE  IInv'
<1> USE NoneAssumption DEF IInv
<1>1. row' \in Row
    BY DEF ClaimHandoff, TypeOK, Row, ProducerCall
<1>2. prod' \in [Producer -> ProducerCall]
    BY GoesType, ReturnsType DEF ClaimHandoff, ProducerPhase
<1>3. TypeOK'
    BY <1>1, <1>2 DEF TypeOK, ClaimHandoff, MayClaimHandoff, AwaitsHandoff, Goes,
        worldVars, eventVars, queueVars, callVars
<1>4. Begun'
    BY DEF TypeOK, Row, Terminal, Normalized, Begun, ProducerCall, IdleProducer,
        ClaimHandoff, MayClaimHandoff, AwaitsHandoff, Goes, worldVars, eventVars,
        queueVars, callVars
<1>5. OneText'
    BY DEF TypeOK, Row, OneText, DurablePayload, Begun, ProducerCall, IdleProducer,
        ClaimHandoff, MayClaimHandoff, AwaitsHandoff, Goes, worldVars, eventVars,
        queueVars, callVars
<1>6. Fenced'
    BY DEF TypeOK, Row, Fenced, AttemptsAreFenced, Attempting, Begun, ProducerCall,
        IdleProducer, ClaimHandoff, MayClaimHandoff, AwaitsHandoff, Goes, worldVars,
        eventVars, queueVars, callVars
<1>7. Told'
    BY DEF TypeOK, Row, Terminal, Normalized, Told, SentIsAccepted, Begun, OneText,
        DurablePayload, ProducerCall, IdleProducer, ClaimHandoff, MayClaimHandoff,
        AwaitsHandoff, Goes, worldVars, eventVars, queueVars, callVars
<1> QED
    BY <1>3, <1>4, <1>5, <1>6, <1>7

\* A call that may not hand off just returns.
LEMMA HandoffPendingKeeps ==
    ASSUME IInv, NEW p \in Producer, HandoffPending(p)
    PROVE  IInv'
<1> USE NoneAssumption DEF IInv
<1>1. prod' \in [Producer -> ProducerCall]
    BY GoesType, ReturnsType DEF HandoffPending, ProducerPhase
<1>2. TypeOK'
    BY <1>1 DEF TypeOK, HandoffPending, Returns, worldVars, eventVars, queueVars,
        callVars
<1>3. Begun'
    BY DEF TypeOK, Row, Terminal, Normalized, Begun, ProducerCall, IdleProducer,
        HandoffPending, Returns, worldVars, eventVars, queueVars, callVars
<1>4. OneText'
    BY DEF TypeOK, Row, OneText, DurablePayload, Begun, ProducerCall, IdleProducer,
        HandoffPending, Returns, worldVars, eventVars, queueVars, callVars
<1>5. Fenced'
    BY DEF TypeOK, Row, Fenced, AttemptsAreFenced, Attempting, Begun, ProducerCall,
        IdleProducer, HandoffPending, Returns, worldVars, eventVars, queueVars,
        callVars
<1>6. Told'
    BY DEF TypeOK, Row, Terminal, Normalized, Told, SentIsAccepted, Begun, OneText,
        DurablePayload, ProducerCall, IdleProducer, HandoffPending, Returns,
        worldVars, eventVars, queueVars, callVars
<1> QED
    BY <1>2, <1>3, <1>4, <1>5, <1>6

\* What is queued is the row's text.
LEMMA QueueSendKeeps ==
    ASSUME IInv, NEW p \in Producer, QueueSend(p)
    PROVE  IInv'
<1> USE NoneAssumption DEF IInv
<1>1. queue' \in [Copy -> Nat] /\ dead' \in BOOLEAN
    BY PutType DEF QueueSend, TypeOK, OneText, Begun
<1>2. prod' \in [Producer -> ProducerCall]
    BY GoesType, ReturnsType DEF QueueSend, ProducerPhase
<1>3. TypeOK'
    BY <1>1, <1>2 DEF TypeOK, QueueSend, Put, Goes, worldVars, eventVars, queueVars,
        callVars
<1>4. Begun'
    BY DEF TypeOK, Row, Terminal, Normalized, Begun, ProducerCall, IdleProducer,
        QueueSend, Put, Goes, worldVars, eventVars, queueVars, callVars
<1>5. OneText'
    BY DEF TypeOK, Row, OneText, DurablePayload, Begun, ProducerCall, IdleProducer,
        QueueSend, Put, Goes, worldVars, eventVars, queueVars, callVars
<1>6. Fenced'
    BY DEF TypeOK, Row, Fenced, AttemptsAreFenced, Attempting, Begun, ProducerCall,
        IdleProducer, QueueSend, Put, Goes, worldVars, eventVars, queueVars, callVars
<1>7. Told'
    BY DEF TypeOK, Row, Terminal, Normalized, Told, SentIsAccepted, Begun, OneText,
        DurablePayload, ProducerCall, IdleProducer, QueueSend, Put, Goes, worldVars,
        eventVars, queueVars, callVars
<1> QED
    BY <1>3, <1>4, <1>5, <1>6, <1>7

\* So is what a failed send may have queued.
LEMMA QueueSendFailsKeeps ==
    ASSUME IInv, NEW p \in Producer, QueueSendFails(p)
    PROVE  IInv'
<1> USE NoneAssumption DEF IInv
<1>1. queue' \in [Copy -> Nat] /\ dead' \in BOOLEAN
    BY PutType DEF QueueSendFails, TypeOK, OneText, Begun
<1>2. prod' \in [Producer -> ProducerCall]
    BY GoesType, ReturnsType DEF QueueSendFails, ProducerPhase
<1>3. TypeOK'
    BY <1>1, <1>2 DEF TypeOK, QueueSendFails, Put, Goes, worldVars, eventVars,
        queueVars, callVars
<1>4. Begun'
    BY DEF TypeOK, Row, Terminal, Normalized, Begun, ProducerCall, IdleProducer,
        QueueSendFails, Put, Goes, worldVars, eventVars, queueVars, callVars
<1>5. OneText'
    BY DEF TypeOK, Row, OneText, DurablePayload, Begun, ProducerCall, IdleProducer,
        QueueSendFails, Put, Goes, worldVars, eventVars, queueVars, callVars
<1>6. Fenced'
    BY DEF TypeOK, Row, Fenced, AttemptsAreFenced, Attempting, Begun, ProducerCall,
        IdleProducer, QueueSendFails, Put, Goes, worldVars, eventVars, queueVars,
        callVars
<1>7. Told'
    BY DEF TypeOK, Row, Terminal, Normalized, Told, SentIsAccepted, Begun, OneText,
        DurablePayload, ProducerCall, IdleProducer, QueueSendFails, Put, Goes,
        worldVars, eventVars, queueVars, callVars
<1> QED
    BY <1>3, <1>4, <1>5, <1>6, <1>7

\* Confirming a handoff leaves text and counter.
LEMMA ConfirmSentKeeps ==
    ASSUME IInv, NEW p \in Producer, ConfirmSent(p)
    PROVE  IInv'
<1> USE NoneAssumption DEF IInv
<1>1. row' \in Row
    BY HandedOffType DEF ConfirmSent, TypeOK, Row
<1>2. prod' \in [Producer -> ProducerCall]
    BY GoesType, ReturnsType DEF ConfirmSent, ProducerPhase
<1>3. TypeOK'
    BY <1>1, <1>2 DEF TypeOK, ConfirmSent, HandedOff, Returns, worldVars, eventVars,
        queueVars, callVars
<1>4. Begun'
    BY DEF TypeOK, Row, Terminal, Normalized, Begun, ProducerCall, IdleProducer,
        ConfirmSent, HandedOff, Returns, worldVars, eventVars, queueVars, callVars
<1>5. OneText'
    BY DEF TypeOK, Row, OneText, DurablePayload, Begun, ProducerCall, IdleProducer,
        ConfirmSent, HandedOff, Returns, worldVars, eventVars, queueVars, callVars
<1>6. Fenced'
    BY DEF TypeOK, Row, Fenced, AttemptsAreFenced, Attempting, Begun, ProducerCall,
        IdleProducer, ConfirmSent, HandedOff, Returns, worldVars, eventVars,
        queueVars, callVars
<1>7. Told'
    BY DEF TypeOK, Row, Terminal, Normalized, Told, SentIsAccepted, Begun, OneText,
        DurablePayload, ProducerCall, IdleProducer, ConfirmSent, HandedOff, Returns,
        worldVars, eventVars, queueVars, callVars
<1> QED
    BY <1>3, <1>4, <1>5, <1>6, <1>7

\* Releasing a handoff leaves text and counter.
LEMMA ReleaseHandoffKeeps ==
    ASSUME IInv, NEW p \in Producer, ReleaseHandoff(p)
    PROVE  IInv'
<1> USE NoneAssumption DEF IInv
<1>1. row' \in Row
    BY HandedOffType DEF ReleaseHandoff, TypeOK, Row
<1>2. prod' \in [Producer -> ProducerCall]
    BY GoesType, ReturnsType DEF ReleaseHandoff, ProducerPhase
<1>3. TypeOK'
    BY <1>1, <1>2 DEF TypeOK, ReleaseHandoff, HandedOff, Returns, worldVars,
        eventVars, queueVars, callVars
<1>4. Begun'
    BY DEF TypeOK, Row, Terminal, Normalized, Begun, ProducerCall, IdleProducer,
        ReleaseHandoff, HandedOff, Returns, worldVars, eventVars, queueVars, callVars
<1>5. OneText'
    BY DEF TypeOK, Row, OneText, DurablePayload, Begun, ProducerCall, IdleProducer,
        ReleaseHandoff, HandedOff, Returns, worldVars, eventVars, queueVars, callVars
<1>6. Fenced'
    BY DEF TypeOK, Row, Fenced, AttemptsAreFenced, Attempting, Begun, ProducerCall,
        IdleProducer, ReleaseHandoff, HandedOff, Returns, worldVars, eventVars,
        queueVars, callVars
<1>7. Told'
    BY DEF TypeOK, Row, Terminal, Normalized, Told, SentIsAccepted, Begun, OneText,
        DurablePayload, ProducerCall, IdleProducer, ReleaseHandoff, HandedOff,
        Returns, worldVars, eventVars, queueVars, callVars
<1> QED
    BY <1>3, <1>4, <1>5, <1>6, <1>7

\* A replay may suppress a failed row.
LEMMA SuppressFailedKeeps ==
    ASSUME IInv, NEW p \in Producer, SuppressFailed(p)
    PROVE  IInv'
<1> USE NoneAssumption DEF IInv
<1>1. row' \in Row
    BY DEF SuppressFailed, TypeOK, Row, Status, Normalized
<1>2. prod' \in [Producer -> ProducerCall]
    BY GoesType, ReturnsType DEF SuppressFailed, ProducerPhase
<1>3. TypeOK'
    BY <1>1, <1>2 DEF TypeOK, SuppressFailed, Returns, worldVars, eventVars,
        queueVars, callVars
<1>4. Begun'
    BY DEF TypeOK, Row, Terminal, Normalized, Begun, ProducerCall, IdleProducer,
        SuppressFailed, Returns, worldVars, eventVars, queueVars, callVars
<1>5. OneText'
    BY DEF TypeOK, Row, OneText, DurablePayload, Begun, ProducerCall, IdleProducer,
        SuppressFailed, Returns, worldVars, eventVars, queueVars, callVars
<1>6. Fenced'
    BY DEF TypeOK, Row, Fenced, AttemptsAreFenced, Attempting, Begun, ProducerCall,
        IdleProducer, SuppressFailed, Returns, worldVars, eventVars, queueVars,
        callVars
<1>7. Told'
    BY DEF TypeOK, Row, Terminal, Normalized, Told, SentIsAccepted, Begun, OneText,
        DurablePayload, ProducerCall, IdleProducer, SuppressFailed, Returns,
        worldVars, eventVars, queueVars, callVars
<1> QED
    BY <1>3, <1>4, <1>5, <1>6, <1>7

\* A replay resets a failed row, not its counter.
LEMMA ResetFailedKeeps ==
    ASSUME IInv, NEW p \in Producer, ResetFailed(p)
    PROVE  IInv'
<1> USE NoneAssumption DEF IInv
<1>1. row' \in Row
    <2> DEFINE m == prod[p].mode
               r == HandedOff(FALSE)
    <2>1. r \in Row /\ row \in Row /\ m \in Mode
        BY HandedOffType DEF TypeOK, ProducerCall
    <2>2. row' = row \/ row' = [r EXCEPT !.status = "queued", !.mode = m]
        BY DEF ResetFailed
    <2> HIDE DEF m, r
    <2> QED
        BY <2>1, <2>2 DEF Row, Status
<1>2. prod' \in [Producer -> ProducerCall]
    BY GoesType, ReturnsType DEF ResetFailed, ProducerPhase
<1>3. TypeOK'
    BY <1>1, <1>2 DEF TypeOK, ResetFailed, HandedOff, Goes, Returns, worldVars,
        eventVars, queueVars, callVars
<1>4. Begun'
    BY ZenonT(60) DEF TypeOK, Row, Terminal, Normalized, Begun, ProducerCall, IdleProducer,
        ResetFailed, HandedOff, Goes, Returns, worldVars, eventVars, queueVars,
        callVars
<1>5. OneText'
    <2>1. row'.hash = row.hash
        BY DEF ResetFailed, HandedOff, TypeOK, Row
    <2>2. \A q \in Producer : prod'[q] = prod[q] \/ (q = p /\
              \/ prod'[q].phase = "idle"
              \/ prod'[q].phase = "claiming" /\ prod'[q].payload = prod[q].payload)
        BY DEF ResetFailed, Goes, Returns, IdleProducer, TypeOK, ProducerCall
    <2> QED
        BY <2>1, <2>2 DEF ResetFailed, OneText, DurablePayload, eventVars, queueVars,
            callVars, worldVars
<1>6. Fenced'
    BY ZenonT(60) DEF TypeOK, Row, Fenced, AttemptsAreFenced, Attempting, Begun, ProducerCall,
        IdleProducer, ResetFailed, HandedOff, Goes, Returns, worldVars, eventVars,
        queueVars, callVars
<1>7. Told'
    <2>1. UNCHANGED <<accepted, cons, hook>>
        BY DEF ResetFailed, worldVars
    <2>2. row'.known = row.known /\ row'.hash = row.hash
        BY DEF ResetFailed, HandedOff, TypeOK, Row
    <2>3. row'.status = row.status \/ row'.status = "queued"
        BY DEF ResetFailed, HandedOff, TypeOK, Row
    <2> QED
        BY <2>1, <2>2, <2>3 DEF Told, SentIsAccepted
<1> QED
    BY <1>3, <1>4, <1>5, <1>6, <1>7

\* A coordinator call dies.
LEMMA ProducerEndsKeeps ==
    ASSUME IInv, NEW p \in Producer, ProducerEnds(p)
    PROVE  IInv'
<1> USE NoneAssumption DEF IInv
<1>1. prod' \in [Producer -> ProducerCall]
    BY GoesType, ReturnsType DEF ProducerEnds, ProducerPhase
<1>2. /\ accepted' \in Payload \cup {"none"} /\ config' \in Config
      /\ clock' \in {"before", "near", "after"} /\ aged' \in BOOLEAN
      /\ replays' \in 0..MaxReplays /\ ends' \in 0..MaxEnds
      /\ deploys' \in 0..MaxDeploys
    BY LimitAssumption DEF ProducerEnds, AnInvocationEnds, Returns, TypeOK, Config,
        ConsumerCall
<1>3. TypeOK'
    BY <1>1, <1>2 DEF TypeOK, ProducerEnds, AnInvocationEnds, Returns, eventVars,
        queueVars, callVars
<1>4. Begun'
    BY DEF TypeOK, Row, Terminal, Normalized, Begun, ProducerCall, IdleProducer,
        ProducerEnds, AnInvocationEnds, Returns, eventVars, queueVars, callVars
<1>5. OneText'
    BY DEF TypeOK, Row, OneText, DurablePayload, Begun, ProducerCall, IdleProducer,
        ProducerEnds, AnInvocationEnds, Returns, eventVars, queueVars, callVars
<1>6. Fenced'
    BY DEF TypeOK, Row, Fenced, AttemptsAreFenced, Attempting, Begun, ProducerCall,
        IdleProducer, ProducerEnds, AnInvocationEnds, Returns, eventVars, queueVars,
        callVars
<1>7. Told'
    BY DEF TypeOK, Row, Terminal, Normalized, Told, SentIsAccepted, Begun, OneText,
        DurablePayload, ProducerCall, IdleProducer, ProducerEnds, AnInvocationEnds,
        Returns, eventVars, queueVars, callVars
<1> QED
    BY <1>3, <1>4, <1>5, <1>6, <1>7

\* A consumer takes a copy.
LEMMA DeliverKeeps ==
    ASSUME IInv, NEW c \in Consumer, Deliver(c)
    PROVE  IInv'
<1> USE NoneAssumption DEF IInv
<1>1. queue' \in [Copy -> Nat] /\ dead' \in BOOLEAN
    BY DEF Deliver, TypeOK
<1>2. cons' \in [Consumer -> ConsumerCall]
    <2>1. PICK k \in Copy : cons' = [cons EXCEPT ![c] = [IdleConsumer EXCEPT
                !.phase = "reading", !.tries = k.tries, !.payload = k.payload, !.config = config]]
        BY DEF Deliver
    <2>2. [phase |-> "reading", tries |-> k.tries, payload |-> k.payload, config |-> config,
           attempt |-> 0, result |-> "none"] \in ConsumerCall
        BY DEF TypeOK, Copy, ConsumerCall, ConsumerPhase, Result
    <2> QED
        BY <2>1, <2>2 DEF TypeOK, IdleConsumer
<1>3. TypeOK'
    BY <1>1, <1>2 DEF TypeOK, Deliver, worldVars, eventVars, queueVars, callVars
<1>4. Begun'
    BY DEF TypeOK, Row, Terminal, Normalized, Begun, ConsumerCall, IdleConsumer,
        Deliver, worldVars, eventVars, queueVars, callVars
<1>5. OneText'
    BY DEF TypeOK, Row, OneText, DurablePayload, Begun, ConsumerCall, IdleConsumer,
        Deliver, worldVars, eventVars, queueVars, callVars
<1>6. Fenced'
    BY DEF TypeOK, Row, Fenced, AttemptsAreFenced, Attempting, Begun, ConsumerCall,
        IdleConsumer, Deliver, worldVars, eventVars, queueVars, callVars
<1>7. Told'
    BY DEF TypeOK, Row, Terminal, Normalized, Told, SentIsAccepted, Begun, OneText,
        DurablePayload, ConsumerCall, IdleConsumer, Deliver, worldVars, eventVars,
        queueVars, callVars
<1> QED
    BY <1>3, <1>4, <1>5, <1>6, <1>7

\* A consumer reads the row.
LEMMA ReadMessageKeeps ==
    ASSUME IInv, NEW c \in Consumer, ReadMessage(c)
    PROVE  IInv'
<1> USE NoneAssumption DEF IInv
<1>1. cons' \in [Consumer -> ConsumerCall]
    BY AckType, MovesType DEF ReadMessage, ConsumerPhase
<1>2. queue' \in [Copy -> Nat] /\ dead' \in BOOLEAN
    BY AckType DEF ReadMessage, TypeOK, queueVars
<1>3. TypeOK'
    BY <1>1, <1>2 DEF TypeOK, ReadMessage, Moves, Ack, worldVars, eventVars,
        queueVars, callVars
<1>4. Begun'
    BY DEF TypeOK, Row, Terminal, Normalized, Begun, ConsumerCall, IdleConsumer,
        ReadMessage, Moves, Ack, worldVars, eventVars, queueVars, callVars
<1>5. OneText'
    BY DEF TypeOK, Row, OneText, DurablePayload, Begun, ConsumerCall, IdleConsumer,
        ReadMessage, Moves, Ack, worldVars, eventVars, queueVars, callVars
<1>6. Fenced'
    BY DEF TypeOK, Row, Fenced, AttemptsAreFenced, Attempting, Begun, ConsumerCall,
        IdleConsumer, ReadMessage, Moves, Ack, worldVars, eventVars, queueVars,
        callVars
<1>7. Told'
    BY DEF TypeOK, Row, Terminal, Normalized, Told, SentIsAccepted, Begun, OneText,
        DurablePayload, ConsumerCall, IdleConsumer, ReadMessage, Moves, Ack,
        worldVars, eventVars, queueVars, callVars
<1> QED
    BY <1>3, <1>4, <1>5, <1>6, <1>7

\* An early copy gives the row back to the drain.
LEMMA GiveBackEarlyKeeps ==
    ASSUME IInv, NEW c \in Consumer, GiveBackEarly(c)
    PROVE  IInv'
<1> USE NoneAssumption DEF IInv
<1>1. row' \in Row
    BY HandedOffType DEF GiveBackEarly, TypeOK, Row
<1>2. cons' \in [Consumer -> ConsumerCall]
    BY AckType DEF GiveBackEarly
<1>3. queue' \in [Copy -> Nat] /\ dead' \in BOOLEAN
    BY AckType DEF GiveBackEarly
<1>4. TypeOK'
    BY <1>1, <1>2, <1>3 DEF TypeOK, GiveBackEarly, HandedOff, Ack, worldVars,
        eventVars, queueVars, callVars
<1>5. Begun'
    BY DEF TypeOK, Row, Terminal, Normalized, Begun, ConsumerCall, IdleConsumer,
        GiveBackEarly, HandedOff, Ack, worldVars, eventVars, queueVars, callVars
<1>6. OneText'
    BY DEF TypeOK, Row, OneText, DurablePayload, Begun, ConsumerCall, IdleConsumer,
        GiveBackEarly, HandedOff, Ack, worldVars, eventVars, queueVars, callVars
<1>7. Fenced'
    BY DEF TypeOK, Row, Fenced, AttemptsAreFenced, Attempting, Begun, ConsumerCall,
        IdleConsumer, GiveBackEarly, HandedOff, Ack, worldVars, eventVars, queueVars,
        callVars
<1>8. Told'
    BY DEF TypeOK, Row, Terminal, Normalized, Told, SentIsAccepted, Begun, OneText,
        DurablePayload, ConsumerCall, IdleConsumer, GiveBackEarly, HandedOff, Ack,
        worldVars, eventVars, queueVars, callVars
<1> QED
    BY <1>4, <1>5, <1>6, <1>7, <1>8

\* A consumer confirms the handoff of the copy it holds.
LEMMA ConfirmHandoffKeeps ==
    ASSUME IInv, NEW c \in Consumer, ConfirmHandoff(c)
    PROVE  IInv'
<1> USE NoneAssumption DEF IInv
<1>1. row' \in Row
    BY HandedOffType DEF ConfirmHandoff, TypeOK, Row
<1>2. cons' \in [Consumer -> ConsumerCall]
    BY MovesType DEF ConfirmHandoff, ConsumerPhase
<1>3. TypeOK'
    BY <1>1, <1>2 DEF TypeOK, ConfirmHandoff, HandedOff, Moves, worldVars, eventVars,
        queueVars, callVars
<1>4. Begun'
    BY DEF TypeOK, Row, Terminal, Normalized, Begun, ConsumerCall, IdleConsumer,
        ConfirmHandoff, HandedOff, Moves, worldVars, eventVars, queueVars, callVars
<1>5. OneText'
    BY DEF TypeOK, Row, OneText, DurablePayload, Begun, ConsumerCall, IdleConsumer,
        ConfirmHandoff, HandedOff, Moves, worldVars, eventVars, queueVars, callVars
<1>6. Fenced'
    BY DEF TypeOK, Row, Fenced, AttemptsAreFenced, Attempting, Begun, ConsumerCall,
        IdleConsumer, ConfirmHandoff, HandedOff, Moves, worldVars, eventVars,
        queueVars, callVars
<1>7. Told'
    BY DEF TypeOK, Row, Terminal, Normalized, Told, SentIsAccepted, Begun, OneText,
        DurablePayload, ConsumerCall, IdleConsumer, ConfirmHandoff, HandedOff, Moves,
        worldVars, eventVars, queueVars, callVars
<1> QED
    BY <1>3, <1>4, <1>5, <1>6, <1>7

\* A change of mode fails a queued row.
LEMMA FailBeforeAttemptKeeps ==
    ASSUME IInv, NEW c \in Consumer, FailBeforeAttempt(c)
    PROVE  IInv'
<1> USE NoneAssumption DEF IInv
<1>1. row' \in Row
    BY DEF FailBeforeAttempt, TypeOK, Row, Status, Normalized
<1>2. cons' \in [Consumer -> ConsumerCall]
    BY AckType DEF FailBeforeAttempt
<1>3. queue' \in [Copy -> Nat] /\ dead' \in BOOLEAN
    BY AckType DEF FailBeforeAttempt
<1>4. TypeOK'
    BY <1>1, <1>2, <1>3 DEF TypeOK, FailBeforeAttempt, Ack, worldVars, eventVars,
        queueVars, callVars
<1>5. Begun'
    BY DEF TypeOK, Row, Terminal, Normalized, Begun, ConsumerCall, IdleConsumer,
        FailBeforeAttempt, Ack, worldVars, eventVars, queueVars, callVars
<1>6. OneText'
    BY DEF TypeOK, Row, OneText, DurablePayload, Begun, ConsumerCall, IdleConsumer,
        FailBeforeAttempt, Ack, worldVars, eventVars, queueVars, callVars
<1>7. Fenced'
    BY DEF TypeOK, Row, Fenced, AttemptsAreFenced, Attempting, Begun, ConsumerCall,
        IdleConsumer, FailBeforeAttempt, Ack, worldVars, eventVars, queueVars,
        callVars
<1>8. Told'
    BY DEF TypeOK, Row, Terminal, Normalized, Told, SentIsAccepted, Begun, OneText,
        DurablePayload, ConsumerCall, IdleConsumer, FailBeforeAttempt, Ack, worldVars,
        eventVars, queueVars, callVars
<1> QED
    BY <1>4, <1>5, <1>6, <1>7, <1>8

\* A claim takes the next attempt number.
LEMMA ClaimKeeps ==
    ASSUME IInv, NEW c \in Consumer, Claim(c)
    PROVE  IInv'
<1> USE NoneAssumption DEF IInv
<1>1. row' \in Row
    <2> DEFINE n == row.attempts + 1
               r == HandedOff(TRUE)
    <2>1. r \in Row /\ row \in Row
        BY HandedOffType DEF TypeOK
    <2>2. n \in Nat /\ r.attempts = row.attempts
        BY <2>1 DEF HandedOff, Row
    <2>3. row' = row \/ row' = [r EXCEPT !.status = "sending", !.attempts = n,
                                         !.leaseOver = FALSE]
        BY <2>1, <2>2 DEF Claim, Row
    <2> HIDE DEF n, r
    <2>4. [r EXCEPT !.status = "sending", !.attempts = n, !.leaseOver = FALSE] \in Row
        BY <2>1, <2>2 DEF Row, Status
    <2> QED
        BY <2>1, <2>3, <2>4
<1>2. cons' \in [Consumer -> ConsumerCall]
    <2>1. row.attempts + 1 \in Nat
        BY DEF TypeOK, Row
    <2> QED
        BY <2>1, RetryType, HeldText DEF Claim, MayClaim, TypeOK, ConsumerCall,
            ConsumerPhase
<1>3. queue' \in [Copy -> Nat] /\ dead' \in BOOLEAN
    BY RetryType, HeldText DEF Claim, MayClaim, TypeOK, queueVars
<1>4. TypeOK'
    BY <1>1, <1>2, <1>3 DEF TypeOK, Claim, MayClaim, HandedOff, Retry, worldVars,
        eventVars, queueVars, callVars
<1>5. Begun'
    BY ZenonT(60) DEF TypeOK, Row, Terminal, Normalized, Begun, ConsumerCall, IdleConsumer,
        Claim, MayClaim, HandedOff, Retry, worldVars, eventVars, queueVars, callVars
<1>6. OneText'
    <2>1. \A k \in Copy : queue'[k] > 0 => queue[k] > 0 \/ k.payload = cons[c].payload
        BY DEF Claim, Retry, queueVars, TypeOK
    <2>2. cons[c].payload = row.hash
        BY HeldText, ClaimEffect
    <2>3. prod' = prod /\ accepted' = accepted /\ row'.hash = row.hash
        BY ClaimEffect DEF Claim, worldVars
    <2>4. \A d \in Consumer : cons'[d].phase # "idle" => cons'[d].payload = row.hash
        BY <2>2, ClaimEffect DEF OneText
    <2> QED
        BY <2>1, <2>2, <2>3, <2>4 DEF OneText, DurablePayload
<1>7. Fenced'
    <2>1. row.attempts \in Nat /\ \A d \in Consumer : cons[d].attempt \in Nat
        BY DEF TypeOK, Row, ConsumerCall
    <2>2. CASE row' = row /\ cons'[c].phase = "idle"
        <3>1. \A d \in Consumer : Attempting(d)' => Attempting(d) /\ cons'[d] = cons[d]
            BY <2>2, ClaimEffect DEF Attempting
        <3> QED
            BY <2>2, <3>1 DEF Fenced, AttemptsAreFenced, Attempting
    <2>3. CASE row'.attempts = row.attempts + 1 /\ cons'[c].attempt = row.attempts + 1
        <3>1. \A d \in Consumer : d # c =>
                  /\ Attempting(d)' <=> Attempting(d)
                  /\ cons'[d] = cons[d]
            BY ClaimEffect DEF Attempting
        <3>2. \A d \in Consumer : Attempting(d) => cons[d].attempt <= row.attempts
            BY DEF Fenced
        <3>3. \A d \in Consumer : Attempting(d)' /\ d # c =>
                  cons'[d].attempt <= row.attempts
            BY <3>1, <3>2
        <3>4. \A d \in Consumer : Attempting(d)' => cons'[d].attempt <= row'.attempts
            BY <2>1, <2>3, <3>1, <3>3
        <3>5. ASSUME NEW d \in Consumer, NEW e \in Consumer, Attempting(d)', Attempting(e)',
                     cons'[d].attempt = cons'[e].attempt
              PROVE  d = e
            <4>1. CASE d # c /\ e # c
                BY <3>1, <3>5, <4>1 DEF Fenced, AttemptsAreFenced
            <4>2. CASE d = c \/ e = c
                BY <2>1, <2>3, <3>1, <3>3, <3>5, <4>2
            <4> QED
                BY <4>1, <4>2
        <3> QED
            BY <3>4, <3>5 DEF Fenced, AttemptsAreFenced
    <2> QED
        BY <2>2, <2>3, ClaimEffect
<1>8. Told'
    <2>1. /\ accepted' = accepted /\ hook' = hook
          /\ row'.hash = row.hash /\ row'.known = row.known
          /\ row' = row \/ row'.status = "sending"
        BY ClaimEffect DEF Claim, worldVars
    <2>2. \A d \in Consumer : cons'[d].phase = "finishing" => cons'[d] = cons[d]
        BY ClaimEffect
    <2> QED
        BY <2>1, <2>2 DEF Told, SentIsAccepted
<1> QED
    BY <1>4, <1>5, <1>6, <1>7, <1>8

\* The checks before a send may settle the attempt.
LEMMA CheckRecipientKeeps ==
    ASSUME IInv, NEW c \in Consumer, CheckRecipient(c)
    PROVE  IInv'
<1> USE NoneAssumption DEF IInv
<1>1. cons' \in [Consumer -> ConsumerCall]
    BY MovesType, AttemptedType DEF CheckRecipient, ConsumerPhase, Result
<1>2. TypeOK'
    BY <1>1 DEF TypeOK, CheckRecipient, Attempted, Moves, worldVars, eventVars,
        queueVars, callVars
<1>3. Begun'
    BY DEF TypeOK, Row, Terminal, Normalized, Begun, ConsumerCall, IdleConsumer,
        CheckRecipient, Attempted, Moves, worldVars, eventVars, queueVars, callVars
<1>4. OneText'
    BY DEF TypeOK, Row, OneText, DurablePayload, Begun, ConsumerCall, IdleConsumer,
        CheckRecipient, Attempted, Moves, worldVars, eventVars, queueVars, callVars
<1>5. Fenced'
    BY DEF TypeOK, Row, Fenced, AttemptsAreFenced, Attempting, Begun, ConsumerCall,
        IdleConsumer, CheckRecipient, Attempted, Moves, worldVars, eventVars,
        queueVars, callVars
<1>6. Told'
    BY DEF TypeOK, Row, Terminal, Normalized, Told, SentIsAccepted, Begun, OneText,
        DurablePayload, ConsumerCall, IdleConsumer, CheckRecipient, Attempted, Moves,
        worldVars, eventVars, queueVars, callVars
<1> QED
    BY <1>2, <1>3, <1>4, <1>5, <1>6

\* Only Resend's acceptance leads to a result "sent".
LEMMA SendKeeps ==
    ASSUME IInv, NEW c \in Consumer, Send(c)
    PROVE  IInv'
<1> USE NoneAssumption DEF IInv
<1>1. cons' \in [Consumer -> ConsumerCall]
    BY AttemptedType DEF Send, ProviderAccepts, ProviderRefuses, ProviderUnclear,
        Unresolved, Result
<1>2. /\ accepted' \in Payload \cup {"none"} /\ config' \in Config
      /\ clock' \in {"before", "near", "after"} /\ aged' \in BOOLEAN
      /\ replays' \in 0..MaxReplays /\ ends' \in 0..MaxEnds
      /\ deploys' \in 0..MaxDeploys
    BY LimitAssumption DEF Send, ProviderAccepts, ProviderRefuses, ProviderUnclear,
        Unresolved, Attempted, TypeOK, Config, ConsumerCall
<1>3. TypeOK'
    BY <1>1, <1>2 DEF TypeOK, Send, ProviderAccepts, ProviderRefuses, ProviderUnclear,
        Unresolved, Attempted, eventVars, queueVars, callVars
<1>4. Begun'
    BY DEF TypeOK, Row, Terminal, Normalized, Begun, ConsumerCall, IdleConsumer, Send,
        ProviderAccepts, ProviderRefuses, ProviderUnclear, Unresolved, Attempted,
        eventVars, queueVars, callVars
<1>5. OneText'
    BY DEF TypeOK, Row, OneText, DurablePayload, Begun, ConsumerCall, IdleConsumer,
        Send, ProviderAccepts, ProviderRefuses, ProviderUnclear, Unresolved,
        Attempted, eventVars, queueVars, callVars
<1>6. Fenced'
    BY DEF TypeOK, Row, Fenced, AttemptsAreFenced, Attempting, Begun, ConsumerCall,
        IdleConsumer, Send, ProviderAccepts, ProviderRefuses, ProviderUnclear,
        Unresolved, Attempted, eventVars, queueVars, callVars
<1>7. Told'
    BY SMTT(20) DEF TypeOK, Row, Terminal, Normalized, Told, SentIsAccepted, Begun, OneText,
        DurablePayload, ConsumerCall, IdleConsumer, Send, ProviderAccepts,
        ProviderRefuses, ProviderUnclear, Unresolved, Attempted, eventVars, queueVars,
        callVars
<1> QED
    BY <1>3, <1>4, <1>5, <1>6, <1>7

\* Only the attempt that owns the row records its result.
LEMMA FinishAttemptKeeps ==
    ASSUME IInv, NEW c \in Consumer, FinishAttempt(c)
    PROVE  IInv'
<1> USE NoneAssumption DEF IInv
<1>1. row' \in Row
    BY ZenonT(60), HeldText DEF FinishAttempt, Finished, TypeOK, Row, Status, Normalized,
        ConsumerCall, Result, Told
<1>2. cons' \in [Consumer -> ConsumerCall]
    BY AckType, RetryType, HeldText DEF FinishAttempt
<1>3. queue' \in [Copy -> Nat] /\ dead' \in BOOLEAN
    BY AckType, RetryType, HeldText DEF FinishAttempt
<1>4. TypeOK'
    BY <1>1, <1>2, <1>3 DEF TypeOK, FinishAttempt, Finished, Retry, Ack, worldVars,
        eventVars, queueVars, callVars
<1>5. Begun'
    <2>1. /\ row'.hash = row.hash /\ row'.attempts = row.attempts
          /\ row' = row \/ (row'.status = cons[c].result
                            /\ row'.known = (row.known \/ cons[c].result = "sent"))
        BY DEF FinishAttempt, Finished, TypeOK, Row
    <2>2. \A d \in Consumer : cons'[d] = cons[d] \/ cons'[d].phase = "idle"
        BY DEF FinishAttempt, Retry, Ack, IdleConsumer, TypeOK
    <2>3. row.status # "none" /\ cons[c].payload = row.hash /\ cons[c].result # "none"
        BY HeldText DEF FinishAttempt, Told
    <2> QED
        BY <2>1, <2>3 DEF Begun
<1>6. OneText'
    BY DEF TypeOK, Row, OneText, DurablePayload, Begun, ConsumerCall, IdleConsumer,
        FinishAttempt, Finished, Retry, Ack, worldVars, eventVars, queueVars, callVars
<1>7. Fenced'
    BY DEF TypeOK, Row, Fenced, AttemptsAreFenced, Attempting, Begun, ConsumerCall,
        IdleConsumer, FinishAttempt, Finished, Retry, Ack, worldVars, eventVars,
        queueVars, callVars
<1>8. Told'
    <2>1. /\ row'.hash = row.hash /\ row'.attempts = row.attempts
          /\ row' = row \/ (row'.status = cons[c].result
                            /\ row'.known = (row.known \/ cons[c].result = "sent"))
        BY DEF FinishAttempt, Finished, TypeOK, Row
    <2>2. \A d \in Consumer : cons'[d] = cons[d] \/ cons'[d].phase = "idle"
        BY DEF FinishAttempt, Retry, Ack, IdleConsumer, TypeOK
    <2>3. row.status # "none" /\ cons[c].payload = row.hash /\ cons[c].result # "none"
        BY HeldText DEF FinishAttempt, Told
    <2>4. cons[c].result = "sent" => accepted = row.hash /\ row.hash # "none"
        BY <2>3, HeldText DEF FinishAttempt, Told
    <2>5. cons[c].result \notin {"bounced", "complained"}
        BY DEF TypeOK, ConsumerCall, Result
    <2> QED
        BY <2>1, <2>2, <2>3, <2>4, <2>5 DEF FinishAttempt, Told, SentIsAccepted,
            callVars, worldVars
<1> QED
    BY <1>4, <1>5, <1>6, <1>7, <1>8

\* A consumer dies and its copy is retried.
LEMMA ConsumerEndsKeeps ==
    ASSUME IInv, NEW c \in Consumer, ConsumerEnds(c)
    PROVE  IInv'
<1> USE NoneAssumption DEF IInv
<1>1. cons' \in [Consumer -> ConsumerCall]
    BY RetryType, HeldText DEF ConsumerEnds
<1>2. queue' \in [Copy -> Nat] /\ dead' \in BOOLEAN
    BY RetryType, HeldText DEF ConsumerEnds
<1>3. /\ accepted' \in Payload \cup {"none"} /\ config' \in Config
      /\ clock' \in {"before", "near", "after"} /\ aged' \in BOOLEAN
      /\ replays' \in 0..MaxReplays /\ ends' \in 0..MaxEnds
      /\ deploys' \in 0..MaxDeploys
    BY LimitAssumption DEF ConsumerEnds, AnInvocationEnds, Retry, TypeOK, Config,
        ConsumerCall
<1>4. TypeOK'
    BY <1>1, <1>2, <1>3 DEF TypeOK, ConsumerEnds, AnInvocationEnds, Retry, eventVars,
        queueVars, callVars
<1>5. Begun'
    BY DEF TypeOK, Row, Terminal, Normalized, Begun, ConsumerCall, IdleConsumer,
        ConsumerEnds, AnInvocationEnds, Retry, eventVars, queueVars, callVars
<1>6. OneText'
    BY DEF TypeOK, Row, OneText, DurablePayload, Begun, ConsumerCall, IdleConsumer,
        ConsumerEnds, AnInvocationEnds, Retry, eventVars, queueVars, callVars
<1>7. Fenced'
    BY DEF TypeOK, Row, Fenced, AttemptsAreFenced, Attempting, Begun, ConsumerCall,
        IdleConsumer, ConsumerEnds, AnInvocationEnds, Retry, eventVars, queueVars,
        callVars
<1>8. Told'
    BY DEF TypeOK, Row, Terminal, Normalized, Told, SentIsAccepted, Begun, OneText,
        DurablePayload, ConsumerCall, IdleConsumer, ConsumerEnds, AnInvocationEnds,
        Retry, eventVars, queueVars, callVars
<1> QED
    BY <1>4, <1>5, <1>6, <1>7, <1>8

\* A webhook call reads a row whose provider id is known.
LEMMA HookCalledKeeps ==
    ASSUME IInv, NEW h \in Hook, NEW e \in Event, HookCalled(h, e)
    PROVE  IInv'
<1> USE NoneAssumption DEF IInv
<1>1. hook' \in [Hook -> HookCall]
    BY EventAssumption DEF HookCalled, NextStatus, TypeOK, HookCall, Normalized,
        IdleHook
<1>2. TypeOK'
    BY <1>1 DEF TypeOK, HookCalled, NextStatus, worldVars, eventVars, queueVars,
        callVars
<1>3. Begun'
    BY DEF TypeOK, Row, Terminal, Normalized, Begun, HookCall, IdleHook, HookCalled,
        NextStatus, worldVars, eventVars, queueVars, callVars
<1>4. OneText'
    BY DEF TypeOK, Row, OneText, DurablePayload, Begun, HookCall, IdleHook,
        HookCalled, NextStatus, worldVars, eventVars, queueVars, callVars
<1>5. Fenced'
    BY DEF TypeOK, Row, Fenced, AttemptsAreFenced, Attempting, Begun, HookCall,
        IdleHook, HookCalled, NextStatus, worldVars, eventVars, queueVars, callVars
<1>6. Told'
    BY DEF TypeOK, Row, Terminal, Normalized, Told, SentIsAccepted, Begun, OneText,
        DurablePayload, HookCall, IdleHook, HookCalled, NextStatus, worldVars,
        eventVars, queueVars, callVars
<1> QED
    BY <1>2, <1>3, <1>4, <1>5, <1>6

\* An event moves the status, nothing the invariant rests on.
LEMMA HookApplyKeeps ==
    ASSUME IInv, NEW h \in Hook, HookApply(h)
    PROVE  IInv'
<1> USE NoneAssumption DEF IInv
<1>1. row' \in Row
    <2> DEFINE b == row.payload /\ hook[h].next = "failed"
               t == TimeOf[hook[h].event]
               next == hook[h].next
    <2>1. row' = row \/ (next # "none" /\ row' =
              [row EXCEPT !.status = next, !.eventTime = t, !.payload = b])
        BY DEF HookApply
    <2>2. next \in Normalized \cup {"none"} /\ row \in Row
        BY DEF TypeOK, HookCall
    <2>3. t \in Nat
        BY EventAssumption DEF Told, HookApply
    <2>4. b \in BOOLEAN
        OBVIOUS
    <2> HIDE DEF b, t, next
    <2> QED
        BY ZenonT(60), <2>1, <2>2, <2>3, <2>4 DEF Row, Status
<1>2. hook' \in [Hook -> HookCall]
    BY EventAssumption DEF HookApply, SuppressedBy, ReasonOf, TypeOK, HookCall,
        Normalized, IdleHook
<1>3. supp' \in Reason /\ applied' \subseteq Event
    <2> DEFINE e == hook[h].event
    <2>1. e \in Event /\ KindOf[e] \in Normalized
        BY EventAssumption DEF Told, HookApply
    <2>2. KindOf[e] \in DOMAIN ReasonOf => ReasonOf[KindOf[e]] \in Reason
        BY DEF ReasonOf, Reason
    <2>3. SuppressedBy(e) \in Reason
        BY <2>2 DEF SuppressedBy, TypeOK
    <2>4. \/ supp' = supp /\ applied' = applied
          \/ supp' = SuppressedBy(e) /\ applied' = applied \cup {e}
        BY DEF HookApply
    <2> QED
        BY <2>1, <2>3, <2>4 DEF TypeOK
<1>4. TypeOK'
    BY <1>1, <1>2, <1>3 DEF TypeOK, HookApply, SuppressedBy, ReasonOf, worldVars,
        eventVars, queueVars, callVars
<1>5. Begun'
    BY ZenonT(60) DEF TypeOK, Row, Terminal, Normalized, Begun, HookCall, IdleHook, HookApply,
        SuppressedBy, ReasonOf, worldVars, eventVars, queueVars, callVars
<1>6. OneText'
    <2>1. row'.hash = row.hash
        BY DEF HookApply, TypeOK, Row
    <2> QED
        BY <2>1 DEF HookApply, OneText, DurablePayload, queueVars, worldVars
<1>7. Fenced'
    BY DEF TypeOK, Row, Fenced, AttemptsAreFenced, Attempting, Begun, HookCall,
        IdleHook, HookApply, SuppressedBy, ReasonOf, worldVars, eventVars, queueVars,
        callVars
<1>8. Told'
    BY ZenonT(60) DEF TypeOK, Row, Terminal, Normalized, Told, SentIsAccepted, Begun, OneText,
        DurablePayload, HookCall, IdleHook, HookApply, SuppressedBy, ReasonOf,
        worldVars, eventVars, queueVars, callVars
<1> QED
    BY <1>4, <1>5, <1>6, <1>7, <1>8

\* A handoff lease runs out.
LEMMA HandoffLapsesKeeps ==
    ASSUME IInv, HandoffLapses
    PROVE  IInv'
<1> USE NoneAssumption DEF IInv
<1>1. row' \in Row
    BY DEF HandoffLapses, TypeOK, Row, Status, Mode, Normalized, NoRow, ProducerCall,
        ConsumerCall, HookCall, Result
<1>2. TypeOK'
    BY <1>1 DEF TypeOK, HandoffLapses, worldVars, eventVars, queueVars, callVars
<1>3. Begun'
    BY DEF TypeOK, Row, Terminal, Normalized, Begun, HandoffLapses, worldVars,
        eventVars, queueVars, callVars
<1>4. OneText'
    BY DEF TypeOK, Row, OneText, DurablePayload, Begun, HandoffLapses, worldVars,
        eventVars, queueVars, callVars
<1>5. Fenced'
    BY DEF TypeOK, Row, Fenced, AttemptsAreFenced, Attempting, Begun, HandoffLapses,
        worldVars, eventVars, queueVars, callVars
<1>6. Told'
    BY DEF TypeOK, Row, Terminal, Normalized, Told, SentIsAccepted, Begun, OneText,
        DurablePayload, HandoffLapses, worldVars, eventVars, queueVars, callVars
<1> QED
    BY <1>2, <1>3, <1>4, <1>5, <1>6

\* A provider lease runs out.
LEMMA LeaseLapsesKeeps ==
    ASSUME IInv, LeaseLapses
    PROVE  IInv'
<1> USE NoneAssumption DEF IInv
<1>1. row' \in Row
    BY DEF LeaseLapses, TypeOK, Row, Status, Mode, Normalized, NoRow, ProducerCall,
        ConsumerCall, HookCall, Result
<1>2. TypeOK'
    BY <1>1 DEF TypeOK, LeaseLapses, worldVars, eventVars, queueVars, callVars
<1>3. Begun'
    BY DEF TypeOK, Row, Terminal, Normalized, Begun, LeaseLapses, worldVars,
        eventVars, queueVars, callVars
<1>4. OneText'
    BY DEF TypeOK, Row, OneText, DurablePayload, Begun, LeaseLapses, worldVars,
        eventVars, queueVars, callVars
<1>5. Fenced'
    BY DEF TypeOK, Row, Fenced, AttemptsAreFenced, Attempting, Begun, LeaseLapses,
        worldVars, eventVars, queueVars, callVars
<1>6. Told'
    BY DEF TypeOK, Row, Terminal, Normalized, Told, SentIsAccepted, Begun, OneText,
        DurablePayload, LeaseLapses, worldVars, eventVars, queueVars, callVars
<1> QED
    BY <1>2, <1>3, <1>4, <1>5, <1>6

\* The scheduled time comes.
LEMMA ScheduleNearsKeeps ==
    ASSUME IInv, ScheduleNears
    PROVE  IInv'
<1> USE NoneAssumption DEF IInv
<1>1. /\ accepted' \in Payload \cup {"none"} /\ config' \in Config
      /\ clock' \in {"before", "near", "after"} /\ aged' \in BOOLEAN
      /\ replays' \in 0..MaxReplays /\ ends' \in 0..MaxEnds
      /\ deploys' \in 0..MaxDeploys
    BY LimitAssumption DEF ScheduleNears, TypeOK, Config, ConsumerCall
<1>2. TypeOK'
    BY <1>1 DEF TypeOK, ScheduleNears, eventVars, queueVars, callVars
<1>3. Begun'
    BY DEF TypeOK, Row, Terminal, Normalized, Begun, ScheduleNears, eventVars,
        queueVars, callVars
<1>4. OneText'
    BY DEF TypeOK, Row, OneText, DurablePayload, Begun, ScheduleNears, eventVars,
        queueVars, callVars
<1>5. Fenced'
    BY DEF TypeOK, Row, Fenced, AttemptsAreFenced, Attempting, Begun, ScheduleNears,
        eventVars, queueVars, callVars
<1>6. Told'
    BY DEF TypeOK, Row, Terminal, Normalized, Told, SentIsAccepted, Begun, OneText,
        DurablePayload, ScheduleNears, eventVars, queueVars, callVars
<1> QED
    BY <1>2, <1>3, <1>4, <1>5, <1>6

\* A deployment changes the configuration.
LEMMA DeployKeeps ==
    ASSUME IInv, NEW d \in LaterConfigs, Deploy(d)
    PROVE  IInv'
<1> USE NoneAssumption DEF IInv
<1>1. /\ accepted' \in Payload \cup {"none"} /\ config' \in Config
      /\ clock' \in {"before", "near", "after"} /\ aged' \in BOOLEAN
      /\ replays' \in 0..MaxReplays /\ ends' \in 0..MaxEnds
      /\ deploys' \in 0..MaxDeploys
    BY LimitAssumption, ConfigAssumption DEF Deploy, TypeOK, Config, ConsumerCall
<1>2. TypeOK'
    BY <1>1 DEF TypeOK, Deploy, eventVars, queueVars, callVars
<1>3. Begun'
    BY DEF TypeOK, Row, Terminal, Normalized, Begun, Deploy, eventVars, queueVars,
        callVars
<1>4. OneText'
    BY DEF TypeOK, Row, OneText, DurablePayload, Begun, Deploy, eventVars, queueVars,
        callVars
<1>5. Fenced'
    BY DEF TypeOK, Row, Fenced, AttemptsAreFenced, Attempting, Begun, Deploy,
        eventVars, queueVars, callVars
<1>6. Told'
    BY DEF TypeOK, Row, Terminal, Normalized, Told, SentIsAccepted, Begun, OneText,
        DurablePayload, Deploy, eventVars, queueVars, callVars
<1> QED
    BY <1>2, <1>3, <1>4, <1>5, <1>6

\* The recipient is suppressed by hand.
LEMMA ManualSuppressionKeeps ==
    ASSUME IInv, ManualSuppression
    PROVE  IInv'
<1> USE NoneAssumption DEF IInv
<1>1. supp' \in Reason /\ applied' \subseteq Event
    BY DEF ManualSuppression, TypeOK, Reason, HookCall, ReasonOf
<1>2. TypeOK'
    BY <1>1 DEF TypeOK, ManualSuppression, worldVars, eventVars, queueVars, callVars
<1>3. Begun'
    BY DEF TypeOK, Row, Terminal, Normalized, Begun, ManualSuppression, worldVars,
        eventVars, queueVars, callVars
<1>4. OneText'
    BY DEF TypeOK, Row, OneText, DurablePayload, Begun, ManualSuppression, worldVars,
        eventVars, queueVars, callVars
<1>5. Fenced'
    BY DEF TypeOK, Row, Fenced, AttemptsAreFenced, Attempting, Begun,
        ManualSuppression, worldVars, eventVars, queueVars, callVars
<1>6. Told'
    BY DEF TypeOK, Row, Terminal, Normalized, Told, SentIsAccepted, Begun, OneText,
        DurablePayload, ManualSuppression, worldVars, eventVars, queueVars, callVars
<1> QED
    BY <1>2, <1>3, <1>4, <1>5, <1>6

\* The retention runs out.
LEMMA MonthPassesKeeps ==
    ASSUME IInv, MonthPasses
    PROVE  IInv'
<1> USE NoneAssumption DEF IInv
<1>1. /\ accepted' \in Payload \cup {"none"} /\ config' \in Config
      /\ clock' \in {"before", "near", "after"} /\ aged' \in BOOLEAN
      /\ replays' \in 0..MaxReplays /\ ends' \in 0..MaxEnds
      /\ deploys' \in 0..MaxDeploys
    BY LimitAssumption DEF MonthPasses, TypeOK, Config, ConsumerCall
<1>2. TypeOK'
    BY <1>1 DEF TypeOK, MonthPasses, eventVars, queueVars, callVars
<1>3. Begun'
    BY DEF TypeOK, Row, Terminal, Normalized, Begun, MonthPasses, eventVars,
        queueVars, callVars
<1>4. OneText'
    BY DEF TypeOK, Row, OneText, DurablePayload, Begun, MonthPasses, eventVars,
        queueVars, callVars
<1>5. Fenced'
    BY DEF TypeOK, Row, Fenced, AttemptsAreFenced, Attempting, Begun, MonthPasses,
        eventVars, queueVars, callVars
<1>6. Told'
    BY DEF TypeOK, Row, Terminal, Normalized, Told, SentIsAccepted, Begun, OneText,
        DurablePayload, MonthPasses, eventVars, queueVars, callVars
<1> QED
    BY <1>2, <1>3, <1>4, <1>5, <1>6

\* The daily prune fails unsent rows and drops envelopes.
LEMMA PruneKeeps ==
    ASSUME IInv, Prune
    PROVE  IInv'
<1> USE NoneAssumption DEF IInv
<1>1. row' \in Row
    BY DEF Prune, HandedOff, TypeOK, Row, Status, Mode, Normalized, NoRow,
        ProducerCall, ConsumerCall, HookCall, Result
<1>2. TypeOK'
    BY <1>1 DEF TypeOK, Prune, HandedOff, worldVars, eventVars, queueVars, callVars
<1>3. Begun'
    BY DEF TypeOK, Row, Terminal, Normalized, Begun, Prune, HandedOff, worldVars,
        eventVars, queueVars, callVars
<1>4. OneText'
    BY DEF TypeOK, Row, OneText, DurablePayload, Begun, Prune, HandedOff, worldVars,
        eventVars, queueVars, callVars
<1>5. Fenced'
    BY DEF TypeOK, Row, Fenced, AttemptsAreFenced, Attempting, Begun, Prune,
        HandedOff, worldVars, eventVars, queueVars, callVars
<1>6. Told'
    BY DEF TypeOK, Row, Terminal, Normalized, Told, SentIsAccepted, Begun, OneText,
        DurablePayload, Prune, HandedOff, worldVars, eventVars, queueVars, callVars
<1> QED
    BY <1>2, <1>3, <1>4, <1>5, <1>6

-----------------------------------------------------------------------------
(* The invariant *)

LEMMA InitInv == Init => IInv
<1> SUFFICES ASSUME Init PROVE IInv
    OBVIOUS
<1> USE DEF Init
<1>1. TypeOK
    <2>1. /\ queue \in [Copy -> Nat] /\ prod \in [Producer -> ProducerCall]
          /\ cons \in [Consumer -> ConsumerCall] /\ hook \in [Hook -> HookCall]
          /\ row \in Row
        BY IdleTypes
    <2>2. 0 \in 0..MaxReplays /\ 0 \in 0..MaxEnds /\ 0 \in 0..MaxDeploys
        BY LimitAssumption
    <2> QED
        BY <2>1, <2>2, ConfigAssumption DEF TypeOK, Reason
<1>2. Begun
    BY DEF Begun, NoRow, IdleProducer, IdleConsumer, IdleHook
<1>3. OneText
    BY DEF OneText, DurablePayload, IdleProducer, IdleConsumer
<1>4. Fenced
    BY DEF Fenced, AttemptsAreFenced, Attempting, IdleConsumer
<1>5. Told
    BY DEF Told, SentIsAccepted, NoRow, IdleConsumer, IdleHook
<1> QED
    BY <1>1, <1>2, <1>3, <1>4, <1>5 DEF IInv

LEMMA StutterKeeps == IInv /\ UNCHANGED vars => IInv'
<1> SUFFICES ASSUME IInv, UNCHANGED vars PROVE IInv'
    OBVIOUS
<1> USE DEF IInv, vars, eventVars, queueVars, callVars, worldVars
<1>1. TypeOK'
    BY DEF TypeOK
<1>2. Begun'
    BY DEF Begun
<1>3. OneText'
    BY DEF OneText, DurablePayload
<1>4. Fenced'
    BY DEF Fenced, AttemptsAreFenced, Attempting
<1>5. Told'
    BY DEF Told, SentIsAccepted
<1> QED
    BY <1>1, <1>2, <1>3, <1>4, <1>5

\* Every step of a coordinator call keeps the invariant.
LEMMA ProducerKeeps ==
    ASSUME IInv, NEW p \in Producer,
           \/ \E x \in Payload : EnqueueCalled(p, x)
           \/ DrainSelects(p) \/ ReplayCalled(p)
           \/ ProducerStep(p) \/ QueueSendFails(p) \/ ProducerEnds(p)
    PROVE  IInv'
<1>1. CASE \E x \in Payload : EnqueueCalled(p, x)
    BY <1>1, EnqueueCalledKeeps
<1>2. CASE DrainSelects(p) \/ ReplayCalled(p)
    BY <1>2, DrainSelectsKeeps, ReplayCalledKeeps
<1>3. CASE ProducerStep(p)
    BY <1>3, InsertKeeps, FindExistingKeeps, SuppressQueuedKeeps, ClaimHandoffKeeps,
        HandoffPendingKeeps, QueueSendKeeps, ConfirmSentKeeps, ReleaseHandoffKeeps,
        SuppressFailedKeeps, ResetFailedKeeps DEF ProducerStep
<1>4. CASE QueueSendFails(p) \/ ProducerEnds(p)
    BY <1>4, QueueSendFailsKeeps, ProducerEndsKeeps
<1> QED
    BY <1>1, <1>2, <1>3, <1>4

\* Every step of a queue consumer does.
LEMMA ConsumerKeeps ==
    ASSUME IInv, NEW c \in Consumer, ConsumerStep(c) \/ ConsumerEnds(c)
    PROVE  IInv'
BY DeliverKeeps, ReadMessageKeeps, GiveBackEarlyKeeps, ConfirmHandoffKeeps,
    FailBeforeAttemptKeeps, ClaimKeeps, CheckRecipientKeeps, SendKeeps,
    FinishAttemptKeeps, ConsumerEndsKeeps DEF ConsumerStep

\* So does every step of a webhook call, the clock or an operator.
LEMMA OthersKeep ==
    ASSUME IInv, (\E h \in Hook : HookStep(h)) \/ Environment
    PROVE  IInv'
<1>1. CASE \E h \in Hook : HookStep(h)
    BY <1>1, HookCalledKeeps, HookApplyKeeps DEF HookStep
<1>2. CASE Environment
    BY <1>2, HandoffLapsesKeeps, LeaseLapsesKeeps, ScheduleNearsKeeps, DeployKeeps,
        ManualSuppressionKeeps, MonthPassesKeeps, PruneKeeps, ConfigAssumption DEF
        Environment
<1> QED
    BY <1>1, <1>2

\* The invariant holds throughout: the facts below are parts of it.
THEOREM EmailInvariant == Spec => []IInv
<1>1. IInv /\ [Next]_vars => IInv'
    <2> SUFFICES ASSUME IInv, [Next]_vars PROVE IInv'
        OBVIOUS
    <2>1. CASE Next
        BY <2>1, ProducerKeeps, ConsumerKeeps, OthersKeep DEF Next
    <2>2. CASE UNCHANGED vars
        BY <2>2, StutterKeeps
    <2> QED
        BY <2>1, <2>2
<1> QED
    BY InitInv, <1>1, PTL DEF Spec

\* The row, the queue and every call stay within the values the code can give
\* them, whatever calls, retries and deployments there are.
THEOREM EmailTypeCorrect == Spec => []TypeOK
<1>1. IInv => TypeOK
    BY DEF IInv
<1> QED
    BY EmailInvariant, <1>1, PTL

\* Every copy and everything Resend accepts is the text the first enqueue of the
\* key stored: a later call that carries another text never gets it out.
THEOREM TextIsDurable == Spec => []DurablePayload
<1>1. IInv => DurablePayload
    BY DEF IInv, OneText
<1> QED
    BY EmailInvariant, <1>1, PTL

\* However many consumers overlap on one row, no two hold the same attempt
\* number, so only the one that claimed last can record its result.
THEOREM AttemptsFenced == Spec => []AttemptsAreFenced
<1>1. IInv => AttemptsAreFenced
    BY DEF IInv, Fenced
<1> QED
    BY EmailInvariant, <1>1, PTL

\* No row says "sent", and no provider id is recorded, unless Resend accepted
\* that very text.
THEOREM SentWasAccepted == Spec => []SentIsAccepted
<1>1. IInv => SentIsAccepted
    BY DEF IInv, Told
<1> QED
    BY EmailInvariant, <1>1, PTL

-----------------------------------------------------------------------------
(* The suppression                                                         *)

\* Nothing else touches email_suppressions and email_provider_events.
LEMMA EventsMove ==
    ASSUME [Next]_vars
    PROVE  UNCHANGED eventVars \/ ManualSuppression \/ \E h \in Hook : HookApply(h)
<1> USE DEF eventVars
<1>1. CASE UNCHANGED vars
    BY <1>1 DEF vars
<1>2. ASSUME NEW p \in Producer,
             \/ \E x \in Payload : EnqueueCalled(p, x)
             \/ DrainSelects(p) \/ ReplayCalled(p)
             \/ QueueSendFails(p) \/ ProducerEnds(p)
      PROVE  UNCHANGED eventVars
    BY <1>2 DEF EnqueueCalled, DrainSelects, ReplayCalled, Begin, QueueSendFails, ProducerEnds
<1>3. ASSUME NEW p \in Producer, ProducerStep(p) PROVE UNCHANGED eventVars
    BY <1>3 DEF ProducerStep, Insert, FindExisting, SuppressQueued, ClaimHandoff,
        HandoffPending, QueueSend, ConfirmSent, ReleaseHandoff, SuppressFailed, ResetFailed
<1>4. ASSUME NEW c \in Consumer, ConsumerStep(c) \/ ConsumerEnds(c) PROVE UNCHANGED eventVars
    BY <1>4 DEF ConsumerStep, ConsumerEnds, Deliver, ReadMessage, GiveBackEarly, ConfirmHandoff,
        FailBeforeAttempt, Claim, CheckRecipient, Send, FinishAttempt
<1>5. ASSUME NEW h \in Hook, HookStep(h) PROVE UNCHANGED eventVars \/ HookApply(h)
    BY <1>5 DEF HookStep, HookCalled
<1>6. ASSUME Environment PROVE UNCHANGED eventVars \/ ManualSuppression
    BY <1>6 DEF Environment, HandoffLapses, LeaseLapses, ScheduleNears, Deploy, MonthPasses,
        Prune
<1> QED
    BY <1>1, <1>2, <1>3, <1>4, <1>5, <1>6 DEF Next

LEMMA Reasons ==
    /\ DOMAIN ReasonOf = {"complained", "suppressed", "bounced"}
    /\ \A k \in DOMAIN ReasonOf :
            /\ ReasonOf[k] \in {"bounced", "provider_suppressed", "complained"}
    /\ \A r \in Reason : Strength[r] \in Nat /\ (r # "manual" => Strength[r] < Strength["manual"])
    /\ \A r \in Reason : r # "none" => Strength[r] > Strength["none"]
BY DEF ReasonOf, Strength, Reason

\* An event raises the suppression to its own reason, or finds a stronger one.
LEMMA AppliedKeeps ==
    ASSUME IInv, SuppressionIsStrongest, NEW h \in Hook, HookApply(h)
    PROVE  SuppressionIsStrongest'
<1> DEFINE e == hook[h].event
<1>1. e \in Event /\ KindOf[e] \in Normalized /\ supp \in Reason /\ applied \subseteq Event
    BY EventAssumption DEF IInv, Told, TypeOK, HookApply
<1>2. \/ supp' = supp /\ applied' = applied
      \/ supp' = SuppressedBy(e) /\ applied' = applied \cup {e}
    BY DEF HookApply
<1> HIDE DEF e
<1>3. CASE supp' = supp /\ applied' = applied
    BY <1>3 DEF SuppressionIsStrongest
<1>4. CASE supp' = SuppressedBy(e) /\ applied' = applied \cup {e}
    <2> SUFFICES ASSUME supp' # "manual"
                 PROVE  /\ \A f \in applied' : KindOf[f] \in DOMAIN ReasonOf =>
                                Strength[ReasonOf[KindOf[f]]] <= Strength[supp']
                        /\ supp' = "none" \/ \E f \in applied' :
                                KindOf[f] \in DOMAIN ReasonOf /\ ReasonOf[KindOf[f]] = supp'
        BY DEF SuppressionIsStrongest
    <2>1. supp # "manual"
        BY <1>1, <1>4, Reasons DEF SuppressedBy, Reason
    <2>2. /\ \A f \in applied : KindOf[f] \in DOMAIN ReasonOf =>
                    Strength[ReasonOf[KindOf[f]]] <= Strength[supp]
          /\ supp = "none" \/ \E f \in applied :
                    KindOf[f] \in DOMAIN ReasonOf /\ ReasonOf[KindOf[f]] = supp
        BY <2>1 DEF SuppressionIsStrongest
    <2>3. \A f \in Event : KindOf[f] \in DOMAIN ReasonOf => ReasonOf[KindOf[f]] \in Reason
        BY Reasons DEF Reason
    <2>4. \A r \in Reason : Strength[r] \in Nat
        BY Reasons
    <2>5. CASE KindOf[e] \in DOMAIN ReasonOf /\ Strength[ReasonOf[KindOf[e]]] >= Strength[supp]
        <3>1. supp' = ReasonOf[KindOf[e]]
            BY <1>4, <2>5 DEF SuppressedBy
        <3>2. \A f \in applied' : KindOf[f] \in DOMAIN ReasonOf =>
                    Strength[ReasonOf[KindOf[f]]] <= Strength[supp']
            BY <1>1, <1>4, <2>2, <2>3, <2>4, <2>5, <3>1
        <3> QED
            BY <1>4, <2>5, <3>1, <3>2
    <2>6. CASE ~(KindOf[e] \in DOMAIN ReasonOf /\ Strength[ReasonOf[KindOf[e]]] >= Strength[supp])
        <3>1. supp' = supp
            BY <1>4, <2>6 DEF SuppressedBy
        <3>2. KindOf[e] \in DOMAIN ReasonOf => Strength[ReasonOf[KindOf[e]]] <= Strength[supp]
            BY <1>1, <2>3, <2>4, <2>6
        <3> QED
            BY <1>4, <2>2, <3>1, <3>2
    <2> QED
        BY <2>5, <2>6
<1> QED
    BY <1>2, <1>3, <1>4

(***************************************************************************)
(* With any number of concurrent webhook calls and events, applied in any  *)
(* order, email_suppressions holds the strongest reason they gave: apply   *)
(* of email/webhook.ts compares strengths in the statement that writes.    *)
(***************************************************************************)
THEOREM SuppressionStrongest == Spec => []SuppressionIsStrongest
<1>1. Init => SuppressionIsStrongest
    BY DEF Init, SuppressionIsStrongest
<1>2. IInv /\ SuppressionIsStrongest /\ [Next]_vars => SuppressionIsStrongest'
    <2> SUFFICES ASSUME IInv, SuppressionIsStrongest, [Next]_vars
                 PROVE  SuppressionIsStrongest'
        OBVIOUS
    <2>1. CASE UNCHANGED eventVars
        BY <2>1 DEF eventVars, SuppressionIsStrongest
    <2>2. CASE ManualSuppression
        BY <2>2 DEF ManualSuppression, SuppressionIsStrongest
    <2>3. CASE \E h \in Hook : HookApply(h)
        BY <2>3, AppliedKeeps
    <2> QED
        BY <2>1, <2>2, <2>3, EventsMove
<1> QED
    BY <1>1, <1>2, EmailInvariant, PTL DEF Spec

-----------------------------------------------------------------------------
(* The row                                                                 *)

\* What a settled row rests on: it has no envelope that could be replayed, and a
\* replay under way is the only one, of a failure the provider never knew.
Settled ==
    replays < 2 =>
        /\ row.known => row.status \in Terminal /\ ~row.payload
        /\ \A p \in Producer : prod[p].phase = "resetting" =>
                /\ replays = 1 /\ row.status = "failed" /\ ~row.known
                /\ \A q \in Producer : prod[q].phase = "resetting" => q = p

\* A step that starts no replay.
LEMMA Stays ==
    ASSUME Settled, UNCHANGED replays,
           \A p \in Producer : prod'[p].phase = "resetting" => prod[p].phase = "resetting",
           replays < 2 =>
              /\ row'.known => row'.status \in Terminal /\ ~row'.payload
              /\ \A p \in Producer : prod'[p].phase = "resetting" =>
                    row'.status = "failed" /\ ~row'.known
    PROVE  Settled'
BY DEF Settled

\* A coordinator call goes on or ends, and resets nothing any more.
LEMMA CallGoes ==
    ASSUME TypeOK, NEW p \in Producer,
           Returns(p) \/ \E ph \in ProducerPhase \ {"resetting"} : Goes(p, ph)
    PROVE  /\ prod'[p].phase # "resetting"
           /\ \A q \in Producer : q # p => prod'[q] = prod[q]
BY DEF TypeOK, Returns, Goes, IdleProducer, ProducerCall

\* Clearing the handoff lease changes neither status, envelope nor provider id.
LEMMA HandedOffKeeps ==
    ASSUME TypeOK, NEW b \in BOOLEAN
    PROVE  /\ HandedOff(b).status = row.status /\ HandedOff(b).known = row.known
           /\ HandedOff(b).payload = row.payload
BY DEF TypeOK, HandedOff, Row

LEMMA RowStays ==
    ASSUME Settled, UNCHANGED <<row, replays>>,
           \A p \in Producer : prod'[p].phase = "resetting" => prod[p].phase = "resetting"
    PROVE  Settled'
BY Stays DEF Settled

LEMMA CallsStay ==
    ASSUME IInv, Settled, NEW p \in Producer,
           \/ \E x \in Payload : EnqueueCalled(p, x)
           \/ DrainSelects(p) \/ FindExisting(p) \/ HandoffPending(p) \/ QueueSend(p)
           \/ QueueSendFails(p) \/ ProducerEnds(p)
    PROVE  Settled'
<1>1. UNCHANGED <<row, replays>>
    BY DEF EnqueueCalled, DrainSelects, Begin, FindExisting, HandoffPending, QueueSend,
        QueueSendFails, ProducerEnds, AnInvocationEnds, worldVars
<1>2. prod \in [Producer -> ProducerCall]
    BY DEF IInv, TypeOK
<1>3. \A q \in Producer : prod'[q].phase = "resetting" => prod[q].phase = "resetting"
    <2>1. CASE (\E x \in Payload : EnqueueCalled(p, x)) \/ DrainSelects(p)
        BY <1>2, <2>1 DEF EnqueueCalled, DrainSelects, Begin
    <2>2. CASE FindExisting(p)
        <3>1. CASE Returns(p)
            BY <1>2, <3>1 DEF Returns, IdleProducer
        <3>2. CASE ~Returns(p)
            <4>1. PICK ph \in {"suppressing", "claiming"}, x \in Payload \cup {"none", row.hash} :
                    prod' = [prod EXCEPT ![p].phase = ph, ![p].payload = x]
                BY <1>2, <2>2, <3>2 DEF FindExisting, ProducerCall
            <4> QED
                BY <1>2, <4>1 DEF ProducerCall
        <3> QED
            BY <3>1, <3>2
    <2>3. CASE HandoffPending(p) \/ QueueSend(p) \/ QueueSendFails(p) \/ ProducerEnds(p)
        BY <1>2, <2>3 DEF HandoffPending, QueueSend, QueueSendFails, ProducerEnds, Returns, Goes,
            IdleProducer, ProducerCall
    <2> QED
        BY <2>1, <2>2, <2>3
<1> QED
    BY <1>1, <1>3, RowStays

\* A row that is inserted, handed off or suppressed is none the provider knows.
LEMMA HandoffsStay ==
    ASSUME IInv, Settled, NEW p \in Producer,
           \/ Insert(p) \/ SuppressQueued(p) \/ ClaimHandoff(p)
           \/ ConfirmSent(p) \/ ReleaseHandoff(p)
    PROVE  Settled'
<1>1. TypeOK /\ row \in Row /\ UNCHANGED replays
    BY DEF IInv, TypeOK, Insert, SuppressQueued, ClaimHandoff, ConfirmSent, ReleaseHandoff,
        worldVars
<1>2. \A q \in Producer : prod'[q].phase = "resetting" => prod[q].phase = "resetting"
    <2>1. Returns(p) \/ \E ph \in {"claiming", "queueing"} : Goes(p, ph)
        BY DEF Insert, SuppressQueued, ClaimHandoff, ConfirmSent, ReleaseHandoff
    <2> QED
        BY <1>1, <2>1, CallGoes DEF ProducerPhase
<1>3. CASE Insert(p)
    <2>1. row'.known = FALSE /\ row.status = "none"
        BY <1>3 DEF Insert, NoRow
    <2> QED
        BY <1>1, <1>2, <2>1, Stays DEF Settled
<1>4. CASE SuppressQueued(p) \/ ClaimHandoff(p)
    <2>1. row' = row \/ (row.status = "queued" /\ row'.known = row.known)
        BY <1>1, <1>4 DEF SuppressQueued, ClaimHandoff, MayClaimHandoff, AwaitsHandoff, Row
    <2>2. CASE row' = row
        BY <1>1, <1>2, <2>2, RowStays
    <2>3. CASE row.status = "queued" /\ row'.known = row.known
        BY <1>1, <1>2, <2>3, Stays DEF Settled, Terminal, Normalized
    <2> QED
        BY <2>1, <2>2, <2>3
<1>5. CASE ConfirmSent(p) \/ ReleaseHandoff(p)
    <2>1. row' = row \/ \E b \in BOOLEAN : row' = HandedOff(b)
        BY <1>1, <1>5 DEF ConfirmSent, ReleaseHandoff, Row
    <2>2. row'.status = row.status /\ row'.known = row.known /\ row'.payload = row.payload
        BY <1>1, <2>1, HandedOffKeeps
    <2> QED
        BY <1>1, <1>2, <2>2, Stays DEF Settled
<1> QED
    BY <1>3, <1>4, <1>5

\* The one replay.
LEMMA ReplaysStay ==
    ASSUME IInv, Settled, NEW p \in Producer,
           ReplayCalled(p) \/ SuppressFailed(p) \/ ResetFailed(p)
    PROVE  Settled'
<1>1. TypeOK /\ row \in Row /\ prod \in [Producer -> ProducerCall] /\ replays \in Nat
    BY DEF IInv, TypeOK
<1>2. CASE ReplayCalled(p)
    <2>1. /\ row.status = "failed" /\ row.payload /\ row' = row /\ replays' = replays + 1
          /\ \A q \in Producer : q # p => prod'[q] = prod[q]
        BY <1>1, <1>2 DEF ReplayCalled, Begin
    <2> SUFFICES ASSUME replays' < 2 PROVE Settled'
        BY DEF Settled
    <2>2. replays = 0
        BY <1>1, <2>1
    <2>3. ~row.known /\ \A q \in Producer : prod[q].phase # "resetting"
        BY <2>1, <2>2 DEF Settled
    <2> QED
        BY <2>1, <2>2, <2>3 DEF Settled
<1>3. CASE SuppressFailed(p) \/ ResetFailed(p)
    <2>1. /\ prod[p].phase = "resetting" /\ UNCHANGED replays
          /\ Returns(p) \/ Goes(p, "claiming")
        BY <1>3 DEF SuppressFailed, ResetFailed, worldVars
    <2>2. prod'[p].phase # "resetting" /\ \A q \in Producer : q # p => prod'[q] = prod[q]
        BY <1>1, <2>1, CallGoes DEF ProducerPhase
    <2>3. row'.known = row.known
        <3>1. HandedOff(FALSE).known = row.known /\ HandedOff(FALSE) \in Row
            BY <1>1, HandedOffKeeps, HandedOffType
        <3> QED
            BY <1>1, <1>3, <3>1 DEF SuppressFailed, ResetFailed, Row
    <2>4. replays < 2 => /\ ~row.known
                         /\ \A q \in Producer : prod'[q].phase # "resetting"
        BY <2>1, <2>2 DEF Settled
    <2> QED
        BY <2>1, <2>2, <2>3, <2>4, Stays
<1> QED
    BY <1>2, <1>3

\* A consumer only claims or records what no event has settled.
LEMMA ConsumersStay ==
    ASSUME IInv, Settled, NEW c \in Consumer, ConsumerStep(c) \/ ConsumerEnds(c)
    PROVE  Settled'
<1>1. TypeOK /\ row \in Row /\ UNCHANGED <<prod, replays>>
    BY DEF IInv, TypeOK, ConsumerStep, ConsumerEnds, Deliver, ReadMessage, GiveBackEarly,
        ConfirmHandoff, FailBeforeAttempt, Claim, CheckRecipient, Send, FinishAttempt,
        AnInvocationEnds, worldVars
<1>2. CASE UNCHANGED row
    BY <1>1, <1>2, RowStays
<1>3. CASE GiveBackEarly(c) \/ ConfirmHandoff(c)
    <2>1. row' = row \/ \E b \in BOOLEAN : row' = HandedOff(b)
        BY <1>3 DEF GiveBackEarly, ConfirmHandoff
    <2>2. row'.status = row.status /\ row'.known = row.known /\ row'.payload = row.payload
        BY <1>1, <2>1, HandedOffKeeps
    <2> QED
        BY <1>1, <2>2, Stays DEF Settled
<1>4. CASE FailBeforeAttempt(c) \/ Claim(c)
    <2>1. row' = row \/ (row.status \in {"queued", "sending"} /\ row'.known = row.known)
        BY <1>1, <1>4, ClaimEffect DEF FailBeforeAttempt, Claim, MayClaim, Row
    <2>2. CASE row.status \in {"queued", "sending"} /\ row'.known = row.known
        BY <1>1, <2>2, Stays DEF Settled, Terminal, Normalized
    <2> QED
        BY <1>2, <2>1, <2>2
<1>5. CASE FinishAttempt(c)
    <2>1. row' = row \/ (row.status = "sending" /\ row' = Finished(cons[c].result))
        BY <1>5 DEF FinishAttempt
    <2>2. CASE row.status = "sending" /\ row' = Finished(cons[c].result)
        <3>1. /\ row'.status = cons[c].result
              /\ row'.known = (row.known \/ cons[c].result = "sent")
              /\ row'.payload = (row.payload /\ cons[c].result \in {"queued", "failed"})
            BY <1>1, <2>2 DEF Finished, Row
        <3> QED
            BY <1>1, <2>2, <3>1, Stays DEF Settled, Terminal, Normalized
    <2> QED
        BY <1>2, <2>1, <2>2
<1>6. CASE \/ Deliver(c) \/ ReadMessage(c) \/ CheckRecipient(c) \/ Send(c) \/ ConsumerEnds(c)
    BY <1>2, <1>6 DEF Deliver, ReadMessage, CheckRecipient, Send, ConsumerEnds
<1> QED
    BY <1>3, <1>4, <1>5, <1>6 DEF ConsumerStep

\* An event moves a settled row to another settled status.
LEMMA OthersStay ==
    ASSUME IInv, Settled, (\E h \in Hook : HookStep(h)) \/ Environment
    PROVE  Settled'
<1>1. TypeOK /\ row \in Row /\ UNCHANGED <<prod, replays>>
    BY DEF IInv, TypeOK, HookStep, HookCalled, HookApply, Environment, HandoffLapses,
        LeaseLapses, ScheduleNears, Deploy, ManualSuppression, MonthPasses, Prune, worldVars,
        callVars
<1>2. CASE UNCHANGED row
    BY <1>1, <1>2, RowStays
<1>3. ASSUME NEW h \in Hook, HookApply(h) PROVE Settled'
    <2> DEFINE next == hook[h].next
               b == row.payload /\ next = "failed"
               t == TimeOf[hook[h].event]
    <2>1. \/ row' = row
          \/ next # "none" /\ row' = [row EXCEPT !.status = next, !.eventTime = t, !.payload = b]
        BY <1>3 DEF HookApply
    <2>2. row.known /\ next \in Normalized \cup {"none"}
        BY <1>3 DEF IInv, Told, TypeOK, HookCall, HookApply
    <2>3. b => row.payload
        OBVIOUS
    <2> HIDE DEF next, b, t
    <2>4. CASE row' = row
        BY <1>2, <2>4
    <2>5. CASE next # "none"
               /\ row' = [row EXCEPT !.status = next, !.eventTime = t, !.payload = b]
        <3>1. row'.status = next /\ row'.known = row.known /\ row'.payload = b
            BY <1>1, <2>5 DEF Row
        <3> QED
            BY <1>1, <2>2, <2>3, <2>5, <3>1, Stays DEF Settled, Terminal
    <2> QED
        BY <2>1, <2>4, <2>5
<1>4. CASE HandoffLapses \/ LeaseLapses
    <2>1. row'.status = row.status /\ row'.known = row.known /\ row'.payload = row.payload
        BY <1>1, <1>4 DEF HandoffLapses, LeaseLapses, Row
    <2> QED
        BY <1>1, <2>1, Stays DEF Settled
<1>5. CASE Prune
    <2>1. /\ row.payload /\ row'.known = row.known
          /\ row.status = "failed" => row'.status = "failed"
        BY <1>1, <1>5, HandedOffKeeps, HandedOffType DEF Prune, Row
    <2> QED
        BY <1>1, <2>1, Stays DEF Settled
<1>6. CASE \/ ScheduleNears \/ \E d \in LaterConfigs : Deploy(d)
           \/ ManualSuppression \/ MonthPasses \/ \E h \in Hook, e \in Event : HookCalled(h, e)
    BY <1>2, <1>6 DEF ScheduleNears, Deploy, ManualSuppression, MonthPasses, HookCalled
<1> QED
    BY <1>3, <1>4, <1>5, <1>6 DEF HookStep, Environment

\* What settles a row stays.
LEMMA SettledAlways == Spec => []Settled
<1>1. Init => Settled
    BY DEF Init, Settled, NoRow, IdleProducer
<1>2. IInv /\ Settled /\ [Next]_vars => Settled'
    <2> SUFFICES ASSUME IInv, Settled, [Next]_vars PROVE Settled'
        OBVIOUS
    <2>1. CASE UNCHANGED vars
        BY <2>1, RowStays DEF vars, callVars, worldVars
    <2>2. ASSUME NEW p \in Producer,
                 \/ \E x \in Payload : EnqueueCalled(p, x)
                 \/ DrainSelects(p) \/ ReplayCalled(p)
                 \/ ProducerStep(p) \/ QueueSendFails(p) \/ ProducerEnds(p)
          PROVE  Settled'
        BY <2>2, CallsStay, HandoffsStay, ReplaysStay DEF ProducerStep
    <2> QED
        BY <2>1, <2>2, ConsumersStay, OthersStay DEF Next
<1> QED
    BY <1>1, <1>2, EmailInvariant, PTL DEF Spec

(***************************************************************************)
(* Once the provider's id is on the row it is settled, unless replays of   *)
(* it overlap: no drain, consumer, lapsed lease or replay sends it again,  *)
(* and no provider event meets the lease of a row that is being sent.      *)
(***************************************************************************)
THEOREM KnownStaysSettled == Spec => []KnownIsSettled
<1>1. Settled => KnownIsSettled
    BY DEF Settled, KnownIsSettled
<1> QED
    BY <1>1, SettledAlways, PTL

-----------------------------------------------------------------------------
(* The copy of what is not settled: the invariant behind NotStranded       *)

\* Until the delivery mode changes, all that is under way was begun under it.
OneMode ==
    deploys = 0 =>
        /\ config = FirstConfig
        /\ row.status # "none" => row.mode = ModeOf(FirstConfig)
        /\ \A p \in Producer : prod[p].phase # "idle" => prod[p].mode = ModeOf(FirstConfig)
        /\ \A c \in Consumer : cons[c].phase # "idle" => cons[c].config = FirstConfig

\* A row that may still be sent, or replayed, keeps its envelope.
Enveloped ==
    replays < 2 /\ ~aged =>
        /\ row.status \in {"queued", "sending"} => row.payload
        /\ row.status = "failed" /\ ~row.known => row.payload

\* The latest attempt is under way only while the row says so, and its claim
\* confirmed the handoff.
Claimed ==
    /\ row.status = "sending" => row.handed
    /\ row.status # "sending" =>
        \A c \in Consumer : Attempting(c) => cons[c].attempt # row.attempts

\* A copy on its way to a claim, or to a refusal of what is still queued.
Unclaimed == {"reading", "early", "confirming", "refusing", "failing", "claiming"}
Carried == Waiting \/ \E c \in Consumer : cons[c].phase \in Unclaimed

\* The copy of the attempt the row is in, before or after its consumer died: no
\* consumer takes a second delivery to be early.
Resumable ==
    \/ \E k \in Copy : queue[k] > 0 /\ k.tries > 0
    \/ \E c \in Consumer :
        \/ cons[c].phase \in {"reading", "confirming", "claiming"} /\ cons[c].tries > 0
        \/ Attempting(c) /\ cons[c].attempt = row.attempts

\* A handoff that was confirmed, or that a call is about to confirm.
Handed ==
    row.handed \/ \E p \in Producer : prod[p].phase = "confirming" /\ row.handoff = p

\* A queued row that was handed off has its copy.
HandoffsCarried == row.status = "queued" /\ ~dead /\ Handed => Carried

\* So has a row that is being sent, while the mode was not changed.
AttemptsResumed == row.status = "sending" /\ ~dead /\ deploys = 0 => Resumable

-----------------------------------------------------------------------------
(* The row's fields, action by action                                      *)

\* Clearing the handoff lease changes nothing else but what it is told.
LEMMA HandedOffFields ==
    ASSUME TypeOK, NEW b \in BOOLEAN
    PROVE  /\ HandedOff(b) \in Row
           /\ HandedOff(b).handed = b /\ HandedOff(b).handoff = "none"
           /\ HandedOff(b).status = row.status /\ HandedOff(b).known = row.known
           /\ HandedOff(b).payload = row.payload /\ HandedOff(b).mode = row.mode
           /\ HandedOff(b).attempts = row.attempts
BY HandedOffType DEF TypeOK, HandedOff, Row

\* The insert.
LEMMA InsertFields ==
    ASSUME TypeOK, NEW p \in Producer, Insert(p)
    PROVE  /\ row.status = "none" /\ prod[p].phase = "inserting"
           /\ row'.status \in {"queued", "suppressed"}
           /\ row'.payload = (row'.status = "queued")
           /\ row'.mode = prod[p].mode /\ ~row'.handed /\ row'.handoff = "none"
           /\ row'.attempts = 0 /\ ~row'.known
BY DEF Insert, NoRow

\* A suppressed recipient settles a queued or a failed row.
LEMMA SuppressFields ==
    ASSUME TypeOK, NEW p \in Producer, SuppressQueued(p) \/ SuppressFailed(p)
    PROVE  \/ row' = row
           \/ /\ row.status \in {"queued", "failed"} /\ row'.status = "suppressed"
              /\ row'.mode = row.mode /\ row'.handed = row.handed
              /\ row'.attempts = row.attempts /\ row'.known = row.known
              /\ row'.handoff = row.handoff
BY DEF TypeOK, Row, SuppressQueued, SuppressFailed, AwaitsHandoff

\* The handoff lease.
LEMMA ClaimHandoffFields ==
    ASSUME TypeOK, NEW p \in Producer, ClaimHandoff(p)
    PROVE  /\ row.status = "queued" /\ row'.status = "queued" /\ row'.payload
           /\ row'.mode = prod[p].mode /\ ~row'.handed /\ row'.handoff = p
           /\ row'.attempts = row.attempts /\ row'.known = row.known
           /\ prod[p].phase = "claiming"
BY DEF TypeOK, Row, ClaimHandoff, MayClaimHandoff, AwaitsHandoff

\* A replay puts the row back.
LEMMA ResetFields ==
    ASSUME TypeOK, NEW p \in Producer, ResetFailed(p)
    PROVE  /\ prod[p].phase = "resetting"
           /\ \/ row' = row
              \/ /\ row.status = "failed" /\ row'.status = "queued"
                 /\ row'.mode = prod[p].mode /\ ~row'.handed /\ row'.handoff = "none"
                 /\ row'.payload = row.payload /\ row'.attempts = row.attempts
                 /\ row'.known = row.known
<1>1. CASE row.status = "failed"
    <2> DEFINE r == HandedOff(FALSE)
               m == prod[p].mode
    <2>1. row' = [r EXCEPT !.status = "queued", !.mode = m] /\ prod[p].phase = "resetting"
        BY <1>1 DEF ResetFailed
    <2>2. /\ r \in Row /\ ~r.handed /\ r.handoff = "none" /\ r.payload = row.payload
          /\ r.attempts = row.attempts /\ r.known = row.known
        BY HandedOffFields
    <2> HIDE DEF r, m
    <2>3. /\ row'.status = "queued" /\ row'.mode = m
          /\ row'.handed = r.handed /\ row'.handoff = r.handoff /\ row'.payload = r.payload
          /\ row'.attempts = r.attempts /\ row'.known = r.known
        BY <2>1, <2>2 DEF Row
    <2> QED
        BY <1>1, <2>1, <2>2, <2>3 DEF m
<1>2. CASE row.status # "failed"
    BY <1>2 DEF ResetFailed
<1> QED
    BY <1>1, <1>2

\* Refused before an attempt.
LEMMA FailFields ==
    ASSUME TypeOK, NEW c \in Consumer, FailBeforeAttempt(c)
    PROVE  \/ row' = row /\ row.status # "queued"
           \/ /\ row.status = "queued" /\ row'.status = "failed"
              /\ row'.mode = row.mode /\ row'.handed = row.handed
              /\ row'.payload = row.payload /\ row'.attempts = row.attempts
              /\ row'.known = row.known /\ row'.handoff = row.handoff
BY DEF TypeOK, Row, FailBeforeAttempt

\* A claim.
LEMMA ClaimFields ==
    ASSUME TypeOK, NEW c \in Consumer, Claim(c)
    PROVE  \/ row' = row /\ row.status # "queued" /\ Retry(c)
           \/ /\ row.status \in {"queued", "sending"} /\ row'.status = "sending"
              /\ row'.mode = row.mode /\ row'.handed /\ row'.payload = row.payload
              /\ row'.attempts = row.attempts + 1 /\ row'.known = row.known
              /\ cons'[c].phase = "checking" /\ cons'[c].attempt = row.attempts + 1
              /\ cons'[c].config = cons[c].config
<1>1. CASE MayClaim
    <2> DEFINE n == row.attempts + 1
               r == HandedOff(TRUE)
    <2>1. /\ row' = [r EXCEPT !.status = "sending", !.attempts = r.attempts + 1,
                              !.leaseOver = FALSE]
          /\ cons' = [cons EXCEPT ![c].phase = "checking", ![c].attempt = n]
        BY <1>1 DEF Claim
    <2>2. /\ r \in Row /\ r.handed /\ r.payload = row.payload /\ r.mode = row.mode
          /\ r.attempts = row.attempts /\ r.known = row.known
        BY HandedOffFields
    <2>3. row.status \in {"queued", "sending"}
        BY <1>1 DEF MayClaim
    <2>4. r.attempts + 1 = n
        BY <2>2
    <2> HIDE DEF n, r
    <2>5. /\ row'.status = "sending" /\ row'.attempts = n /\ row'.mode = r.mode
          /\ row'.handed = r.handed /\ row'.payload = r.payload /\ row'.known = r.known
        BY <2>1, <2>2, <2>4 DEF Row
    <2>6. /\ cons'[c].phase = "checking" /\ cons'[c].attempt = n
          /\ cons'[c].config = cons[c].config
        BY <2>1 DEF TypeOK, ConsumerCall
    <2> QED
        BY <2>2, <2>3, <2>5, <2>6 DEF n
<1>2. CASE ~MayClaim
    BY <1>2 DEF Claim, MayClaim
<1> QED
    BY <1>1, <1>2

\* The result of the attempt that owns the row.
LEMMA FinishFields ==
    ASSUME TypeOK, NEW c \in Consumer, FinishAttempt(c)
    PROVE  \/ row' = row /\ (row.status # "sending" \/ row.attempts # cons[c].attempt)
           \/ /\ row.status = "sending" /\ row.attempts = cons[c].attempt
              /\ row'.status = cons[c].result
              /\ row'.payload = (row.payload /\ cons[c].result \in {"queued", "failed"})
              /\ row'.known = (row.known \/ cons[c].result = "sent")
              /\ row'.mode = row.mode /\ row'.handed = row.handed
              /\ row'.attempts = row.attempts /\ row'.handoff = row.handoff
BY DEF TypeOK, Row, FinishAttempt, Finished

\* An event.
LEMMA ApplyFields ==
    ASSUME IInv, NEW h \in Hook, HookApply(h)
    PROVE  \/ row' = row
           \/ /\ row.status # "sending" /\ row.known /\ row'.known
              /\ row'.status \in Normalized /\ row'.mode = row.mode
              /\ row'.handed = row.handed /\ row'.attempts = row.attempts
              /\ row'.handoff = row.handoff
<1> DEFINE next == hook[h].next
           b == row.payload /\ next = "failed"
           t == TimeOf[hook[h].event]
<1>1. \/ row' = row
      \/ /\ next # "none" /\ row.status # "sending"
         /\ row' = [row EXCEPT !.status = next, !.eventTime = t, !.payload = b]
    BY DEF HookApply
<1>2. row.known /\ next \in Normalized \cup {"none"} /\ row \in Row
    BY DEF IInv, Told, TypeOK, HookCall, HookApply
<1> HIDE DEF next, b, t
<1> QED
    BY <1>1, <1>2 DEF Row

\* Leases lapse.
LEMMA LapseFields ==
    ASSUME TypeOK, HandoffLapses \/ LeaseLapses
    PROVE  /\ row'.status = row.status /\ row'.mode = row.mode /\ row'.handed = row.handed
           /\ row'.payload = row.payload /\ row'.attempts = row.attempts
           /\ row'.known = row.known /\ row'.handoff = row.handoff
BY DEF TypeOK, Row, HandoffLapses, LeaseLapses

\* The daily prune.
LEMMA PruneFields ==
    ASSUME TypeOK, Prune
    PROVE  /\ aged /\ row.status \in {"queued", "failed"}
           /\ row'.status = IF row.handed THEN row.status ELSE "failed"
           /\ row'.mode = row.mode /\ row'.handed = row.handed
           /\ row'.attempts = row.attempts /\ row'.known = row.known
           /\ row'.handoff = "none"
<1> DEFINE r == HandedOff(row.handed)
           s == IF row.handed THEN r.status ELSE "failed"
<1>1. row.handed \in BOOLEAN
    BY DEF TypeOK, Row
<1>2. /\ r \in Row /\ r.status = row.status /\ r.handed = row.handed /\ r.handoff = "none"
      /\ r.mode = row.mode /\ r.attempts = row.attempts /\ r.known = row.known
    BY <1>1, HandedOffFields
<1>3. row' = [r EXCEPT !.status = s, !.payload = FALSE]
    BY DEF Prune
<1>4. s = IF row.handed THEN row.status ELSE "failed"
    BY <1>2
<1> HIDE DEF r, s
<1>5. /\ row'.status = s /\ row'.mode = r.mode /\ row'.handed = r.handed
      /\ row'.attempts = r.attempts /\ row'.known = r.known /\ row'.handoff = r.handoff
    BY <1>2, <1>3 DEF Row
<1> QED
    BY <1>2, <1>4, <1>5 DEF Prune

\* Which actions of a producer leave the row alone.
LEMMA RowUntouched ==
    ASSUME NEW p \in Producer,
           \/ \E x \in Payload : EnqueueCalled(p, x)
           \/ DrainSelects(p) \/ ReplayCalled(p) \/ FindExisting(p) \/ HandoffPending(p)
           \/ QueueSend(p) \/ QueueSendFails(p) \/ ProducerEnds(p)
    PROVE  row' = row
BY DEF EnqueueCalled, DrainSelects, ReplayCalled, Begin, FindExisting, HandoffPending,
    QueueSend, QueueSendFails, ProducerEnds

\* A copy that is confirmed, released, given back or found handed off.
LEMMA HandoffFields ==
    ASSUME TypeOK, \/ \E p \in Producer : ConfirmSent(p) \/ ReleaseHandoff(p)
                   \/ \E c \in Consumer : GiveBackEarly(c) \/ ConfirmHandoff(c)
    PROVE  /\ row'.status = row.status /\ row'.mode = row.mode
           /\ row'.payload = row.payload /\ row'.attempts = row.attempts
           /\ row'.known = row.known
           /\ row' = row \/ row'.handoff = "none"
           /\ row'.status = "sending" /\ row.handed => row'.handed
<1>1. row \in Row /\ row.handed \in BOOLEAN
    BY DEF TypeOK, Row
<1>2. \/ row' = row
      \/ row' = HandedOff(TRUE)
      \/ row' = HandedOff(row.handed)
      \/ row' = HandedOff(FALSE) /\ row.status = "queued"
    BY DEF ConfirmSent, ReleaseHandoff, GiveBackEarly, ConfirmHandoff
<1> QED
    BY <1>1, <1>2, HandedOffFields

-----------------------------------------------------------------------------
(* Where a copy goes                                                       *)

\* A put leaves a copy waiting, and takes none away.
LEMMA PutLeaves ==
    ASSUME TypeOK, NEW x \in Payload, Put(x)
    PROVE  Waiting' /\ \A k \in Copy : queue[k] > 0 => queue'[k] > 0
<1> DEFINE k0 == [tries |-> 0, payload |-> x]
<1>1. k0 \in Copy
    BY LimitAssumption DEF Copy
<1>2. queue \in [Copy -> Nat] /\ queue' = [queue EXCEPT ![k0] = queue[k0] + 1]
    BY DEF TypeOK, Put
<1> HIDE DEF k0
<1>3. queue'[k0] > 0 /\ \A k \in Copy : queue[k] > 0 => queue'[k] > 0
    BY <1>1, <1>2
<1> QED
    BY <1>1, <1>3 DEF Waiting

\* A retry leaves a copy of a later delivery waiting, unless it dead-letters it.
LEMMA RetryLeaves ==
    ASSUME TypeOK, NEW c \in Consumer, cons[c].payload \in Payload, Retry(c)
    PROVE  /\ \A k \in Copy : queue[k] > 0 => queue'[k] > 0
           /\ cons' = [cons EXCEPT ![c] = IdleConsumer]
           /\ dead' \/ \E k \in Copy : queue'[k] > 0 /\ k.tries > 0
<1> DEFINE k0 == [tries |-> cons[c].tries + 1, payload |-> cons[c].payload]
<1>1. cons' = [cons EXCEPT ![c] = IdleConsumer] /\ cons[c].tries \in 0..MaxRetries
    BY DEF Retry, TypeOK, ConsumerCall
<1>2. CASE cons[c].tries < MaxRetries
    <2>1. k0 \in Copy /\ k0.tries > 0
        BY <1>1, <1>2, LimitAssumption DEF Copy
    <2>2. /\ queue \in [Copy -> Nat] /\ queue' = [queue EXCEPT ![k0] = queue[k0] + 1]
          /\ dead' = dead
        BY <1>2 DEF TypeOK, Retry
    <2> HIDE DEF k0
    <2>3. queue'[k0] > 0 /\ \A k \in Copy : queue[k] > 0 => queue'[k] > 0
        BY <2>1, <2>2
    <2> QED
        BY <1>1, <2>1, <2>2, <2>3
<1>3. CASE ~(cons[c].tries < MaxRetries)
    BY <1>1, <1>3 DEF Retry
<1> QED
    BY <1>2, <1>3

\* A delivery hands a waiting copy to an idle consumer.
LEMMA DeliverMoves ==
    ASSUME TypeOK, NEW c \in Consumer, Deliver(c)
    PROVE  /\ cons[c].phase = "idle" /\ cons'[c].phase = "reading"
           /\ cons'[c].config = config
           /\ \A d \in Consumer : d # c => cons'[d] = cons[d]
           /\ \A k \in Copy : queue[k] > 0 => queue'[k] > 0 \/ cons'[c].tries = k.tries
<1>1. PICK k \in Copy :
        /\ queue' = [queue EXCEPT ![k] = queue[k] - 1]
        /\ cons' = [cons EXCEPT ![c] = [IdleConsumer EXCEPT !.phase = "reading",
                        !.tries = k.tries, !.payload = k.payload, !.config = config]]
    BY DEF Deliver
<1>2. /\ cons'[c].phase = "reading" /\ cons'[c].config = config /\ cons'[c].tries = k.tries
      /\ \A d \in Consumer : d # c => cons'[d] = cons[d]
    BY <1>1 DEF TypeOK, IdleConsumer
<1>3. \A l \in Copy : l # k => queue'[l] = queue[l]
    BY <1>1 DEF TypeOK
<1> QED
    BY <1>2, <1>3 DEF Deliver

\* A consumer that goes on keeps its copy, its configuration and its attempt.
LEMMA MovesKeeps ==
    ASSUME TypeOK, NEW c \in Consumer, NEW ph \in ConsumerPhase,
           Moves(c, ph) \/ (ph = "finishing" /\ \E r \in Result : Attempted(c, r))
    PROVE  /\ cons'[c].phase = ph /\ cons'[c].tries = cons[c].tries
           /\ cons'[c].config = cons[c].config /\ cons'[c].attempt = cons[c].attempt
           /\ \A d \in Consumer : d # c => cons'[d] = cons[d]
<1>1. CASE Moves(c, ph)
    BY <1>1 DEF TypeOK, ConsumerCall, Moves
<1>2. ASSUME ph = "finishing", NEW r \in Result, Attempted(c, r)
      PROVE  /\ cons'[c].phase = ph /\ cons'[c].tries = cons[c].tries
             /\ cons'[c].config = cons[c].config /\ cons'[c].attempt = cons[c].attempt
             /\ \A d \in Consumer : d # c => cons'[d] = cons[d]
    BY <1>2 DEF TypeOK, ConsumerCall, Attempted
<1> QED
    BY <1>1, <1>2

\* One that ends leaves the others alone.
LEMMA EndsKeeps ==
    ASSUME TypeOK, NEW c \in Consumer, Ack(c) \/ Retry(c)
    PROVE  cons'[c].phase = "idle" /\ \A d \in Consumer : d # c => cons'[d] = cons[d]
BY DEF TypeOK, Ack, Retry, IdleConsumer

\* What a step of a consumer does to the consumers.
LEMMA ConsumerMoves ==
    ASSUME IInv, NEW c \in Consumer, ConsumerStep(c) \/ ConsumerEnds(c)
    PROVE  /\ \A d \in Consumer : d # c => cons'[d] = cons[d]
           /\ \/ cons'[c].phase = "idle"
              \/ cons'[c].config = cons[c].config /\ cons[c].phase # "idle"
              \/ Deliver(c) /\ cons'[c].config = config
           /\ Attempting(c)' =>
                Claim(c) \/ (Attempting(c) /\ cons'[c].attempt = cons[c].attempt)
           /\ prod' = prod /\ config' = config /\ deploys' = deploys
           /\ replays' = replays /\ aged' = aged
<1>1. TypeOK
    BY DEF IInv
<1>2. UNCHANGED <<prod, config, deploys, replays, aged>>
    BY DEF ConsumerStep, ConsumerEnds, Deliver, ReadMessage, GiveBackEarly,
        ConfirmHandoff, FailBeforeAttempt, Claim, CheckRecipient, Send, FinishAttempt,
        AnInvocationEnds, worldVars
<1> DEFINE Stops == Ack(c) \/ Retry(c)
           Before == {"early", "confirming", "refusing", "claiming", "failing"}
           GoesOn == cons[c].phase # "idle" /\ \E ph \in Before : Moves(c, ph)
           Sends == /\ cons[c].phase \in {"checking", "sending"}
                    /\ Moves(c, "sending") \/ \E r \in Result : Attempted(c, r)
<1>3. CASE Deliver(c)
    BY <1>1, <1>2, <1>3, DeliverMoves DEF Attempting
<1>4. CASE Stops
    BY <1>1, <1>2, <1>4, EndsKeeps DEF Attempting
<1>5. CASE GoesOn
    <2>1. PICK ph \in Before : Moves(c, ph)
        BY <1>5
    <2>2. ph \in ConsumerPhase
        BY DEF ConsumerPhase
    <2> QED
        BY <1>1, <1>2, <1>5, <2>1, <2>2, MovesKeeps DEF Attempting
<1>6. CASE Sends
    <2>1. "sending" \in ConsumerPhase /\ "finishing" \in ConsumerPhase
        BY DEF ConsumerPhase
    <2>2. PICK ph \in {"sending", "finishing"} :
            Moves(c, ph) \/ (ph = "finishing" /\ \E r \in Result : Attempted(c, r))
        BY <1>6
    <2> QED
        BY <1>1, <1>2, <1>6, <2>1, <2>2, MovesKeeps DEF Attempting
<1>7. CASE Claim(c)
    BY <1>1, <1>2, <1>7, ClaimEffect, ClaimFields, EndsKeeps
<1>8. ASSUME ReadMessage(c) \/ ConfirmHandoff(c) PROVE Stops \/ GoesOn
    BY <1>8 DEF ReadMessage, ConfirmHandoff
<1>9. ASSUME CheckRecipient(c) \/ Send(c) PROVE Sends
    BY <1>9 DEF CheckRecipient, Send, ProviderAccepts, ProviderRefuses, ProviderUnclear,
        Unresolved, Result
<1>10. ASSUME GiveBackEarly(c) \/ FailBeforeAttempt(c) \/ FinishAttempt(c) \/ ConsumerEnds(c)
       PROVE  Stops
    BY <1>10 DEF GiveBackEarly, FailBeforeAttempt, FinishAttempt, ConsumerEnds
<1> QED
    BY <1>3, <1>4, <1>5, <1>6, <1>7, <1>8, <1>9, <1>10 DEF ConsumerStep

-----------------------------------------------------------------------------
(* The mode and the envelope of the row                                    *)

\* What a coordinator call does to the calls and to what it leaves alone.
LEMMA ProducerMoves ==
    ASSUME IInv, NEW p \in Producer,
           ProducerStep(p) \/ QueueSendFails(p) \/ ProducerEnds(p)
    PROVE  /\ \A q \in Producer : q # p => prod'[q] = prod[q]
           /\ prod'[p].phase # "idle" =>
                /\ prod[p].phase # "idle" /\ prod'[p].mode = prod[p].mode
           /\ prod'[p].phase = "confirming" => QueueSend(p)
           /\ prod'[p].phase # "resetting"
           /\ cons' = cons /\ config' = config /\ deploys' = deploys
           /\ replays' = replays /\ aged' = aged /\ dead' = dead
<1>1. prod \in [Producer -> ProducerCall] /\ row.hash \in Payload \cup {"none"}
    BY DEF IInv, TypeOK, Row
<1>2. UNCHANGED <<cons, config, deploys, replays, aged, dead>>
    BY DEF ProducerStep, QueueSendFails, ProducerEnds, Insert, FindExisting, SuppressQueued,
        ClaimHandoff, HandoffPending, QueueSend, ConfirmSent, ReleaseHandoff, SuppressFailed,
        ResetFailed, AnInvocationEnds, worldVars, queueVars
<1> DEFINE Later == {"claiming", "queueing", "releasing"}
           Busy == prod[p].phase # "idle"
<1>3. CASE Busy /\ \E ph \in Later : Goes(p, ph)
    BY <1>1, <1>2, <1>3 DEF Goes, ProducerCall
<1>4. CASE Returns(p)
    BY <1>1, <1>2, <1>4 DEF Returns, IdleProducer
<1>5. CASE QueueSend(p)
    BY <1>1, <1>2, <1>5 DEF QueueSend, Goes, ProducerCall
<1>6. CASE FindExisting(p) /\ ~Returns(p)
    <2>1. PICK ph \in {"suppressing", "claiming"}, x \in Payload \cup {"none"} :
            prod' = [prod EXCEPT ![p].phase = ph, ![p].payload = x]
        BY <1>1, <1>6 DEF FindExisting, ProducerCall
    <2>2. prod[p].phase = "inserting"
        BY <1>6 DEF FindExisting
    <2> QED
        BY <1>1, <1>2, <2>1, <2>2 DEF ProducerCall
<1>7. ASSUME \/ Insert(p) \/ SuppressQueued(p) \/ ClaimHandoff(p) \/ HandoffPending(p)
             \/ ConfirmSent(p) \/ ReleaseHandoff(p) \/ SuppressFailed(p) \/ ResetFailed(p)
             \/ QueueSendFails(p) \/ ProducerEnds(p)
      PROVE  Returns(p) \/ (Busy /\ \E ph \in Later : Goes(p, ph))
    BY <1>7 DEF Insert, SuppressQueued, ClaimHandoff, HandoffPending, ConfirmSent,
        ReleaseHandoff, SuppressFailed, ResetFailed, QueueSendFails, ProducerEnds
<1> QED
    BY <1>3, <1>4, <1>5, <1>6, <1>7 DEF ProducerStep

\* A call that begins notes the mode it finds, and waits for nothing yet.
LEMMA BeginMoves ==
    ASSUME IInv, NEW p \in Producer,
           (\E x \in Payload : EnqueueCalled(p, x)) \/ DrainSelects(p) \/ ReplayCalled(p)
    PROVE  /\ \A q \in Producer : q # p => prod'[q] = prod[q]
           /\ prod'[p].mode = ModeOf(config)
           /\ prod'[p].phase \in {"inserting", "resetting"}
           /\ row' = row /\ UNCHANGED <<cons, config, deploys, aged, queue, dead>>
BY DEF IInv, TypeOK, EnqueueCalled, DrainSelects, ReplayCalled, Begin, worldVars, queueVars

\* Webhooks, time and operators leave the calls and the consumers alone.
LEMMA OthersMove ==
    ASSUME IInv, (\E h \in Hook : HookStep(h)) \/ Environment
    PROVE  /\ prod' = prod /\ cons' = cons /\ queue' = queue /\ dead' = dead
           /\ replays' = replays /\ (aged => aged')
           /\ (deploys' = deploys /\ config' = config) \/ deploys' # 0
           /\ \/ row' = row \/ HandoffLapses \/ LeaseLapses \/ Prune
              \/ \E h \in Hook : HookApply(h)
<1>1. ASSUME NEW h \in Hook, HookStep(h)
      PROVE  /\ UNCHANGED <<prod, cons, queue, dead, replays, aged, deploys, config>>
             /\ row' = row \/ HookApply(h)
    <2>1. CASE HookApply(h)
        BY <2>1 DEF HookApply, worldVars, queueVars
    <2>2. CASE \E e \in Event : HookCalled(h, e)
        BY <2>2 DEF HookCalled, worldVars, queueVars
    <2> QED
        BY <1>1, <2>1, <2>2 DEF HookStep
<1>2. CASE \E d \in LaterConfigs : Deploy(d)
    BY <1>2 DEF IInv, TypeOK, Deploy, callVars, queueVars
<1>3. CASE HandoffLapses \/ LeaseLapses \/ Prune \/ ManualSuppression
    BY <1>3 DEF HandoffLapses, LeaseLapses, Prune, ManualSuppression, worldVars, callVars,
        queueVars
<1>4. CASE ScheduleNears \/ MonthPasses
    BY <1>4 DEF ScheduleNears, MonthPasses, callVars, queueVars
<1> QED
    BY <1>1, <1>2, <1>3, <1>4 DEF Environment

\* No row, nothing under way but inserts.
LEMMA BusyRow ==
    ASSUME IInv
    PROVE  /\ \A c \in Consumer : cons[c].phase # "idle" => row.status # "none"
           /\ row.known => row.status # "none"
           /\ \A p \in Producer : prod[p].phase \notin {"idle", "inserting"} =>
                row.status # "none"
BY DEF IInv, Begun

\* The row keeps its mode, or takes that of a call under way.
LEMMA RowMode ==
    ASSUME IInv, NEW p \in Producer,
           ProducerStep(p) \/ QueueSendFails(p) \/ ProducerEnds(p)
    PROVE  \/ row'.mode = row.mode /\ (row'.status # "none" => row.status # "none")
           \/ row'.mode = prod[p].mode /\ prod[p].phase # "idle"
<1>1. TypeOK
    BY DEF IInv
<1> QED
    BY <1>1, RowUntouched, InsertFields, SuppressFields, ClaimHandoffFields, ResetFields,
        HandoffFields DEF ProducerStep

\* The mode is the same everywhere until it is changed.
LEMMA OneModeKeeps ==
    ASSUME IInv, OneMode, [Next]_vars
    PROVE  OneMode'
<1> DEFINE m == ModeOf(FirstConfig)
<1>1. TypeOK
    BY DEF IInv
<1> SUFFICES ASSUME deploys' = 0 PROVE OneMode'
    BY DEF OneMode
<1>2. CASE UNCHANGED vars
    BY <1>2 DEF OneMode, vars, callVars, worldVars
<1>3. ASSUME NEW p \in Producer,
             (\E x \in Payload : EnqueueCalled(p, x)) \/ DrainSelects(p) \/ ReplayCalled(p)
      PROVE  OneMode'
    BY <1>3, BeginMoves DEF OneMode
<1>4. ASSUME NEW p \in Producer,
             ProducerStep(p) \/ QueueSendFails(p) \/ ProducerEnds(p)
      PROVE  OneMode'
    <2>1. row'.status # "none" => row'.mode = m
        BY <1>4, RowMode, ProducerMoves DEF OneMode
    <2> HIDE DEF m
    <2> QED
        BY <1>4, <2>1, ProducerMoves DEF OneMode, m
<1>5. ASSUME NEW c \in Consumer, ConsumerStep(c) \/ ConsumerEnds(c)
      PROVE  OneMode'
    <2>1. \A d \in Consumer : cons'[d].phase # "idle" => cons'[d].config = FirstConfig
        BY <1>5, ConsumerMoves DEF OneMode
    <2>2. row' = row \/ (row'.mode = row.mode /\ row.status # "none")
        <3>1. CASE \/ Deliver(c) \/ ReadMessage(c) \/ CheckRecipient(c) \/ Send(c)
                   \/ ConsumerEnds(c)
            BY <3>1 DEF Deliver, ReadMessage, CheckRecipient, Send, ConsumerEnds
        <3>2. CASE \/ GiveBackEarly(c) \/ ConfirmHandoff(c) \/ FailBeforeAttempt(c)
                   \/ Claim(c) \/ FinishAttempt(c)
            <4>1. cons[c].phase # "idle"
                BY <3>2 DEF GiveBackEarly, ConfirmHandoff, FailBeforeAttempt, Claim,
                    FinishAttempt
            <4> QED
                BY <1>1, <3>2, <4>1, BusyRow, HandoffFields, FailFields, ClaimFields,
                    FinishFields
        <3> QED
            BY <1>5, <3>1, <3>2 DEF ConsumerStep
    <2> QED
        BY <1>5, <2>1, <2>2, ConsumerMoves DEF OneMode
<1>6. CASE (\E h \in Hook : HookStep(h)) \/ Environment
    <2>2. row' = row \/ row'.mode = row.mode
        BY <1>1, <1>6, OthersMove, ApplyFields, LapseFields, PruneFields
    <2>3. row'.status # "none" => row.status # "none"
        BY <1>1, <1>6, OthersMove, ApplyFields, LapseFields, PruneFields, BusyRow
    <2>4. deploys' = deploys /\ config' = config /\ prod' = prod /\ cons' = cons
        BY <1>6, OthersMove
    <2> QED
        BY <2>2, <2>3, <2>4 DEF OneMode
<1> QED
    BY <1>2, <1>3, <1>4, <1>5, <1>6 DEF Next

\* What may still be sent or replayed keeps its envelope until the prune.
LEMMA EnvelopedKeeps ==
    ASSUME IInv, Settled, Enveloped, [Next]_vars
    PROVE  Enveloped'
<1>1. TypeOK /\ replays \in Nat /\ row.payload \in BOOLEAN
    BY DEF IInv, TypeOK, Row
<1> SUFFICES ASSUME replays' < 2, ~aged'
             PROVE  /\ row'.status \in {"queued", "sending"} => row'.payload
                    /\ row'.status = "failed" /\ ~row'.known => row'.payload
    BY DEF Enveloped
<1> DEFINE Enough == /\ row.status \in {"queued", "sending"} => row.payload
                     /\ row.status = "failed" /\ ~row.known => row.payload
           Goal == /\ row'.status \in {"queued", "sending"} => row'.payload
                   /\ row'.status = "failed" /\ ~row'.known => row'.payload
<1>2. CASE UNCHANGED vars
    BY <1>2 DEF Enveloped, vars, worldVars
<1>3. ASSUME NEW p \in Producer,
             (\E x \in Payload : EnqueueCalled(p, x)) \/ DrainSelects(p) \/ ReplayCalled(p)
      PROVE  Goal
    <2>1. replays <= replays'
        BY <1>1, <1>3 DEF EnqueueCalled, DrainSelects, ReplayCalled, worldVars
    <2>2. replays < 2
        BY <1>1, <1>3, <2>1 DEF EnqueueCalled, DrainSelects, ReplayCalled, worldVars
    <2> QED
        BY <1>3, <2>2, BeginMoves DEF Enveloped
<1>4. ASSUME NEW p \in Producer,
             ProducerStep(p) \/ QueueSendFails(p) \/ ProducerEnds(p)
      PROVE  Goal
    <2>1. replays < 2 /\ ~aged
        BY <1>4, ProducerMoves
    <2>2. Enough
        BY <2>1 DEF Enveloped
    <2>3. prod[p].phase = "resetting" => ~row.known
        BY <2>1 DEF Settled
    <2> QED
        BY <1>1, <1>4, <2>2, <2>3, RowUntouched, InsertFields, SuppressFields,
            ClaimHandoffFields, ResetFields, HandoffFields DEF ProducerStep
<1>5. ASSUME NEW c \in Consumer, ConsumerStep(c) \/ ConsumerEnds(c)
      PROVE  Goal
    <2>1. replays < 2 /\ ~aged
        BY <1>5, ConsumerMoves
    <2>2. Enough
        BY <2>1 DEF Enveloped
    <2>3. CASE \/ Deliver(c) \/ ReadMessage(c) \/ CheckRecipient(c) \/ Send(c)
               \/ ConsumerEnds(c)
        BY <2>2, <2>3 DEF Deliver, ReadMessage, CheckRecipient, Send, ConsumerEnds
    <2>4. CASE GiveBackEarly(c) \/ ConfirmHandoff(c) \/ FailBeforeAttempt(c) \/ Claim(c)
        BY <1>1, <2>2, <2>4, HandoffFields, FailFields, ClaimFields
    <2>5. CASE FinishAttempt(c)
        BY <1>1, <2>2, <2>5, FinishFields DEF IInv, TypeOK, ConsumerCall, Result
    <2> QED
        BY <1>5, <2>3, <2>4, <2>5 DEF ConsumerStep
<1>6. CASE (\E h \in Hook : HookStep(h)) \/ Environment
    <2>1. replays < 2 /\ ~aged
        BY <1>6, OthersMove
    <2>2. Enough
        BY <2>1 DEF Enveloped
    <2> QED
        BY <1>1, <1>6, <2>1, <2>2, OthersMove, ApplyFields, LapseFields, PruneFields
            DEF Normalized
<1> QED
    BY <1>2, <1>3, <1>4, <1>5, <1>6 DEF Next

\* A producer never puts a row in the state of being sent, nor takes it out.
LEMMA CallsSendNothing ==
    ASSUME IInv, NEW p \in Producer,
           ProducerStep(p) \/ QueueSendFails(p) \/ ProducerEnds(p)
    PROVE  /\ row'.status = "sending" <=> row.status = "sending"
           /\ row'.status = "sending" /\ row.handed => row'.handed
           /\ row'.attempts = row.attempts \/ row.status = "none"
<1>1. TypeOK
    BY DEF IInv
<1> QED
    BY <1>1, RowUntouched, InsertFields, SuppressFields, ClaimHandoffFields, ResetFields,
        HandoffFields DEF ProducerStep

\* Nor do webhooks, time and operators.
LEMMA OthersSendNothing ==
    ASSUME IInv, (\E h \in Hook : HookStep(h)) \/ Environment
    PROVE  /\ row'.status = "sending" <=> row.status = "sending"
           /\ row'.handed = row.handed /\ row'.attempts = row.attempts
<1>1. TypeOK
    BY DEF IInv
<1> QED
    BY <1>1, OthersMove, ApplyFields, LapseFields, PruneFields DEF Normalized

\* The latest attempt and the row agree.
LEMMA ClaimedKeeps ==
    ASSUME IInv, Claimed, [Next]_vars
    PROVE  Claimed'
<1>1. TypeOK /\ row.attempts \in Nat
    BY DEF IInv, TypeOK, Row
<1>2. CASE UNCHANGED vars
    BY <1>2 DEF Claimed, Attempting, vars, callVars
<1>3. ASSUME NEW p \in Producer,
             (\E x \in Payload : EnqueueCalled(p, x)) \/ DrainSelects(p) \/ ReplayCalled(p)
      PROVE  Claimed'
    BY <1>3, BeginMoves DEF Claimed, Attempting
<1>4. ASSUME NEW p \in Producer,
             ProducerStep(p) \/ QueueSendFails(p) \/ ProducerEnds(p)
      PROVE  Claimed'
    <2>1. cons' = cons
        BY <1>4, ProducerMoves
    <2>2. row.status = "none" => \A c \in Consumer : ~Attempting(c)
        BY BusyRow DEF Attempting
    <2> QED
        BY <1>4, <2>1, <2>2, CallsSendNothing DEF Claimed, Attempting
<1>5. ASSUME NEW c \in Consumer, ConsumerStep(c) \/ ConsumerEnds(c)
      PROVE  Claimed'
    <2>1. CASE row' = row /\ ~Claim(c)
        <3>1. \A d \in Consumer : Attempting(d)' =>
                Attempting(d) /\ cons'[d].attempt = cons[d].attempt
            BY <1>5, <2>1, ConsumerMoves DEF Attempting
        <3> QED
            BY <2>1, <3>1 DEF Claimed
    <2>2. CASE GiveBackEarly(c) \/ ConfirmHandoff(c) \/ FailBeforeAttempt(c)
        <3>1. ~Claim(c)
            BY <2>2 DEF GiveBackEarly, ConfirmHandoff, FailBeforeAttempt, Claim
        <3>2. \A d \in Consumer : Attempting(d)' =>
                Attempting(d) /\ cons'[d].attempt = cons[d].attempt
            BY <1>5, <3>1, ConsumerMoves DEF Attempting
        <3>3. /\ row'.status = "sending" => row.status = "sending" /\ row'.handed
              /\ row'.status # "sending" => row.status # "sending"
              /\ row'.attempts = row.attempts
            BY <1>1, <2>2, HandoffFields, FailFields DEF Claimed
        <3> QED
            BY <3>2, <3>3 DEF Claimed
    <2>3. CASE Claim(c) /\ row'.status = "sending" /\ row'.handed
        BY <2>3 DEF Claimed
    <2>4. CASE Claim(c) /\ row' = row /\ Retry(c)
        <3>1. \A d \in Consumer : Attempting(d)' => Attempting(d) /\ cons'[d] = cons[d]
            BY <1>1, <2>4, EndsKeeps DEF Attempting
        <3> QED
            BY <2>4, <3>1 DEF Claimed
    <2>5. CASE FinishAttempt(c)
        <3>1. /\ cons'[c].phase = "idle" /\ \A d \in Consumer : d # c => cons'[d] = cons[d]
              /\ Attempting(c)
            BY <1>1, <2>5, EndsKeeps DEF FinishAttempt, Attempting
        <3>2. \A d \in Consumer : Attempting(d)' =>
                d # c /\ Attempting(d) /\ cons'[d].attempt = cons[d].attempt
            BY <3>1 DEF Attempting
        <3>3. CASE row' = row
            BY <3>2, <3>3 DEF Claimed
        <3>4. CASE row.status = "sending" /\ row.attempts = cons[c].attempt
                   /\ row'.attempts = row.attempts /\ row'.handed = row.handed
            <4>1. \A d \in Consumer : d # c /\ Attempting(d) => cons[d].attempt # row.attempts
                BY <3>1, <3>4 DEF IInv, Fenced, AttemptsAreFenced
            <4> QED
                BY <3>2, <3>4, <4>1 DEF Claimed
        <3> QED
            BY <1>1, <2>5, <3>3, <3>4, FinishFields
    <2>6. CASE Deliver(c) \/ ReadMessage(c) \/ CheckRecipient(c) \/ Send(c)
        <3>1. row' = row /\ ~Claim(c)
            BY <2>6 DEF Deliver, ReadMessage, CheckRecipient, Send, Claim
        <3> QED
            BY <2>1, <3>1
    <2>7. CASE ConsumerEnds(c)
        <3>1. \A d \in Consumer : Attempting(d)' => Attempting(d) /\ cons'[d] = cons[d]
            BY <1>1, <2>7, EndsKeeps DEF Attempting, ConsumerEnds
        <3> QED
            BY <2>7, <3>1 DEF Claimed, ConsumerEnds
    <2> QED
        BY <1>1, <1>5, <2>2, <2>3, <2>4, <2>5, <2>6, <2>7, ClaimFields DEF ConsumerStep
<1>6. CASE (\E h \in Hook : HookStep(h)) \/ Environment
    BY <1>6, OthersMove, OthersSendNothing DEF Claimed, Attempting
<1> QED
    BY <1>2, <1>3, <1>4, <1>5, <1>6 DEF Next

-----------------------------------------------------------------------------
(* The copy behind a handoff and behind an attempt                         *)

\* A copy on its way stays on its way while nobody takes it off.
LEMMA CarriedStays ==
    ASSUME Carried, \A k \in Copy : queue[k] > 0 => queue'[k] > 0,
           \A c \in Consumer : cons[c].phase \in Unclaimed => cons'[c] = cons[c]
    PROVE  Carried'
BY DEF Carried, Waiting

\* A call changes the queue only by adding to it.
LEMMA CallsAdd ==
    ASSUME IInv, NEW p \in Producer,
           ProducerStep(p) \/ QueueSendFails(p) \/ ProducerEnds(p)
    PROVE  \A k \in Copy : queue[k] > 0 => queue'[k] > 0
<1>1. TypeOK
    BY DEF IInv
<1>2. CASE QueueSend(p) \/ QueueSendFails(p)
    <2>1. prod[p].payload \in Payload
        BY <1>2 DEF QueueSend, QueueSendFails, IInv, OneText, Begun
    <2> QED
        BY <1>1, <1>2, <2>1, PutLeaves DEF QueueSend, QueueSendFails
<1>3. CASE ~(QueueSend(p) \/ QueueSendFails(p))
    <2>1. queue' = queue
        BY <1>3 DEF ProducerStep, ProducerEnds, Insert, FindExisting, SuppressQueued,
            ClaimHandoff, HandoffPending, ConfirmSent, ReleaseHandoff, SuppressFailed,
            ResetFailed, queueVars
    <2> QED
        BY <2>1
<1> QED
    BY <1>2, <1>3

\* No call leaves a queued row handed off without a copy.
LEMMA CallsCarry ==
    ASSUME IInv, HandoffsCarried, NEW p \in Producer,
           ProducerStep(p) \/ QueueSendFails(p) \/ ProducerEnds(p)
    PROVE  HandoffsCarried'
<1>1. TypeOK /\ "none" \notin Producer
    BY NoneAssumption DEF IInv
<1>2. cons' = cons /\ dead' = dead
    BY ProducerMoves
<1>3. Carried => Carried'
    BY <1>2, CallsAdd, CarriedStays
<1>4. CASE row.status = "queued" /\ Handed
    BY <1>2, <1>3, <1>4 DEF HandoffsCarried, Handed
<1>5. CASE ~(row.status = "queued" /\ Handed)
    <2>1. CASE QueueSend(p)
        <3>1. prod[p].payload \in Payload
            BY <2>1 DEF QueueSend, IInv, OneText, Begun
        <3> QED
            BY <1>1, <2>1, <3>1, PutLeaves DEF QueueSend, HandoffsCarried, Handed, Carried
    <2>2. CASE ~QueueSend(p)
        <3>1. \A q \in Producer : prod'[q].phase = "confirming" =>
                q # p /\ prod[q].phase = "confirming"
            BY <2>2, ProducerMoves
        <3>2. CASE row' = row
            BY <1>5, <3>1, <3>2 DEF HandoffsCarried, Handed
        <3>3. CASE Insert(p) \/ ResetFailed(p)
            BY <1>1, <3>2, <3>3, InsertFields, ResetFields DEF HandoffsCarried, Handed
        <3>4. CASE ClaimHandoff(p)
            BY <1>1, <3>1, <3>4, ClaimHandoffFields DEF HandoffsCarried, Handed
        <3>5. CASE SuppressQueued(p) \/ SuppressFailed(p)
            BY <1>1, <3>2, <3>5, SuppressFields DEF HandoffsCarried, Handed
        <3>6. CASE ConfirmSent(p)
            <4>1. row' = row \/ (prod[p].phase = "confirming" /\ row.handoff = p
                                   /\ row'.status = row.status)
                BY <1>1, <3>6, HandoffFields DEF ConfirmSent, HoldsHandoff
            <4> QED
                BY <1>5, <3>2, <4>1 DEF Handed, HandoffsCarried
        <3>7. CASE ReleaseHandoff(p)
            <4>1. row.handed \in BOOLEAN
                BY <1>1 DEF TypeOK, Row
            <4>2. row' = row \/ (row'.handed = row.handed /\ row'.handoff = "none"
                                   /\ row'.status = row.status)
                BY <1>1, <3>7, <4>1, HandedOffFields DEF ReleaseHandoff
            <4> QED
                BY <1>1, <1>5, <3>2, <4>2 DEF Handed, HandoffsCarried
        <3> QED
            BY <2>2, <3>2, <3>3, <3>4, <3>5, <3>6, <3>7, RowUntouched DEF ProducerStep
    <2> QED
        BY <2>1, <2>2
<1> QED
    BY <1>4, <1>5

\* What a retry leaves.
LEMMA RetryCarries ==
    ASSUME IInv, NEW c \in Consumer, cons[c].phase # "idle", Retry(c)
    PROVE  dead' \/ (Carried' /\ Resumable')
<1>1. TypeOK /\ cons[c].payload \in Payload
    BY HeldText DEF IInv
<1> QED
    BY <1>1, RetryLeaves DEF Carried, Waiting, Resumable

\* No consumer drops the copy of a row that stays queued and handed off.
LEMMA ConsumersCarry ==
    ASSUME IInv, HandoffsCarried, Claimed, NEW c \in Consumer,
           ConsumerStep(c) \/ ConsumerEnds(c)
    PROVE  HandoffsCarried'
<1>1. TypeOK /\ prod' = prod /\ "none" \notin Producer
    BY ConsumerMoves, NoneAssumption DEF IInv
<1>2. \A d \in Consumer : d # c => cons'[d] = cons[d]
    BY ConsumerMoves
<1>3. CASE Deliver(c)
    BY <1>1, <1>3, DeliverMoves DEF HandoffsCarried, Handed, Carried, Unclaimed
<1>4. CASE ReadMessage(c)
    <2>1. row' = row /\ cons[c].payload = row.hash
        BY <1>4, HeldText DEF ReadMessage
    <2>2. CASE row.status = "queued"
        <3>1. PICK ph \in {"early", "confirming", "refusing"} : Moves(c, ph)
            BY <1>4, <2>1, <2>2 DEF ReadMessage, Terminal, Normalized
        <3>2. cons'[c].phase = ph
            BY <1>1, <3>1, MovesKeeps DEF ConsumerPhase
        <3> QED
            BY <3>2 DEF HandoffsCarried, Handed, Carried, Unclaimed
    <2>3. CASE row.status # "queued"
        BY <2>1, <2>3 DEF HandoffsCarried, Handed
    <2> QED
        BY <2>2, <2>3
<1>5. CASE GiveBackEarly(c)
    <2>1. CASE row.status = "queued"
        <3>1. ~row'.handed /\ row'.handoff = "none"
            BY <1>1, <1>5, <2>1, HandedOffFields DEF GiveBackEarly
        <3> QED
            BY <1>1, <3>1 DEF HandoffsCarried, Handed
    <2>2. CASE row.status # "queued"
        BY <1>5, <2>2 DEF GiveBackEarly, HandoffsCarried, Handed
    <2> QED
        BY <2>1, <2>2
<1>6. CASE ConfirmHandoff(c)
    <2>1. PICK ph \in {"claiming", "failing"} : Moves(c, ph)
        BY <1>6 DEF ConfirmHandoff
    <2>2. cons'[c].phase = ph
        BY <1>1, <2>1, MovesKeeps DEF ConsumerPhase
    <2> QED
        BY <2>2 DEF HandoffsCarried, Handed, Carried, Unclaimed
<1>7. CASE FailBeforeAttempt(c) \/ Claim(c)
    <2>1. row'.status # "queued"
        BY <1>1, <1>7, FailFields, ClaimFields
    <2> QED
        BY <2>1 DEF HandoffsCarried, Handed
<1>8. CASE CheckRecipient(c) \/ Send(c)
    <2>1. cons[c].phase \notin Unclaimed /\ row' = row /\ queue' = queue /\ dead' = dead
        BY <1>8 DEF CheckRecipient, Send, Unclaimed, queueVars
    <2>2. Carried => Carried'
        BY <1>2, <2>1, CarriedStays
    <2> QED
        BY <1>1, <2>1, <2>2 DEF HandoffsCarried, Handed
<1>9. CASE FinishAttempt(c) /\ row' = row
    <2>1. cons[c].phase = "finishing" /\ (Ack(c) \/ Retry(c))
        BY <1>9 DEF FinishAttempt
    <2>2. CASE Ack(c)
        <3>1. Carried => Carried'
            BY <1>2, <2>1, <2>2, CarriedStays DEF Ack, queueVars, Unclaimed
        <3> QED
            BY <1>1, <1>9, <2>2, <3>1 DEF HandoffsCarried, Handed, Ack, queueVars
    <2>3. CASE Retry(c)
        BY <2>1, <2>3, RetryCarries DEF HandoffsCarried, Handed
    <2> QED
        BY <2>1, <2>2, <2>3
<1>10. CASE FinishAttempt(c) /\ row' # row
    <2>1. row'.status = "queued" => Retry(c) /\ cons[c].phase # "idle"
        BY <1>1, <1>10, FinishFields DEF FinishAttempt
    <2> QED
        BY <2>1, RetryCarries DEF HandoffsCarried, Handed
<1>11. CASE ConsumerEnds(c)
    BY <1>11, RetryCarries DEF ConsumerEnds, HandoffsCarried, Handed
<1> QED
    BY <1>3, <1>4, <1>5, <1>6, <1>7, <1>8, <1>9, <1>10, <1>11 DEF ConsumerStep

\* A copy is behind every handoff of a queued row.
LEMMA HandoffsCarriedKeeps ==
    ASSUME IInv, HandoffsCarried, Claimed, [Next]_vars
    PROVE  HandoffsCarried'
<1>1. TypeOK /\ "none" \notin Producer
    BY NoneAssumption DEF IInv
<1>2. CASE UNCHANGED vars
    BY <1>2 DEF HandoffsCarried, Handed, Carried, Waiting, vars, callVars, queueVars
<1>3. ASSUME NEW p \in Producer,
             (\E x \in Payload : EnqueueCalled(p, x)) \/ DrainSelects(p) \/ ReplayCalled(p)
      PROVE  HandoffsCarried'
    <2>1. \A q \in Producer : prod'[q].phase = "confirming" => prod[q].phase = "confirming"
        BY <1>3, BeginMoves
    <2>2. Carried => Carried'
        BY <1>3, BeginMoves DEF Carried, Waiting
    <2> QED
        BY <1>3, <2>1, <2>2, BeginMoves DEF HandoffsCarried, Handed
<1>4. CASE (\E h \in Hook : HookStep(h)) \/ Environment
    <2>1. /\ row'.status = "queued" => row.status = "queued"
          /\ row'.handed = row.handed
          /\ row'.handoff = row.handoff \/ row'.handoff = "none"
        BY <1>1, <1>4, OthersMove, ApplyFields, LapseFields, PruneFields DEF Normalized
    <2>2. Carried => Carried'
        BY <1>4, OthersMove DEF Carried, Waiting
    <2> QED
        BY <1>1, <1>4, <2>1, <2>2, OthersMove DEF HandoffsCarried, Handed
<1> QED
    BY <1>2, <1>3, <1>4, CallsCarry, ConsumersCarry DEF Next

-----------------------------------------------------------------------------
\* An attempt stays resumable while nobody takes its copy off.
LEMMA ResumableStays ==
    ASSUME Resumable, row'.attempts = row.attempts,
           \A k \in Copy : queue[k] > 0 => queue'[k] > 0,
           cons' = cons
    PROVE  Resumable'
BY DEF Resumable, Attempting

\* The same, for the step of a consumer c whose copy is not that of the attempt
\* or stays so.
LEMMA ResumableMoves ==
    ASSUME Resumable, row'.attempts = row.attempts, NEW c \in Consumer,
           \A k \in Copy : queue[k] > 0 => queue'[k] > 0,
           \A d \in Consumer : d # c => cons'[d] = cons[d],
           \/ cons[c].phase \in {"reading", "confirming", "claiming"} /\ cons[c].tries > 0
           \/ Attempting(c) /\ cons[c].attempt = row.attempts
           => \/ cons'[c].phase \in {"confirming", "claiming"} /\ cons'[c].tries > 0
              \/ Attempting(c)' /\ cons'[c].attempt = row.attempts
    PROVE  Resumable'
BY DEF Resumable, Attempting

\* No consumer drops the copy of the attempt the row is in.
LEMMA ConsumersResume ==
    ASSUME IInv, OneMode, AttemptsResumed, NEW c \in Consumer,
           ConsumerStep(c) \/ ConsumerEnds(c)
    PROVE  AttemptsResumed'
<1> SUFFICES ASSUME row'.status = "sending", ~dead', deploys' = 0
             PROVE  Resumable'
    BY DEF AttemptsResumed
<1>1. TypeOK /\ deploys = 0 /\ \A d \in Consumer : d # c => cons'[d] = cons[d]
    BY ConsumerMoves DEF IInv
<1> DEFINE OfAttempt ==
               \/ cons[c].phase \in {"reading", "confirming", "claiming"} /\ cons[c].tries > 0
               \/ Attempting(c) /\ cons[c].attempt = row.attempts
<1>2. CASE Deliver(c)
    <2>1. row' = row /\ dead' = dead
        BY <1>2 DEF Deliver
    <2>2. Resumable
        BY <1>1, <2>1 DEF AttemptsResumed
    <2>3. CASE \E k \in Copy : queue[k] > 0 /\ k.tries > 0
        BY <1>1, <1>2, <2>3, DeliverMoves DEF Resumable
    <2>4. ASSUME NEW d \in Consumer,
                 \/ cons[d].phase \in {"reading", "confirming", "claiming"} /\ cons[d].tries > 0
                 \/ Attempting(d) /\ cons[d].attempt = row.attempts
          PROVE  Resumable'
        <3>1. d # c
            BY <1>2, <2>4 DEF Deliver, Attempting
        <3> QED
            BY <1>1, <2>1, <2>4, <3>1 DEF Resumable, Attempting
    <2> QED
        BY <2>2, <2>3, <2>4 DEF Resumable
<1>3. CASE ReadMessage(c)
    <2>1. row' = row /\ cons[c].payload = row.hash /\ row.status = "sending"
        BY <1>3, HeldText DEF ReadMessage
    <2>2. row.mode = ModeOf(cons[c].config)
        BY <1>1, <1>3, <2>1 DEF OneMode, ReadMessage
    <2>3. queue' = queue /\ dead' = dead /\ cons[c].phase = "reading"
          /\ \/ SeemsEarly(c) /\ Moves(c, "early")
             \/ Moves(c, "confirming")
        BY <1>3, <2>1, <2>2 DEF ReadMessage, Terminal, Normalized, queueVars
    <2>4. Resumable
        BY <1>1, <2>1, <2>3 DEF AttemptsResumed
    <2>5. OfAttempt => cons'[c].phase = "confirming" /\ cons'[c].tries > 0
        <3>1. OfAttempt => cons[c].tries > 0
            BY <2>3 DEF Attempting
        <3>2. Moves(c, "confirming") => cons'[c].phase = "confirming" /\ cons'[c].tries = cons[c].tries
            BY <1>1, MovesKeeps DEF ConsumerPhase
        <3>3. cons[c].tries > 0 => ~SeemsEarly(c)
            BY DEF SeemsEarly
        <3> QED
            BY <2>3, <3>1, <3>2, <3>3
    <2> QED
        BY <1>1, <2>1, <2>3, <2>4, <2>5, ResumableMoves
<1>4. CASE GiveBackEarly(c) \/ FailBeforeAttempt(c)
    <2>1. /\ row' = row \/ (row'.attempts = row.attempts /\ row'.status = row.status)
          /\ queue' = queue /\ dead' = dead
          /\ cons[c].phase \in {"early", "failing"}
        BY <1>1, <1>4, HandoffFields, FailFields DEF GiveBackEarly, FailBeforeAttempt, Ack,
            queueVars
    <2>2. Resumable
        BY <1>1, <2>1 DEF AttemptsResumed
    <2>3. ~OfAttempt
        BY <2>1 DEF Attempting
    <2> QED
        BY <1>1, <2>1, <2>2, <2>3, ResumableMoves
<1>5. CASE ConfirmHandoff(c)
    <2>1. /\ row'.attempts = row.attempts /\ row'.status = row.status
          /\ queue' = queue /\ dead' = dead /\ cons[c].phase \in {"confirming", "refusing"}
          /\ cons[c].phase = "confirming" => Moves(c, "claiming")
        BY <1>1, <1>5, HandoffFields DEF ConfirmHandoff, queueVars
    <2>2. Resumable
        BY <1>1, <2>1 DEF AttemptsResumed
    <2>3. OfAttempt => cons'[c].phase = "claiming" /\ cons'[c].tries > 0
        BY <1>1, <2>1, MovesKeeps DEF Attempting, ConsumerPhase
    <2> QED
        BY <1>1, <2>1, <2>2, <2>3, ResumableMoves
<1>6. CASE Claim(c)
    <2>1. CASE Retry(c)
        BY <1>6, <2>1, RetryCarries DEF Claim
    <2>2. CASE ~Retry(c)
        <3>1. cons'[c].phase = "checking" /\ cons'[c].attempt = row'.attempts
            BY <1>1, <1>6, <2>2, ClaimFields
        <3> QED
            BY <3>1 DEF Resumable, Attempting
    <2> QED
        BY <2>1, <2>2
<1>7. CASE CheckRecipient(c) \/ Send(c)
    <2>1. row' = row /\ queue' = queue /\ dead' = dead /\ Attempting(c)
        BY <1>7 DEF CheckRecipient, Send, Attempting, queueVars
    <2>2. \/ Moves(c, "sending")
          \/ \E r \in Result : Attempted(c, r)
        BY <1>7 DEF CheckRecipient, Send, ProviderAccepts, ProviderRefuses, ProviderUnclear,
            Unresolved, Result
    <2>3. cons'[c].phase \in {"sending", "finishing"} /\ cons'[c].attempt = cons[c].attempt
        BY <1>1, <2>2, MovesKeeps DEF ConsumerPhase
    <2>4. Resumable
        BY <1>1, <2>1 DEF AttemptsResumed
    <2>5. OfAttempt => Attempting(c)' /\ cons'[c].attempt = row.attempts
        BY <2>1, <2>3 DEF Attempting
    <2> QED
        BY <1>1, <2>1, <2>4, <2>5, ResumableMoves
<1>8. CASE FinishAttempt(c)
    <2>1. cons[c].phase = "finishing" /\ cons[c].result # "sending" /\ (Ack(c) \/ Retry(c))
        BY <1>1, <1>8 DEF FinishAttempt, TypeOK, ConsumerCall, Result
    <2>2. row' = row /\ row.attempts # cons[c].attempt
        BY <1>1, <1>8, <2>1, FinishFields
    <2>3. CASE Retry(c)
        BY <2>1, <2>3, RetryCarries
    <2>4. CASE Ack(c)
        <3>1. queue' = queue /\ dead' = dead
            BY <2>4 DEF Ack, queueVars
        <3>2. Resumable /\ ~OfAttempt
            BY <1>1, <2>1, <2>2, <3>1 DEF AttemptsResumed, Attempting
        <3> QED
            BY <1>1, <2>2, <3>1, <3>2, ResumableMoves
    <2> QED
        BY <2>1, <2>3, <2>4
<1>9. CASE ConsumerEnds(c)
    BY <1>9, RetryCarries DEF ConsumerEnds
<1> QED
    BY <1>2, <1>3, <1>4, <1>5, <1>6, <1>7, <1>8, <1>9 DEF ConsumerStep

\* A copy is behind every attempt.
LEMMA AttemptsResumedKeeps ==
    ASSUME IInv, OneMode, AttemptsResumed, [Next]_vars
    PROVE  AttemptsResumed'
<1>1. CASE UNCHANGED vars
    BY <1>1 DEF AttemptsResumed, Resumable, Attempting, vars, callVars, queueVars, worldVars
<1>2. ASSUME NEW p \in Producer,
             (\E x \in Payload : EnqueueCalled(p, x)) \/ DrainSelects(p) \/ ReplayCalled(p)
      PROVE  AttemptsResumed'
    BY <1>2, BeginMoves, ResumableStays DEF AttemptsResumed
<1>3. ASSUME NEW p \in Producer,
             ProducerStep(p) \/ QueueSendFails(p) \/ ProducerEnds(p)
      PROVE  AttemptsResumed'
    <2>1. cons' = cons /\ dead' = dead /\ deploys' = deploys
        BY <1>3, ProducerMoves
    <2>2. row'.status = "sending" => row.status = "sending" /\ row'.attempts = row.attempts
        BY <1>3, CallsSendNothing
    <2> QED
        BY <1>3, <2>1, <2>2, CallsAdd, ResumableStays DEF AttemptsResumed
<1>4. CASE (\E h \in Hook : HookStep(h)) \/ Environment
    <2>1. /\ cons' = cons /\ dead' = dead /\ queue' = queue
          /\ deploys' = 0 => deploys = 0
        BY <1>4, OthersMove
    <2>2. row'.status = "sending" => row.status = "sending" /\ row'.attempts = row.attempts
        BY <1>4, OthersSendNothing
    <2> QED
        BY <2>1, <2>2, ResumableStays DEF AttemptsResumed
<1> QED
    BY <1>1, <1>2, <1>3, <1>4, ConsumersResume DEF Next

(***************************************************************************)
(* With any number of coordinator calls, consumers, deliveries and deaths, *)
(* an e-mail that is queued or being sent has a copy waiting or in work,   *)
(* or a row the drain selects: #handoff of email/delivery.ts confirms only *)
(* what the queue took, process() acknowledges the copy only of a row it   *)
(* settled or gave back, and that of a lost attempt is delivered again.    *)
(***************************************************************************)
THEOREM NothingIsStranded == Spec => []NotStranded
<1> DEFINE Tracked == OneMode /\ Enveloped /\ Claimed /\ HandoffsCarried /\ AttemptsResumed
<1>1. Init => Tracked
    BY DEF Init, OneMode, Enveloped, Claimed, HandoffsCarried, Handed, AttemptsResumed, NoRow,
        IdleProducer, IdleConsumer, Attempting
<1>2. IInv /\ Settled /\ Tracked /\ [Next]_vars => Tracked'
    BY OneModeKeeps, EnvelopedKeeps, ClaimedKeeps, HandoffsCarriedKeeps, AttemptsResumedKeeps
<1>3. IInv /\ Tracked => NotStranded
    <2> SUFFICES ASSUME IInv, Tracked, row.status \in {"queued", "sending"}, ~dead, ~aged,
                        replays < 2
                 PROVE  \/ Waiting \/ Working
                        \/ row.status = "queued" /\ ~row.handed /\ row.payload
                        \/ row.status = "sending" /\ deploys > 0
        BY DEF NotStranded
    <2>1. Carried => Waiting \/ Working
        BY DEF Carried, Unclaimed, Working
    <2>2. Resumable => Waiting \/ Working
        BY DEF Resumable, Attempting, Waiting, Working
    <2>3. deploys \in Nat /\ row.handed \in BOOLEAN
        BY LimitAssumption DEF IInv, TypeOK, Row
    <2>4. row.status = "queued" => (row.handed => Carried) /\ row.payload
        BY DEF HandoffsCarried, Handed, Enveloped
    <2>5. row.status = "sending" => deploys > 0 \/ Resumable
        BY <2>3 DEF AttemptsResumed
    <2> QED
        BY <2>1, <2>2, <2>4, <2>5
<1> HIDE DEF Tracked
<1> QED
    BY <1>1, <1>2, <1>3, EmailInvariant, SettledAlways, PTL DEF Spec

=============================================================================

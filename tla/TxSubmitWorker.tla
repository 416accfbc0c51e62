--------------------------- MODULE TxSubmitWorker ---------------------------
(***************************************************************************)
(* The RabbitMQ transaction submission worker of cardano-services          *)
(* (src/packages/cardano-services/src/TxSubmit/rabbitmq/TxSubmitWorker.ts) *)
(* together with the part of the broker it talks to, the upstream node it  *)
(* submits to and the client that publishes transactions and reads the     *)
(* reply queue named by their TxId.                                        *)
(*                                                                         *)
(* Every `await` of the worker is a step boundary: an action is the code   *)
(* between two awaits, so broker events, other workers and other message  *)
(* handlers interleave exactly where the event loop lets them.  A message  *)
(* is identified with its transaction, and the transaction with its TxId,  *)
(* so replies[m] is the reply queue the worker declares with               *)
(* assertQueue(txId).                                                      *)
(***************************************************************************)
EXTENDS Naturals, Sequences, FiniteSets

CONSTANTS
    Workers,              \* TxSubmitWorker instances, each started at most once
    Msgs,                 \* signed transactions published by clients
    Invalid,              \* transactions the node rejects when first submitted
    Parallel,             \* TxSubmitWorkerConfig.parallel
    ParallelTxs,          \* TxSubmitWorkerConfig.parallelTxs, the channel prefetch
    ChannelCloseHasError, \* whether the library passes an error to a channel 'close' listener
    MaxDrops,             \* bound on broker-initiated closes of connections and channels
    UserAwaitsStart,      \* the user calls stop() only once start() has settled
    Supervised            \* the workers are run by startTxSubmitWorkerWithDiscovery

ASSUME /\ Invalid \subseteq Msgs
       /\ Parallel \in BOOLEAN /\ ChannelCloseHasError \in BOOLEAN
       /\ ParallelTxs \in Nat \ {0} /\ MaxDrops \in Nat
       /\ UserAwaitsStart \in BOOLEAN /\ Supervised \in BOOLEAN

\* Who ran stop(): the user, or connectionErrorHandler called from the catch
\* of start() or from the 'close' listener of the connection or the channel.
Callers   == {"user", "start", "conn", "chan"}
Handles   == {"none", "open", "closed"}     \* undefined field, open object, closed object
StartPcs  == {"new", "health", "connect", "channel", "assert", "consume", "done", "failed"}
StopPcs   == {"none", "cancel", "drain", "closeChan", "closeConn", "closeNoConn", "done"}
LoopPcs   == {"off", "get", "handle", "sleep"}
HandlerPcs == {"none", "submit", "replyOk", "replyFatal"}
Results   == {"unsent", "pending", "ok", "fatal"}

VARIABLES
    \* broker
    queue,          \* ready messages of TX_SUBMISSION_QUEUE
    unacked,        \* unacked[w]: messages delivered on w's channel and not yet acked
    consuming,      \* consuming[w]: a consumer of w is registered with the broker
    replies,        \* replies[m]: the reply queue named by m's TxId
    acked,          \* history: messages a worker acknowledged
    \* upstream node
    accepted,       \* transactions the node accepted
    rejected,       \* transactions the node rejected with a non-retryable error
    \* TxSubmitWorker instances
    status,         \* #status
    conn,           \* #connection
    chan,           \* #channel
    consumerTag,    \* #consumerTag is set
    continueForever,\* #continueForever
    spc,            \* progress of start()
    lpc,            \* progress of infiniteLoop()
    hpc,            \* hpc[w][m]: progress of submitTx(m) on w
    stops,          \* stops[w][c]: progress of a stop() run by caller c
    pendingClose,   \* 'close' listeners that the current event still has to call
    emitted,        \* emitted[w]: CONNECTION_ERROR_EVENTs emitted by w
    leaked,         \* workers whose connection stop() forgot without closing it
    \* client and environment
    result,         \* result[m]: what the client's submitTx(m) resolved to
    drops,          \* broker-initiated closes so far
    \* the supervisor
    current,        \* the worker the supervisor's handle targets, or "none"
    factory,        \* a workerFactory() call is pending
    handle,         \* startTxSubmitWorkerWithDiscovery: pending, ready, rejected, stopped
    stopTarget      \* the worker the handle's stop() stopped

broker  == <<queue, unacked, consuming, replies, acked>>
node    == <<accepted, rejected>>
worker  == <<status, conn, chan, consumerTag, continueForever, spc, lpc, hpc,
             stops, pendingClose, emitted, leaked>>
sup     == <<current, factory, handle, stopTarget>>
vars    == <<broker, node, worker, result, drops, sup>>

\* Messages a worker may hold unacked: the channel prefetch in parallel mode,
\* the one message the serial loop awaits otherwise.
Prefetch == IF Parallel THEN ParallelTxs ELSE 1

\* The type invariant, with the broker's prefetch limit on each channel.
TypeOK ==
    /\ queue \subseteq Msgs
    /\ unacked \in [Workers -> {S \in SUBSET Msgs : Cardinality(S) <= Prefetch}]
    /\ consuming \in [Workers -> BOOLEAN]
    /\ replies \in [Msgs -> Seq({"ok", "fatal"})]
    /\ acked \subseteq Msgs /\ accepted \subseteq Msgs /\ rejected \subseteq Msgs
    /\ status \in [Workers -> {"idle", "connecting", "connected", "error"}]
    /\ conn \in [Workers -> Handles] /\ chan \in [Workers -> Handles]
    /\ consumerTag \in [Workers -> BOOLEAN]
    /\ continueForever \in [Workers -> BOOLEAN]
    /\ spc \in [Workers -> StartPcs] /\ lpc \in [Workers -> LoopPcs]
    /\ hpc \in [Workers -> [Msgs -> HandlerPcs]]
    /\ stops \in [Workers -> [Callers -> StopPcs]]
    /\ pendingClose \in [Workers -> SUBSET {"conn", "chan"}]
    /\ emitted \in [Workers -> Nat]
    /\ leaked \subseteq Workers
    /\ result \in [Msgs -> Results]
    /\ drops \in 0..MaxDrops
    /\ current \in Workers \cup {"none"} /\ stopTarget \in Workers \cup {"none"}
    /\ factory \in {"idle", "pending"}
    /\ handle \in {"pending", "ready", "rejected", "stopped"}

Init ==
    /\ queue = {} /\ unacked = [w \in Workers |-> {}]
    /\ consuming = [w \in Workers |-> FALSE]
    /\ replies = [m \in Msgs |-> <<>>] /\ acked = {}
    /\ accepted = {} /\ rejected = {}
    /\ status = [w \in Workers |-> "idle"]
    /\ conn = [w \in Workers |-> "none"] /\ chan = [w \in Workers |-> "none"]
    /\ consumerTag = [w \in Workers |-> FALSE]
    /\ continueForever = [w \in Workers |-> FALSE]
    /\ spc = [w \in Workers |-> "new"] /\ lpc = [w \in Workers |-> "off"]
    /\ hpc = [w \in Workers |-> [m \in Msgs |-> "none"]]
    /\ stops = [w \in Workers |-> [c \in Callers |-> "none"]]
    /\ pendingClose = [w \in Workers |-> {}]
    /\ emitted = [w \in Workers |-> 0] /\ leaked = {}
    /\ result = [m \in Msgs |-> "unsent"] /\ drops = 0
    /\ current = "none" /\ stopTarget = "none" /\ handle = "pending"
    /\ factory = IF Supervised THEN "pending" ELSE "idle"

-----------------------------------------------------------------------------
(* Helpers *)

InFlight(w) == {m \in Msgs : hpc[w][m] # "none"}

Stopping(w) == \E c \in Callers : stops[w][c] \notin {"none", "done"}

\* No 'close' listener of the current event is still to run: listeners are
\* called synchronously by emit, so nothing else runs before they have.
Quiet == \A w \in Workers : pendingClose[w] = {}

\* The broker side of closing w's channel: its unacked messages are requeued
\* and its consumer is gone.
ChannelClosed(w, newChan) ==
    /\ chan' = [chan EXCEPT ![w] = newChan]
    /\ queue' = queue \cup unacked[w]
    /\ unacked' = [unacked EXCEPT ![w] = {}]
    /\ consuming' = [consuming EXCEPT ![w] = FALSE]

\* Mutant of StopSync: the consumer is never cancelled, only the serial
\* loop's flag is cleared.
StopSync_noCancel(w, c) ==
    /\ continueForever' = [continueForever EXCEPT ![w] = FALSE]
    /\ stops' = [stops EXCEPT ![w][c] = "drain"]
    /\ UNCHANGED consumerTag

\* stop() up to its first await: cancel the consumer if there is one,
\* otherwise tell the serial loop to exit.
StopSync(w, c) ==
    IF consumerTag[w]
    THEN /\ consumerTag' = [consumerTag EXCEPT ![w] = FALSE]
         /\ stops' = [stops EXCEPT ![w][c] = "cancel"]
         /\ UNCHANGED continueForever
    ELSE /\ continueForever' = [continueForever EXCEPT ![w] = FALSE]
         /\ stops' = [stops EXCEPT ![w][c] = "drain"]
         /\ UNCHANGED consumerTag

\* connectionErrorHandler(isAsync, err) with err set, up to stop()'s first await.
connectionErrorHandler(w, c) ==
    /\ status' = [status EXCEPT ![w] = "error"]
    /\ StopSync(w, c)

\* What the node answers to a submission of m: a transient failure is always
\* possible; otherwise a transaction already accepted is rejected (its inputs
\* are spent), an invalid one is rejected and a valid one is accepted.
UpstreamVerdicts(m) ==
    {"retry"} \cup IF m \in accepted \/ m \in Invalid THEN {"fatal"} ELSE {"ok"}

-----------------------------------------------------------------------------
(* start() *)

StartCall(w) ==
    /\ ~Supervised
    /\ spc[w] = "new"
    /\ spc' = [spc EXCEPT ![w] = "health"]
    /\ UNCHANGED <<broker, node, status, conn, chan, consumerTag, continueForever,
                   lpc, hpc, stops, pendingClose, emitted, result, drops, leaked>>

\* healthCheck() resolves: an unhealthy provider makes start() throw before
\* the try block; a healthy one moves to connecting and awaits connect().
StartHealth(w) ==
    /\ spc[w] = "health"
    /\ \E ok \in BOOLEAN :
         IF ok THEN /\ status' = [status EXCEPT ![w] = "connecting"]
                    /\ spc' = [spc EXCEPT ![w] = "connect"]
               ELSE /\ spc' = [spc EXCEPT ![w] = "failed"]
                    /\ UNCHANGED status
    /\ UNCHANGED <<broker, node, conn, chan, consumerTag, continueForever,
                   lpc, hpc, stops, pendingClose, emitted, result, drops, leaked>>

\* A rejected await of start(): the catch calls connectionErrorHandler.
StartFails(w) ==
    /\ spc' = [spc EXCEPT ![w] = "failed"]
    /\ connectionErrorHandler(w, "start")

\* connect() resolves (or the broker is unreachable).
StartConnect(w) ==
    /\ spc[w] = "connect"
    /\ \/ /\ conn' = [conn EXCEPT ![w] = "open"]
          /\ spc' = [spc EXCEPT ![w] = "channel"]
          /\ UNCHANGED <<status, consumerTag, continueForever, stops>>
       \/ /\ StartFails(w)
          /\ UNCHANGED conn
    /\ UNCHANGED <<broker, node, chan, lpc, hpc, pendingClose, emitted, result, drops, leaked>>

\* createChannel() resolves; it is rejected if the connection closed
\* meanwhile.  It was called on the connection connect() returned, which
\* stays open when a stop() has cleared #connection without closing it.
StartChannel(w) ==
    /\ spc[w] = "channel"
    /\ IF conn[w] = "open" \/ w \in leaked
       THEN /\ chan' = [chan EXCEPT ![w] = "open"]
            /\ spc' = [spc EXCEPT ![w] = "assert"]
            /\ UNCHANGED <<status, consumerTag, continueForever, stops>>
       ELSE /\ StartFails(w)
            /\ UNCHANGED chan
    /\ UNCHANGED <<broker, node, conn, lpc, hpc, pendingClose, emitted, result, drops, leaked>>

\* assertQueue() resolves.  In serial mode start() then calls infiniteLoop()
\* without awaiting it: the loop sets #continueForever and issues its first
\* get() before start() sets the status to connected.
StartAssert(w) ==
    /\ spc[w] = "assert"
    /\ IF chan[w] = "open"
       THEN IF Parallel
            THEN /\ spc' = [spc EXCEPT ![w] = "consume"]
                 /\ UNCHANGED <<status, continueForever, lpc, consumerTag, stops>>
            ELSE /\ continueForever' = [continueForever EXCEPT ![w] = TRUE]
                 /\ lpc' = [lpc EXCEPT ![w] = "get"]
                 /\ status' = [status EXCEPT ![w] = "connected"]
                 /\ spc' = [spc EXCEPT ![w] = "done"]
                 /\ UNCHANGED <<consumerTag, stops>>
       ELSE /\ StartFails(w)
            /\ UNCHANGED lpc
    /\ UNCHANGED <<broker, node, conn, chan, hpc, pendingClose, emitted, result, drops, leaked>>

\* prefetch() and consume() resolve (parallel mode).
StartConsume(w) ==
    /\ spc[w] = "consume"
    /\ IF chan[w] = "open"
       THEN /\ consuming' = [consuming EXCEPT ![w] = TRUE]
            /\ consumerTag' = [consumerTag EXCEPT ![w] = TRUE]
            /\ status' = [status EXCEPT ![w] = "connected"]
            /\ spc' = [spc EXCEPT ![w] = "done"]
            /\ UNCHANGED <<continueForever, stops>>
       ELSE /\ StartFails(w)
            /\ UNCHANGED consuming
    /\ UNCHANGED <<queue, unacked, replies, acked, node, conn, chan, lpc, hpc,
                   pendingClose, emitted, result, drops, leaked>>

-----------------------------------------------------------------------------
(* stop() *)

StopCall(w) ==
    /\ ~Supervised
    /\ spc[w] # "new"
    /\ UserAwaitsStart => spc[w] \in {"done", "failed"}
    /\ stops[w]["user"] = "none"
    /\ StopSync(w, "user")
    /\ UNCHANGED <<broker, node, status, conn, chan, spc, lpc, hpc,
                   pendingClose, emitted, result, drops, leaked>>

\* channel.cancel(consumerTag) resolves (a closed channel rejects it, and the
\* error is logged).
StopCancel(w, c) ==
    /\ stops[w][c] = "cancel"
    /\ consuming' = [consuming EXCEPT ![w] = consuming[w] /\ chan[w] # "open"]
    /\ stops' = [stops EXCEPT ![w][c] = "drain"]
    /\ UNCHANGED <<queue, unacked, replies, acked, node, status, conn, chan,
                   consumerTag, continueForever, spc, lpc, hpc, pendingClose,
                   emitted, result, drops, leaked>>

\* waitForPending(channel) returns once no message handling of the worker is
\* in flight; then channel.close() is issued.
StopDrain(w, c) ==
    /\ stops[w][c] = "drain"
    /\ InFlight(w) = {}
    /\ stops' = [stops EXCEPT ![w][c] = "closeChan"]
    /\ UNCHANGED <<broker, node, status, conn, chan, consumerTag, continueForever,
                   spc, lpc, hpc, pendingClose, emitted, result, drops, leaked>>

\* channel.close() resolves; the 'close' event it causes carries no error and
\* the listener ignores it.  Then connection.close() is issued on #connection
\* as it is now: when start() is still awaiting connect() the field is
\* undefined and nothing is closed.
StopCloseChan(w, c) ==
    /\ stops[w][c] = "closeChan"
    /\ IF chan[w] = "open" THEN ChannelClosed(w, "closed")
                           ELSE UNCHANGED <<queue, unacked, consuming, chan>>
    /\ stops' = [stops EXCEPT ![w][c] = IF conn[w] = "none" THEN "closeNoConn"
                                                           ELSE "closeConn"]
    /\ UNCHANGED <<replies, acked, node, status, conn, consumerTag, continueForever,
                   spc, lpc, hpc, pendingClose, emitted, result, drops, leaked>>

\* The supervisor's CONNECTION_ERROR_EVENT listener on a worker (spec
\* §4.4): a failure of the current worker discards it and calls
\* workerFactory() for a replacement; an event of any other worker is not
\* the current one's and changes nothing.
OnConnectionError(w) ==
    /\ IF Supervised /\ w = current
       THEN /\ current' = "none"
            /\ factory' = "pending"
       ELSE UNCHANGED <<current, factory>>
    /\ UNCHANGED <<handle, stopTarget>>

\* Mutant of emitEvent: the event is emitted under another name, so no
\* listener hears it.
emitEvent_noListener(w, c) ==
    /\ emitted' = [emitted EXCEPT ![w] = IF c = "user" THEN @ ELSE @ + 1]
    /\ UNCHANGED sup

\* emitEvent(CONNECTION_ERROR_EVENT, err): emitted by connectionErrorHandler
\* once its stop() has resolved, never by the user's own stop().  emit()
\* calls the registered listeners synchronously.
emitEvent(w, c) ==
    /\ emitted' = [emitted EXCEPT ![w] = IF c = "user" THEN @ ELSE @ + 1]
    /\ IF c = "user" THEN UNCHANGED sup ELSE OnConnectionError(w)

\* A connection start() opened after stop() issued connection.close() on an
\* undefined #connection: stop() now clears the field and the connection
\* stays open, with the channel start() may have created on it.
Leaks(w, c) == stops[w][c] = "closeNoConn" /\ conn[w] = "open"

\* Mutants of StopCloseConn.  StopCloseConnWith is StopCloseConn with two
\* switches: whether connection.close() closes the connection, and whether
\* the status is reset to idle.
StopCloseConnWith(w, c, closesConn, resetsStatus) ==
    /\ stops[w][c] \in {"closeConn", "closeNoConn"}
    /\ IF Leaks(w, c)
       THEN /\ chan' = [chan EXCEPT ![w] = "none"]
            /\ leaked' = leaked \cup {w}
            /\ UNCHANGED <<queue, unacked, consuming>>
       ELSE /\ IF chan[w] = "open" THEN ChannelClosed(w, "none")
                                   ELSE /\ chan' = [chan EXCEPT ![w] = "none"]
                                        /\ UNCHANGED <<queue, unacked, consuming>>
            /\ UNCHANGED leaked
    /\ conn' = IF closesConn \/ Leaks(w, c) THEN [conn EXCEPT ![w] = "none"] ELSE conn
    /\ status' = IF resetsStatus THEN [status EXCEPT ![w] = "idle"] ELSE status
    /\ stops' = [stops EXCEPT ![w][c] = "done"]
    /\ emitEvent(w, c)
    /\ UNCHANGED <<replies, acked, node, consumerTag, continueForever, spc, lpc,
                   hpc, pendingClose, result, drops>>

\* The final reset of #status to idle is missing.
StopCloseConn_noIdle(w, c) == StopCloseConnWith(w, c, TRUE, FALSE)
\* stop() closes the channel but never the connection.
StopCloseConn_keepConn(w, c) == StopCloseConnWith(w, c, FALSE, TRUE)

\* connection.close() resolves; stop() clears both fields and sets the status
\* to idle.  A connection and channel the close did not reach stay open on
\* the broker, forgotten by the worker.  When stop() ran inside
\* connectionErrorHandler, the handler then emits CONNECTION_ERROR_EVENT.
StopCloseConn(w, c) ==
    /\ stops[w][c] \in {"closeConn", "closeNoConn"}
    /\ IF Leaks(w, c)
       THEN /\ chan' = [chan EXCEPT ![w] = "none"]
            /\ leaked' = leaked \cup {w}
            /\ UNCHANGED <<queue, unacked, consuming>>
       ELSE /\ IF chan[w] = "open" THEN ChannelClosed(w, "none")
                                   ELSE /\ chan' = [chan EXCEPT ![w] = "none"]
                                        /\ UNCHANGED <<queue, unacked, consuming>>
            /\ UNCHANGED leaked
    /\ conn' = [conn EXCEPT ![w] = "none"]
    /\ status' = [status EXCEPT ![w] = "idle"]
    /\ stops' = [stops EXCEPT ![w][c] = "done"]
    /\ emitEvent(w, c)
    /\ UNCHANGED <<replies, acked, node, consumerTag, continueForever, spc, lpc,
                   hpc, pendingClose, result, drops>>

-----------------------------------------------------------------------------
(* Message intake: the parallel consumer and the serial infiniteLoop() *)

\* Mutant of Consume: the prefetch limit is off by one.
Consume_prefetchOffByOne(w, m) ==
    /\ consuming[w] /\ chan[w] = "open"
    /\ m \in queue
    /\ Cardinality(unacked[w]) <= ParallelTxs
    /\ queue' = queue \ {m}
    /\ unacked' = [unacked EXCEPT ![w] = @ \cup {m}]
    /\ hpc' = [hpc EXCEPT ![w][m] = "submit"]
    /\ UNCHANGED <<consuming, replies, acked, node, status, conn, chan,
                   consumerTag, continueForever, spc, lpc, stops, pendingClose,
                   emitted, result, drops, leaked>>

\* The broker pushes m to w's consumer, at most ParallelTxs unacked at a
\* time; parallelHandler calls submitTx(m) without awaiting it.
Consume(w, m) ==
    /\ consuming[w] /\ chan[w] = "open"
    /\ m \in queue
    /\ Cardinality(unacked[w]) < ParallelTxs
    /\ queue' = queue \ {m}
    /\ unacked' = [unacked EXCEPT ![w] = @ \cup {m}]
    /\ hpc' = [hpc EXCEPT ![w][m] = "submit"]
    /\ UNCHANGED <<consuming, replies, acked, node, status, conn, chan,
                   consumerTag, continueForever, spc, lpc, stops, pendingClose,
                   emitted, result, drops, leaked>>

\* channel.get() resolves with a message, which the loop hands to submitTx and
\* awaits, or with none, and the loop sleeps #pollingCycle ms.  On a channel
\* closed meanwhile get() rejects, and the rejection ends the floating loop.
LoopGet(w) ==
    /\ lpc[w] = "get"
    /\ IF chan[w] = "open"
       THEN IF queue = {}
            THEN /\ lpc' = [lpc EXCEPT ![w] = "sleep"]
                 /\ UNCHANGED <<queue, unacked, hpc>>
            ELSE \E m \in queue :
                   /\ queue' = queue \ {m}
                   /\ unacked' = [unacked EXCEPT ![w] = @ \cup {m}]
                   /\ hpc' = [hpc EXCEPT ![w][m] = "submit"]
                   /\ lpc' = [lpc EXCEPT ![w] = "handle"]
       ELSE /\ lpc' = [lpc EXCEPT ![w] = "off"]
            /\ UNCHANGED <<queue, unacked, hpc>>
    /\ UNCHANGED <<consuming, replies, acked, node, status, conn, chan,
                   consumerTag, continueForever, spc, stops, pendingClose,
                   emitted, result, drops, leaked>>

\* The awaited submitTx or sleep is over: the while condition is checked and
\* the next get() issued (on an undefined #channel it yields undefined and
\* the loop sleeps again).
LoopResume(w) ==
    /\ \/ lpc[w] = "sleep"
       \/ lpc[w] = "handle" /\ InFlight(w) = {}
    /\ lpc' = [lpc EXCEPT ![w] = IF ~continueForever[w] THEN "off"
                                 ELSE IF chan[w] = "none" THEN "sleep"
                                 ELSE "get"]
    /\ UNCHANGED <<broker, node, status, conn, chan, consumerTag, continueForever,
                   spc, hpc, stops, pendingClose, emitted, result, drops, leaked>>

-----------------------------------------------------------------------------
(* submitTx(message) and submitTxErrorHandler *)

\* Mutants of submitTx.  SubmitTxWith is submitTx with three switches that
\* break its open-channel branch: ack instead of nack after a
\* retryable error, ack after success, reply after a retryable error.
SubmitTxWith(w, m, ackRetry, ackOk, replyRetry) ==
    /\ hpc[w][m] = "submit"
    /\ \E v \in UpstreamVerdicts(m) :
         /\ accepted' = IF v = "ok" THEN accepted \cup {m} ELSE accepted
         /\ rejected' = IF v = "fatal" THEN rejected \cup {m} ELSE rejected
         /\ IF chan[w] = "open"
            THEN LET settles == (v = "fatal") \/ (v = "ok" /\ ackOk)
                                \/ (v = "retry" /\ ackRetry)
                 IN /\ unacked' = IF settles \/ v = "retry"
                                  THEN [unacked EXCEPT ![w] = @ \ {m}] ELSE unacked
                    /\ queue' = IF v = "retry" /\ ~ackRetry THEN queue \cup {m} ELSE queue
                    /\ acked' = IF settles THEN acked \cup {m} ELSE acked
                    /\ hpc' = [hpc EXCEPT ![w][m] =
                                 CASE v = "ok"    -> "replyOk"
                                   [] v = "fatal" -> "replyFatal"
                                   [] OTHER       -> IF replyRetry THEN "replyFatal" ELSE "none"]
            ELSE /\ hpc' = [hpc EXCEPT ![w][m] = "none"]
                 /\ UNCHANGED <<queue, unacked, acked>>
    /\ UNCHANGED <<consuming, replies, status, conn, chan, consumerTag,
                   continueForever, spc, lpc, stops, pendingClose, emitted,
                   result, drops, leaked>>

\* The finally block also replies after a retryable error.
submitTx_replyOnRetry(w, m) == SubmitTxWith(w, m, FALSE, TRUE, TRUE)
\* A retryable error acks the message instead of nacking it.
submitTx_ackOnRetry(w, m) == SubmitTxWith(w, m, TRUE, TRUE, FALSE)
\* The ack after a successful submission is missing.
submitTx_noAckOnSuccess(w, m) == SubmitTxWith(w, m, FALSE, FALSE, FALSE)

\* txSubmitProvider.submitTx resolves or rejects.  On an open channel the
\* message is acked after success and after a non-retryable error, nacked
\* (requeued) after a retryable one.  On a closed channel ack/nack throw and
\* on an undefined one they do nothing; either way the reply that follows
\* fails (assertQueue rejects or #channel! is undefined) and is only logged.
submitTx(w, m) ==
    /\ hpc[w][m] = "submit"
    /\ \E v \in UpstreamVerdicts(m) :
         /\ accepted' = IF v = "ok" THEN accepted \cup {m} ELSE accepted
         /\ rejected' = IF v = "fatal" THEN rejected \cup {m} ELSE rejected
         /\ IF chan[w] = "open"
            THEN /\ unacked' = [unacked EXCEPT ![w] = @ \ {m}]
                 /\ queue' = IF v = "retry" THEN queue \cup {m} ELSE queue
                 /\ acked' = IF v = "retry" THEN acked ELSE acked \cup {m}
                 /\ hpc' = [hpc EXCEPT ![w][m] = CASE v = "ok"    -> "replyOk"
                                                   [] v = "fatal" -> "replyFatal"
                                                   [] OTHER       -> "none"]
            ELSE /\ hpc' = [hpc EXCEPT ![w][m] = "none"]
                 /\ UNCHANGED <<queue, unacked, acked>>
    /\ UNCHANGED <<consuming, replies, status, conn, chan, consumerTag,
                   continueForever, spc, lpc, stops, pendingClose, emitted,
                   result, drops, leaked>>

\* Mutant of SendResponse: the outcome is sent twice, as when the try block
\* and the finally block both reply.
SendResponse_twice(w, m) ==
    /\ hpc[w][m] \in {"replyOk", "replyFatal"}
    /\ LET o == IF hpc[w][m] = "replyOk" THEN "ok" ELSE "fatal"
       IN replies' = IF chan[w] = "open"
                     THEN [replies EXCEPT ![m] = @ \o <<o, o>>]
                     ELSE replies
    /\ hpc' = [hpc EXCEPT ![w][m] = "none"]
    /\ UNCHANGED <<queue, unacked, consuming, acked, node, status, conn, chan,
                   consumerTag, continueForever, spc, lpc, stops, pendingClose,
                   emitted, result, drops, leaked>>

\* The finally block: assertQueue(txId) and sendToQueue(txId, outcome); both
\* need the channel to be open when they complete, or the error is logged.
SendResponse(w, m) ==
    /\ hpc[w][m] \in {"replyOk", "replyFatal"}
    /\ replies' = IF chan[w] = "open"
                  THEN [replies EXCEPT ![m] = Append(@, IF hpc[w][m] = "replyOk"
                                                        THEN "ok" ELSE "fatal")]
                  ELSE replies
    /\ hpc' = [hpc EXCEPT ![w][m] = "none"]
    /\ UNCHANGED <<queue, unacked, consuming, acked, node, status, conn, chan,
                   consumerTag, continueForever, spc, lpc, stops, pendingClose,
                   emitted, result, drops, leaked>>

-----------------------------------------------------------------------------
(* Broker-initiated closes and the 'close' listeners *)

\* The connection drops, a forgotten one included: its channel closes with
\* it and the broker requeues the channel's unacked messages, and the
\* connection's 'close' listener (and the channel's, when it is given an
\* error) must run.
ConnDrop(w) ==
    /\ drops < MaxDrops /\ (conn[w] = "open" \/ w \in leaked)
    /\ conn' = [conn EXCEPT ![w] = IF @ = "open" THEN "closed" ELSE @]
    /\ leaked' = leaked \ {w}
    /\ IF chan[w] = "open" \/ w \in leaked
       THEN ChannelClosed(w, IF chan[w] = "open" THEN "closed" ELSE chan[w])
       ELSE UNCHANGED <<queue, unacked, consuming, chan>>
    /\ pendingClose' = [pendingClose EXCEPT ![w] =
          {"conn"} \cup IF ChannelCloseHasError /\ chan[w] = "open" THEN {"chan"} ELSE {}]
    /\ drops' = drops + 1
    /\ UNCHANGED <<replies, acked, node, status, consumerTag, continueForever,
                   spc, lpc, hpc, stops, emitted, result>>

\* The broker closes only the channel.
ChanDrop(w) ==
    /\ drops < MaxDrops /\ chan[w] = "open"
    /\ ChannelClosed(w, "closed")
    /\ pendingClose' = [pendingClose EXCEPT ![w] =
                          IF ChannelCloseHasError THEN {"chan"} ELSE {}]
    /\ drops' = drops + 1
    /\ UNCHANGED <<replies, acked, node, status, conn, consumerTag, continueForever,
                   spc, lpc, hpc, stops, emitted, result, leaked>>

\* A 'close' listener given an error: connectionErrorHandler(true, error).
CloseListener(w, c) ==
    /\ c \in pendingClose[w]
    /\ pendingClose' = [pendingClose EXCEPT ![w] = @ \ {c}]
    /\ connectionErrorHandler(w, c)
    /\ UNCHANGED <<broker, node, conn, chan, spc, lpc, hpc, emitted, result, drops, leaked>>

-----------------------------------------------------------------------------
(* The client: publish to the submission queue, read the reply queue once *)

Publish(m) ==
    /\ result[m] = "unsent"
    /\ queue' = queue \cup {m}
    /\ result' = [result EXCEPT ![m] = "pending"]
    /\ UNCHANGED <<unacked, consuming, replies, acked, node, worker, drops, leaked>>

ReceiveReply(m) ==
    /\ result[m] = "pending" /\ replies[m] # <<>>
    /\ result' = [result EXCEPT ![m] = Head(replies[m])]
    /\ replies' = [replies EXCEPT ![m] = Tail(@)]
    /\ UNCHANGED <<queue, unacked, consuming, acked, node, worker, drops, leaked>>

-----------------------------------------------------------------------------
(* The supervisor, startTxSubmitWorkerWithDiscovery(workerFactory) (spec    *)
(* §4.4 and its tests; its code is not in the repository).  A worker is    *)
(* used once: a replacement is a worker whose start() was never called.    *)

\* workerFactory() resolves with a fresh worker: the listener is registered
\* and start() is called on it, unless the handle was stopped meanwhile, so
\* that no replacement outlives stop() (spec §4.4).  Or discovery gives up
\* (spec §4.3) and the factory rejects; the first call then rejects
\* startTxSubmitWorkerWithDiscovery itself.
FactoryResolves ==
    /\ factory = "pending"
    /\ factory' = "idle"
    /\ \/ \E w \in Workers :
            /\ spc[w] = "new" /\ handle # "stopped"
            /\ current' = w
            /\ spc' = [spc EXCEPT ![w] = "health"]
            /\ UNCHANGED handle
       \/ /\ handle = "stopped"
          /\ UNCHANGED <<current, spc, handle>>
       \/ /\ handle' = IF handle = "pending" THEN "rejected" ELSE handle
          /\ UNCHANGED <<current, spc>>
    /\ UNCHANGED <<broker, node, status, conn, chan, consumerTag, continueForever,
                   lpc, hpc, stops, pendingClose, emitted, result, drops, leaked, stopTarget>>

\* The first worker's start() settles: startTxSubmitWorkerWithDiscovery
\* resolves with the handle (start() also resolves when its catch block ran
\* connectionErrorHandler), or rejects when the health check failed.
StartSettles ==
    /\ Supervised /\ handle = "pending"
    /\ \E w \in Workers :
         \/ /\ \/ spc[w] = "done"
               \/ spc[w] = "failed" /\ stops[w]["start"] = "done"
            /\ handle' = "ready"
         \/ /\ spc[w] = "failed" /\ stops[w]["start"] = "none"
            /\ handle' = "rejected"
    /\ UNCHANGED <<broker, node, worker, result, drops, current, factory, stopTarget>>

\* stop() on the handle stops the worker that is current when it is called.
SupervisorStop ==
    /\ Supervised /\ handle = "ready"
    /\ handle' = "stopped"
    /\ stopTarget' = current
    /\ IF current # "none" /\ stops[current]["user"] = "none"
       THEN StopSync(current, "user")
       ELSE UNCHANGED <<consumerTag, continueForever, stops>>
    /\ UNCHANGED <<broker, node, status, conn, chan, spc, lpc, hpc, pendingClose,
                   emitted, result, drops, leaked, current, factory>>

-----------------------------------------------------------------------------

\* Every step of worker w; only the end of a stop() can notify the supervisor.
WorkerStep(w) ==
    \/ /\ \/ StartCall(w) \/ StartHealth(w) \/ StartConnect(w) \/ StartChannel(w)
          \/ StartAssert(w) \/ StartConsume(w) \/ StopCall(w)
          \/ \E c \in Callers : StopCancel(w, c) \/ StopDrain(w, c) \/ StopCloseChan(w, c)
          \/ LoopGet(w) \/ LoopResume(w)
          \/ \E m \in Msgs : Consume(w, m) \/ submitTx(w, m) \/ SendResponse(w, m)
          \/ ConnDrop(w) \/ ChanDrop(w)
       /\ UNCHANGED sup
    \/ \E c \in Callers : StopCloseConn(w, c)

Next ==
    \/ \E w \in Workers, c \in {"conn", "chan"} : CloseListener(w, c) /\ UNCHANGED sup
    \/ /\ Quiet
       /\ \/ \E w \in Workers : WorkerStep(w)
          \/ \E m \in Msgs : (Publish(m) \/ ReceiveReply(m)) /\ UNCHANGED sup
          \/ FactoryResolves \/ StartSettles \/ SupervisorStop

Spec == Init /\ [][Next]_vars

\* The variables other than the supervisor's: a worker step other than the
\* end of a stop() leaves the supervisor alone.
wvars == <<broker, node, worker, result, drops, leaked>>

\* Every continuation of the worker runs once what it awaits has resolved:
\* the event loop runs ready callbacks, and the broker, the node and the
\* timers answer.  The user's calls, the client's publications and the
\* broker's drops are not forced to happen.
Fairness ==
    /\ \A w \in Workers :
         /\ WF_wvars(StartHealth(w)) /\ WF_wvars(StartConnect(w))
         /\ WF_wvars(StartChannel(w)) /\ WF_wvars(StartAssert(w))
         /\ WF_wvars(StartConsume(w))
         /\ \A c \in Callers : /\ WF_wvars(StopCancel(w, c)) /\ WF_wvars(StopDrain(w, c))
                               /\ WF_wvars(StopCloseChan(w, c))
                               /\ WF_vars(StopCloseConn(w, c))
                               /\ WF_wvars(CloseListener(w, c))
         /\ WF_wvars(LoopGet(w)) /\ WF_wvars(LoopResume(w))
         /\ \A m \in Msgs : /\ WF_wvars(Consume(w, m)) /\ WF_wvars(submitTx(w, m))
                            /\ WF_wvars(SendResponse(w, m))
    /\ \A m \in Msgs : WF_wvars(ReceiveReply(m))
    /\ WF_vars(FactoryResolves)

FairSpec == Spec /\ Fairness

-----------------------------------------------------------------------------
(* Properties *)

Published == {m \in Msgs : result[m] # "unsent"}

\* w's connection is open on the broker, held in #connection or forgotten.
ConnOpen(w) == conn[w] = "open" \/ w \in leaked

\* A channel left open on a forgotten connection, no longer held in #channel.
Orphaned(w) == w \in leaked /\ chan[w] # "open"

\* The replies submitTx has decided on and its finally block has not sent.
Owed == {<<p[2], IF hpc[p[1]][p[2]] = "replyOk" THEN "ok" ELSE "fatal">> :
           p \in {p \in Workers \X Msgs : hpc[p[1]][p[2]] \in {"replyOk", "replyFatal"}}}

Submission == INSTANCE TxSubmission WITH published <- Published, owed <- Owed

\* The workers, the broker and the node together implement the abstract
\* submission service: submitTx sends the node only published transactions,
\* and its finally block sends each terminal verdict at most once, as the
\* verdict, or loses it on a closed channel.
TxSubmissionSpec == Submission!Spec

\* Every reply the worker publishes, and every result a client reads, agrees
\* with a verdict the node gave: submitTx's finally block replies only after
\* a success or a non-retryable error, never after a retryable one.
RepliesMatchUpstream ==
    \A m \in Msgs :
       /\ \A i \in DOMAIN replies[m] :
             /\ replies[m][i] = "ok" => m \in accepted
             /\ replies[m][i] = "fatal" => m \in rejected
       /\ result[m] = "ok" => m \in accepted
       /\ result[m] = "fatal" => m \in rejected

\* A published transaction never vanishes from the broker: it is ready in the
\* queue, unacked on some channel, or was acked by submitTx after the node
\* gave a terminal verdict on it (ack after success or fatal error, nack
\* after a retryable one, requeue of unacked messages on channel close).
NoMessageLost ==
    /\ \A m \in Published :
          \/ m \in queue
          \/ \E w \in Workers : m \in unacked[w]
          \/ m \in acked
    /\ acked \subseteq accepted \cup rejected

\* stop() closes the channel only once message intake has ended and the
\* handling in flight is over, so no submitTx of the worker runs while its
\* channel is being closed (spec §4.1 stop() and §5 cancellation).
StopDrainsHandlers ==
    \A w \in Workers :
       (\E c \in Callers : stops[w][c] \in {"closeChan", "closeConn", "closeNoConn"}) =>
          InFlight(w) = {}

\* A worker whose connection failed (status error) always gets back to idle:
\* the stop() that connectionErrorHandler runs completes.
ErrorLeadsToIdle ==
    \A w \in Workers : status[w] = "error" ~> status[w] = "idle"

\* A message delivered to a worker is eventually settled: submitTx acks or
\* nacks it, or its channel closes and the broker requeues it.  The one
\* exception is a message on a channel a stop() during start() left open
\* and forgot (Orphaned); that stop() is the stop_during_start finding.
DeliveredIsSettled ==
    \A w \in Workers, m \in Msgs :
       m \in unacked[w] ~> (m \notin unacked[w] \/ Orphaned(w))

\* A worker emits CONNECTION_ERROR_EVENT at most once (spec §6: the event is
\* emitted at most once per Worker instance).
EmitAtMostOnce == \A w \in Workers : emitted[w] <= 1

\* A message the worker acked has its outcome on the way to the client: the
\* reply is being sent, waits in the reply queue, or was read (spec §1: every
\* submitted transaction yields a correlated result).
AckedHasReply ==
    \A m \in acked :
       \/ \E w \in Workers : hpc[w][m] \in {"replyOk", "replyFatal"}
       \/ replies[m] # <<>>
       \/ result[m] \in {"ok", "fatal"}

\* A client is never told that a transaction the node accepted failed
\* (spec §8: submissions the upstream accepts resolve to success).
AcceptedNeverReportedFailed ==
    \A m \in accepted : result[m] # "fatal"

\* Under the supervisor at most one worker holds an open connection: a
\* failed worker's connectionErrorHandler awaits its stop(), which closes
\* the connection, before it emits the CONNECTION_ERROR_EVENT on which the
\* supervisor starts the replacement (spec §4.4, one active worker).
OneActiveWorker ==
    \A v, w \in Workers : ConnOpen(v) /\ ConnOpen(w) => v = w

\* Where the supervisor may come to rest after a failure: stopped, with no
\* broker left to discover, with a current worker connected, or with one
\* whose health check failed (start() throws before any connection).
Recovered ==
    \/ handle = "stopped"
    \/ current = "none" /\ factory = "idle"
    \/ /\ current # "none"
       /\ \/ status[current] = "connected"
          \/ spc[current] = "failed" /\ stops[current]["start"] = "none"

\* A connection failure of the supervisor's current worker is followed by a
\* connected replacement, unless the handle was stopped, discovery gave up
\* or the replacement's health check failed (spec §8, supervisor property:
\* on the failure event a new worker is constructed and started).
FailedWorkerIsReplaced ==
    \A w \in Workers : (w = current /\ status[w] = "error") ~> Recovered

\* Once the handle's stop() has completed (the worker it stopped has finished
\* stop() and no replacement is pending), no worker holds an open connection
\* (spec §4.4: stop() must not leave an orphaned, still-running worker).
SupervisorStopLeavesNoWorker ==
    /\ handle = "stopped" /\ factory = "idle"
    /\ stopTarget = "none" \/ stops[stopTarget]["user"] = "done"
    => \A w \in Workers : ~ConnOpen(w)

=============================================================================

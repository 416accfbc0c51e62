----------------------------- MODULE TxSubmission -----------------------------
(***************************************************************************)
(* What the RabbitMQ transaction submission service promises the node and *)
(* its clients, whatever the number of workers, their modes and the broker *)
(* failures: a transaction reaches the node only once a client published   *)
(* it; each submission the node answers with a terminal verdict owes the   *)
(* client at most one reply, and that reply is the verdict; a reply can be *)
(* lost, a submission can be repeated, and a transient failure changes     *)
(* nothing.  TxSubmitWorker refines this module (see TxSubmissionSpec in  *)
(* TxSubmitWorker.tla).                                                    *)
(***************************************************************************)
EXTENDS Sequences

CONSTANTS
    Msgs,       \* signed transactions clients can publish
    Invalid     \* transactions the node rejects when first submitted

VARIABLES
    published,  \* transactions a client published
    accepted,   \* transactions the node accepted
    rejected,   \* transactions the node rejected with a non-retryable error
    owed,       \* <<m, outcome>>: a reply the service decided and has not sent yet
    replies,    \* replies[m]: the outcomes waiting in m's reply queue
    result      \* result[m]: what the client's request for m resolved to

vars == <<published, accepted, rejected, owed, replies, result>>

Outcomes == {"ok", "fatal"}

\* The node's terminal verdict on m: a transaction it already accepted is a
\* duplicate, an invalid one is rejected, any other is accepted.
Verdict(m) == IF m \in accepted \/ m \in Invalid THEN "fatal" ELSE "ok"

Init ==
    /\ published = {} /\ accepted = {} /\ rejected = {} /\ owed = {}
    /\ replies = [m \in Msgs |-> <<>>]
    /\ result = [m \in Msgs |-> "unsent"]

Publish(m) ==
    /\ m \notin published
    /\ published' = published \cup {m}
    /\ result' = [result EXCEPT ![m] = "pending"]
    /\ UNCHANGED <<accepted, rejected, owed, replies>>

\* A published transaction is submitted and the node gives its verdict; the
\* reply it calls for is owed, or already lost.
Submit(m) ==
    /\ m \in published
    /\ LET v == Verdict(m)
       IN /\ accepted' = IF v = "ok" THEN accepted \cup {m} ELSE accepted
          /\ rejected' = IF v = "fatal" THEN rejected \cup {m} ELSE rejected
          /\ owed' \in {owed, owed \cup {<<m, v>>}}
    /\ UNCHANGED <<published, replies, result>>

\* An owed reply is sent to m's reply queue, or lost.
Reply(m, o) ==
    /\ <<m, o>> \in owed
    /\ owed' = owed \ {<<m, o>>}
    /\ replies' \in {replies, [replies EXCEPT ![m] = Append(@, o)]}
    /\ UNCHANGED <<published, accepted, rejected, result>>

ReceiveReply(m) ==
    /\ result[m] = "pending" /\ replies[m] # <<>>
    /\ result' = [result EXCEPT ![m] = Head(replies[m])]
    /\ replies' = [replies EXCEPT ![m] = Tail(@)]
    /\ UNCHANGED <<published, accepted, rejected, owed>>

Next == \E m \in Msgs : \/ Publish(m) \/ Submit(m) \/ ReceiveReply(m)
                        \/ \E o \in Outcomes : Reply(m, o)

Spec == Init /\ [][Next]_vars

=============================================================================

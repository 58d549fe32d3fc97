------------------------------ MODULE TopicSetup ------------------------------
(***************************************************************************)
(* The start of a producer process: ensure_topics                          *)
(* (nyc_cab_events/producer/trip_completed.py), then runs of TripProducer. *)
(*                                                                         *)
(* ensure_topics sends one request for both topics and then waits for the  *)
(* two answers, the primary topic's first.  It raises at the first answer  *)
(* that is neither success nor TOPIC_ALREADY_EXISTS; the other topic may   *)
(* exist by then, or be created later.  An answer can be lost: the request *)
(* times out and the topic is there all the same.                          *)
(*                                                                         *)
(* Nothing makes a process call ensure_topics before it produces.  The     *)
(* broker does not create topics by itself, so a message to a topic that   *)
(* is not there is never appended; librdkafka gives up on it.              *)
(***************************************************************************)
EXTENDS TripProducer

VARIABLES
  topics,    \* the topics the broker has
  setup,     \* where the process is in ensure_topics
  creation   \* the answer to its request for each topic

setupVars == <<topics, setup, creation>>

Topic == {"primary", "quarantine"}

\* The topic of a row's messages in a run.
TopicOf(r, row) == IF Quarantined(r, row) THEN "quarantine" ELSE "primary"

\* The topic whose answer the process waits for.
Awaited == [await_primary |-> "primary", await_quarantine |-> "quarantine"]

Awaiting(r) == setup[r] \in DOMAIN Awaited

SetupTypeOK ==
  /\ topics \subseteq Topic
  /\ setup \in [Run -> {"idle", "await_primary", "await_quarantine",
                        "returned", "raised"}]
  /\ creation \in [Run -> [Topic -> {"none", "pending", "created", "exists",
                                     "refused"}]]

\* Any of the topics may be there from before.
SetupInit ==
  /\ Init
  /\ topics \in SUBSET Topic
  /\ setup = [r \in Run |-> "idle"]
  /\ creation = [r \in Run |-> [t \in Topic |-> "none"]]

-----------------------------------------------------------------------------
(* ensure_topics, and what the broker answers.                             *)

\* create_topics returns a future per topic at once.
EnsureTopics(r) ==
  /\ pc[r] \notin Active
  /\ ~Awaiting(r)
  /\ setup' = [setup EXCEPT ![r] = "await_primary"]
  /\ creation' = [creation EXCEPT ![r] = [t \in Topic |-> "pending"]]
  /\ UNCHANGED topics

\* Fault: every KafkaException is passed over.
RaisesNothing(answer) == FALSE

\* Fault: a topic that exists already is an error.
RaisesUnlessCreated(answer) == answer # "created"

Raises(answer) == answer = "refused"

\* fut.result() returns or raises once there is an answer.
TakeAnswer(r) ==
  /\ Awaiting(r)
  /\ creation[r][Awaited[setup[r]]] # "pending"
  /\ setup' = [setup EXCEPT ![r] =
       IF Raises(creation[r][Awaited[@]]) THEN "raised"
       ELSE IF @ = "await_primary" THEN "await_quarantine" ELSE "returned"]
  /\ UNCHANGED <<topics, creation>>

\* The process ends while it waits; the broker may still serve its requests.
Die(r) ==
  /\ Awaiting(r)
  /\ setup' = [setup EXCEPT ![r] = "idle"]
  /\ UNCHANGED <<topics, creation>>

Answer(r, t, answer) ==
  /\ creation[r][t] = "pending"
  /\ creation' = [creation EXCEPT ![r][t] = answer]
  /\ UNCHANGED setup

\* The broker creates a topic that is not there, and says so.
Create(r, t) ==
  /\ Answer(r, t, IF t \in topics THEN "exists" ELSE "created")
  /\ topics' = topics \cup {t}

\* The broker refuses, or its answer does not come in time.
Refuse(r, t) ==
  /\ Answer(r, t, "refused")
  /\ \/ UNCHANGED topics
     \/ topics' = topics \cup {t}

\* Another process, or an operator, creates a topic.
CreateElsewhere(t) ==
  /\ topics' = topics \cup {t}
  /\ UNCHANGED <<setup, creation>>

Broker(r) == \E t \in Topic : Create(r, t) \/ Refuse(r, t)

SetupStep ==
  \/ \E r \in Run : EnsureTopics(r) \/ TakeAnswer(r) \/ Die(r) \/ Broker(r)
  \/ \E t \in Topic : CreateElsewhere(t)

-----------------------------------------------------------------------------
(* The producer among its topics.                                          *)

\* A step of a run; the broker has only the topics it has.
ProducerStep(r) ==
  \/ /\ ~Awaiting(r)
     /\ \E rows \in Content, bad \in SUBSET {"slice"} : Start(r, rows, bad)
  \/ Drive(r)
  \/ Abort(r)
  \/ \E row \in Row : \/ TopicOf(r, row) \in topics /\ Send(r, row)
                      \/ Ack(r, row)
                      \/ Nack(r, row)
  \/ Discard(r)

SetupNext ==
  \/ SetupStep /\ UNCHANGED vars
  \/ (\E r \in Run : ProducerStep(r)) /\ UNCHANGED setupVars

SetupSpec == SetupInit /\ [][SetupNext]_<<vars, setupVars>>

\* A request to the broker is answered or times out.
SetupFairness ==
  \A r \in Run : /\ WF_vars(Drive(r) /\ UNCHANGED setupVars)
                 /\ WF_setupVars(TakeAnswer(r) /\ UNCHANGED vars)
                 /\ WF_setupVars(Broker(r) /\ UNCHANGED vars)

SetupFairSpec == SetupSpec /\ SetupFairness

-----------------------------------------------------------------------------
(* What ensure_topics promises.                                            *)

\* When ensure_topics has returned, both topics are there, whoever created them
\* and however many calls failed half-way before.
EnsuredMeansTopicsExist ==
  \A r \in Run : setup[r] = "returned" => topics = Topic

\* A call returns unless the broker refuses one of the topics or the process
\* ends: a call that failed half-way, or another process that creates the same
\* topics at the same time, does not make it raise ("Idempotent: creates each
\* topic if absent; treats TopicAlreadyExistsError as success").
EnsureConverges ==
  \A r \in Run :
    setup[r] = "await_primary" ~>
      \/ setup[r] \in {"returned", "idle"}
      \/ \E t \in Topic : creation[r][t] = "refused"

=============================================================================

---------------------------- MODULE MCMessaging -----------------------------
(***************************************************************************)
(* Instances of Messaging: the crawler, two of whose threads publish       *)
(* batches to the queue of two messages, or one of them an empty batch (an *)
(* application without reviews) before it closes the producer; the         *)
(* analyzer, which publishes events from one thread; and the API, two of   *)
(* whose request threads publish an event each.  The release's admin, with *)
(* another topology, may ensure the topics at the same time.               *)
(***************************************************************************)
EXTENDS Messaging

Message(id, topic) == [id |-> id, topic |-> topic]
Batch(messages) == [kind |-> "batch", messages |-> messages]
Event(message) == [kind |-> "event", messages |-> <<message>>]
Close == [kind |-> "close", messages |-> <<>>]

Crawler ==
    << <<Batch(<<Message(1, "stats"), Message(2, "reviews")>>)>>,
       <<Batch(<<Message(3, "reviews")>>)>> >>
NoReviews ==
    << <<Batch(<<Message(1, "stats")>>)>>, <<Batch(<<>>), Close>> >>
Analyzer ==
    << <<Event(Message(1, "stats")), Event(Message(2, "stats")), Close>>, <<>> >>
Api ==
    << <<Event(Message(1, "stats"))>>, <<Event(Message(2, "stats"))>> >>

CrawlerOrAnalyzer == {Crawler, NoReviews, Analyzer}
OnlyApi == {Api}

TopicNames == {"stats", "reviews"}
NoTopics == [n \in {} |-> 1]
OtherTopology == [crawler |-> 1, admin |-> 3]
Topologies == {NoTopics, [stats |-> 1], [stats |-> 3]}
=============================================================================

------------------------------- MODULE MCFeedPoll -------------------------------
(***************************************************************************)
(* The TLC instance of the feed poller by itself: a document that is       *)
(* republished once, with one item dropped and one added.                  *)
(***************************************************************************)
EXTENDS FeedPoll

MCDocs == <<{1, 2}, {2, 3}>>
================================================================================

----------------------------- MODULE RequestReply -----------------------------
(***************************************************************************)
(* What a person at the console of the diagnostic CLI is promised: a       *)
(* request that takes time is answered once, a prompt is on the screen     *)
(* exactly while nothing is under way, and a request that is stopped is    *)
(* answered as CANCELLED, whatever it had come to.                         *)
(***************************************************************************)
EXTENDS Naturals

CONSTANTS Replies, Nothing

VARIABLES
  busy,      \* a request is under way
  stopping,  \* it has been told to stop
  prompts,   \* prompts printed since the last line was entered
  reply      \* the answer printed since then, or Nothing

conversation == <<busy, stopping, prompts, reply>>

ConversationInit ==
  /\ busy \in BOOLEAN /\ stopping = FALSE
  /\ prompts = IF busy THEN 0 ELSE 1
  /\ reply = Nothing

\* A line that leaves the console idle, and the next look for a line.
Idle ==
  /\ ~busy /\ ~busy' /\ ~stopping'
  /\ prompts' = 1 /\ reply' = Nothing

Accept ==
  /\ ~busy /\ busy' /\ ~stopping'
  /\ prompts' = 0 /\ reply' = Nothing

\* Work, and lines entered meanwhile; one of them may stop it.
Continue ==
  /\ busy /\ busy' /\ (stopping => stopping')
  /\ prompts' = 0 /\ reply' = Nothing

Answer(r) ==
  /\ busy /\ ~busy' /\ ~stopping'
  /\ stopping => r = "CANCELLED"
  /\ prompts' = 1 /\ reply' = r

ConversationNext == Idle \/ Accept \/ Continue \/ \E r \in Replies : Answer(r)

Conversation == ConversationInit /\ [][ConversationNext]_conversation
=============================================================================

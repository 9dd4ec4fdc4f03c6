----------------------------- MODULE Messaging -----------------------------
(***************************************************************************)
(* Writing into a conversation: the two parties' messages, blocks, and the *)
(* stand-in answer an AI gives for the seller (services/messagesService.js, *)
(* queue/index.js, worker.js).                                             *)
(*                                                                         *)
(* An element of Posts is one request that sends a message, together with  *)
(* the stand-in job it may start.  A thread is a pair (listing, buyer),    *)
(* whose conversations row may not exist yet.                              *)
(***************************************************************************)
CONSTANTS
    Threads,
    Posts,          \* requests that send a message
    ThreadOf,       \* ThreadOf[p]: the thread p writes into
    SellerPosts,    \* those sent by the seller; the others are the buyer's
    QueueEnabled,   \* REDIS_URL is set
    Deliveries      \* the executions a queued job may get, by retry or stall

ASSUME MessagingAssumption ==
    /\ ThreadOf \in [Posts -> Threads]
    /\ SellerPosts \subseteq Posts
    /\ QueueEnabled \in BOOLEAN
    /\ "inline" \notin Deliveries

VARIABLES
    exists,         \* threads whose conversations row exists
    sellerReplied,  \* conversations.seller_replied, the threads where it is set
    aiReplied,      \* conversations.ai_replied
    blocked,        \* threads one of whose parties has blocked the other
    posted,         \* posts whose message is in the messages table
    standIns,       \* <<p, i>>: run i of p's job has inserted an AI message
    step,           \* program counter of a post
    knewReplied,    \* seller_replied as the post read it
    trigger,        \* triggerAiReplyInBackground, on behalf of a post
    job,            \* the post's job in the queue
    run             \* runAiReply: in the web process, or one delivery of the job

messagingVars == <<exists, sellerReplied, aiReplied, blocked, posted, standIns, step,
                   knewReplied, trigger, job, run>>

conversation == <<exists, sellerReplied, aiReplied>>
backOf       == <<trigger, job, run>>
BuyerPosts   == Posts \ SellerPosts
Runs         == Deliveries \cup {"inline"}

Step    == {"idle", "allowed", "conflict", "opened", "loaded", "inserted",
            "answered", "refused"}
Trigger == {"none", "called", "claimed", "dispatched", "givenUp", "died"}
Job     == {"none", "waiting", "active", "done", "failed"}
Run     == {"none", "generating", "ended", "died"}

MessagingTypeOK ==
    /\ exists \subseteq Threads
    /\ sellerReplied \subseteq Threads
    /\ aiReplied \subseteq Threads
    /\ blocked \subseteq Threads
    /\ posted \subseteq Posts
    /\ standIns \subseteq Posts \X Runs
    /\ step \in [Posts -> Step]
    /\ knewReplied \subseteq Posts
    /\ trigger \in [Posts -> Trigger]
    /\ job \in [Posts -> Job]
    /\ run \in [Posts -> [Runs -> Run]]

MessagingInit ==
    /\ exists = {} /\ sellerReplied = {} /\ aiReplied = {}
    /\ blocked = {} /\ posted = {} /\ standIns = {}
    /\ step = [p \in Posts |-> "idle"]
    /\ knewReplied = {}
    /\ trigger = [p \in Posts |-> "none"]
    /\ job = [p \in Posts |-> "none"]
    /\ run = [p \in Posts |-> [i \in Runs |-> "none"]]

IsBlockedBetween(k) == k \in blocked      \* either has blocked the other

PostAt(p, from, to) == step[p] = from /\ step' = [step EXCEPT ![p] = to]

-----------------------------------------------------------------------------
(* The buyer writes about a listing: sendBuyerMessage.                     *)

CheckListing(p) ==
    /\ p \in BuyerPosts
    /\ PostAt(p, "idle", IF IsBlockedBetween(ThreadOf[p]) THEN "refused" ELSE "allowed")
    /\ UNCHANGED <<conversation, blocked, posted, standIns, knewReplied, backOf>>

\* getOrCreateConversation.  The loser of two concurrent INSERTs does nothing
\* and reads the winner's row in a statement of its own.
OpenConversation(p) ==
    LET k == ThreadOf[p] IN
    /\ PostAt(p, "allowed", IF k \in exists THEN "conflict" ELSE "opened")
    /\ exists' = exists \cup {k}
    /\ UNCHANGED <<sellerReplied, aiReplied, blocked, posted, standIns, knewReplied, backOf>>

\* knewReplied' of a post that reads its conversation.
Reads(p) == knewReplied' = IF ThreadOf[p] \in sellerReplied
                           THEN knewReplied \cup {p} ELSE knewReplied

ReadConversation(p) ==
    /\ PostAt(p, "conflict", "opened")
    /\ Reads(p)
    /\ UNCHANGED <<conversation, blocked, posted, standIns, backOf>>

-----------------------------------------------------------------------------
(* Either party answers in a conversation: reply.                          *)

LoadConversation(p) ==
    /\ ThreadOf[p] \in exists
    /\ PostAt(p, "idle", "loaded")
    /\ Reads(p)
    /\ UNCHANGED <<conversation, blocked, posted, standIns, backOf>>

CheckBlock(p) ==
    /\ PostAt(p, "loaded", IF IsBlockedBetween(ThreadOf[p]) THEN "refused" ELSE "opened")
    /\ UNCHANGED <<conversation, blocked, posted, standIns, knewReplied, backOf>>

InsertMessage(p) ==
    /\ PostAt(p, "opened", "inserted")
    /\ posted' = posted \cup {p}
    /\ UNCHANGED <<conversation, blocked, standIns, knewReplied, backOf>>

\* The seller's own answer ends the stand-in for good; only then is the
\* request answered.
SellerAnswers(p) ==
    LET k == ThreadOf[p] IN
    /\ p \in SellerPosts
    /\ PostAt(p, "inserted", "answered")
    /\ sellerReplied' = sellerReplied \cup {k}
    /\ aiReplied' = aiReplied \cup {k}
    /\ UNCHANGED <<exists, blocked, posted, standIns, knewReplied, backOf>>

\* The buyer's request is answered; the stand-in is started without waiting,
\* unless the row read at its beginning already said the seller had replied.
BuyerAnswered(p) ==
    /\ p \in BuyerPosts
    /\ PostAt(p, "inserted", "answered")
    /\ trigger' = IF p \in knewReplied THEN trigger ELSE [trigger EXCEPT ![p] = "called"]
    /\ UNCHANGED <<conversation, blocked, posted, standIns, knewReplied, job, run>>

-----------------------------------------------------------------------------
(* blockUser, unblockUser                                                  *)

BlockUser(k) ==
    /\ blocked' = blocked \cup {k}
    /\ UNCHANGED <<conversation, posted, standIns, step, knewReplied, backOf>>

UnblockUser(k) ==
    /\ blocked' = blocked \ {k}
    /\ UNCHANGED <<conversation, posted, standIns, step, knewReplied, backOf>>

-----------------------------------------------------------------------------
(* triggerAiReplyInBackground                                              *)

Triggers(p, from, to) == trigger[p] = from /\ trigger' = [trigger EXCEPT ![p] = to]

(* Mutant: the claim looks at the seller's flag only. *)
ClaimAiReplyAgain(p) ==
    LET k == ThreadOf[p] IN
    /\ Triggers(p, "called", IF k \notin sellerReplied THEN "claimed" ELSE "givenUp")
    /\ aiReplied' = IF k \notin sellerReplied THEN aiReplied \cup {k} ELSE aiReplied
    /\ UNCHANGED <<exists, sellerReplied, blocked, posted, standIns, step, knewReplied, job, run>>

ClaimAiReply(p) ==
    LET k == ThreadOf[p]
        free == k \notin aiReplied /\ k \notin sellerReplied IN
    /\ Triggers(p, "called", IF free THEN "claimed" ELSE "givenUp")
    /\ aiReplied' = IF free THEN aiReplied \cup {k} ELSE aiReplied
    /\ UNCHANGED <<exists, sellerReplied, blocked, posted, standIns, step, knewReplied, job, run>>

\* enqueue: the queue takes the job; or does not (there is none, or Redis is
\* down); or takes it while the answer is lost, which looks like a refusal.
EnqueueOutcomes == IF QueueEnabled THEN {"queued", "refused", "unanswered"} ELSE {"refused"}

(* Mutant: a job the queue refuses is given up. *)
DispatchQueueOnly(p) ==
    /\ Triggers(p, "claimed", "dispatched")
    /\ \E outcome \in EnqueueOutcomes :
         job' = IF outcome = "refused" THEN job ELSE [job EXCEPT ![p] = "waiting"]
    /\ UNCHANGED <<conversation, blocked, posted, standIns, step, knewReplied, run>>

\* A job that is not known to be queued is run in this process.
Dispatch(p) ==
    /\ Triggers(p, "claimed", "dispatched")
    /\ \E outcome \in EnqueueOutcomes :
         /\ job' = IF outcome = "refused" THEN job ELSE [job EXCEPT ![p] = "waiting"]
         /\ run' = IF outcome = "queued" THEN run
                   ELSE [run EXCEPT ![p]["inline"] = "generating"]
    /\ UNCHANGED <<conversation, blocked, posted, standIns, step, knewReplied>>

\* The process ends while it holds the claim.  (One that ends before has
\* changed nothing more: it takes no further step, and no fairness asks for one.)
HolderDies(p) ==
    /\ Triggers(p, "claimed", "died")
    /\ UNCHANGED <<conversation, blocked, posted, standIns, step, knewReplied, job, run>>

-----------------------------------------------------------------------------
(* runAiReply, in the web process and in the worker                        *)

RunAt(p, i, from, to) == run[p][i] = from /\ run' = [run EXCEPT ![p][i] = to]

\* A worker takes the job.  A job whose worker has lost its lock is stalled
\* and taken again, while the first worker may still be at it.
Deliver(p, i) ==
    /\ i \in Deliveries
    /\ job[p] \in {"waiting", "active"}
    /\ RunAt(p, i, "none", "generating")
    /\ job' = [job EXCEPT ![p] = "active"]
    /\ UNCHANGED <<conversation, blocked, posted, standIns, step, knewReplied, trigger>>

\* getAutoReply: a text; or an error, a timeout or an empty answer, all of
\* them thrown as AiUnavailableError.
AutoReplies == {"text", "unavailable"}

(* Mutant: the seller's flag is not looked at again before the INSERT. *)
RunAiReplyUnconditional(p, i) ==
    /\ RunAt(p, i, "generating", "ended")
    /\ \E reply \in AutoReplies :
         IF reply = "text"
           THEN standIns' = standIns \cup {<<p, i>>} /\ UNCHANGED aiReplied
           ELSE aiReplied' = aiReplied \ {ThreadOf[p]} /\ UNCHANGED standIns
    /\ job' = IF i = "inline" THEN job ELSE [job EXCEPT ![p] = "done"]
    /\ UNCHANGED <<exists, sellerReplied, blocked, posted, step, knewReplied, trigger>>

(* Mutant: a failed generation keeps its claim. *)
RunAiReplyKeepsClaim(p, i) ==
    /\ RunAt(p, i, "generating", "ended")
    /\ \E reply \in AutoReplies :
         standIns' = IF reply = "text" /\ ThreadOf[p] \notin sellerReplied
                     THEN standIns \cup {<<p, i>>} ELSE standIns
    /\ job' = IF i = "inline" THEN job ELSE [job EXCEPT ![p] = "done"]
    /\ UNCHANGED <<conversation, blocked, posted, step, knewReplied, trigger>>

\* A text goes through the conditional INSERT; until then nothing of the
\* generation is visible to anybody.  Without a text the claim is released,
\* whoever holds it now.  Either way the job is completed: no attempt follows.
RunAiReply(p, i) ==
    LET k == ThreadOf[p] IN
    /\ RunAt(p, i, "generating", "ended")
    /\ \E reply \in AutoReplies :
         /\ aiReplied' = IF reply = "text" THEN aiReplied ELSE aiReplied \ {k}
         /\ standIns' = IF reply = "text" /\ k \notin sellerReplied
                        THEN standIns \cup {<<p, i>>} ELSE standIns
    /\ job' = IF i = "inline" THEN job ELSE [job EXCEPT ![p] = "done"]
    /\ UNCHANGED <<exists, sellerReplied, blocked, posted, step, knewReplied, trigger>>

\* A statement of the run fails, or its process dies.  A job is delivered
\* again as long as it has attempts left; in the web process nobody tries again.
RunDies(p, i) ==
    /\ RunAt(p, i, "generating", "died")
    /\ job' = IF i = "inline" \/ job[p] # "active" THEN job
              ELSE [job EXCEPT ![p] = IF \E d \in Deliveries : run[p][d] = "none"
                                      THEN "waiting" ELSE "failed"]
    /\ UNCHANGED <<conversation, blocked, posted, standIns, step, knewReplied, trigger>>

-----------------------------------------------------------------------------
SendBuyerMessage(p) == CheckListing(p) \/ OpenConversation(p) \/ ReadConversation(p)
Reply(p)            == LoadConversation(p) \/ CheckBlock(p)

PostMoves(p) ==
    \/ SendBuyerMessage(p) \/ Reply(p)
    \/ InsertMessage(p) \/ SellerAnswers(p) \/ BuyerAnswered(p)

RunMoves(p, i) == Deliver(p, i) \/ RunAiReply(p, i)

TriggerMoves(p) == ClaimAiReply(p) \/ Dispatch(p) \/ HolderDies(p)

MessagingNext ==
    \/ \E p \in Posts : PostMoves(p) \/ TriggerMoves(p)
    \/ \E p \in Posts, i \in Runs : RunMoves(p, i) \/ RunDies(p, i)
    \/ \E k \in Threads : BlockUser(k) \/ UnblockUser(k)

MessagingSpec == MessagingInit /\ [][MessagingNext]_messagingVars

(* The event loop dispatches what is claimed, a generation ends by an       *)
(* answer or by its timeout, and the workers take the jobs that wait.  A   *)
(* post owes nothing: it may die at any point, and takes no further step.  *)
MessagingFairSpec ==
    /\ MessagingSpec
    /\ \A p \in Posts : WF_messagingVars(Dispatch(p))
    /\ \A p \in Posts, i \in Runs : WF_messagingVars(RunMoves(p, i))

-----------------------------------------------------------------------------
PostsOf(k)    == {p \in Posts : ThreadOf[p] = k}
StandInsOf(k) == {s \in standIns : ThreadOf[s[1]] = k}

\* The job of some post of k is executed more than once, or will be.
Redelivered(k) ==
    \E p \in PostsOf(k) :
        \/ \E i, j \in Runs : i # j /\ run[p][i] # "none" /\ run[p][j] # "none"
        \/ job[p] # "none" /\ run[p]["inline"] # "none"

(* At most one AI message in a conversation, as the comment on ai_replied   *)
(* says, unless one job has been executed twice: the claim is taken         *)
(* once for a job, and the execution does not ask for it again.            *)
OneStandIn ==
    \A k \in Threads : \A s, t \in StandInsOf(k) : s = t \/ Redelivered(k)

(* Once the seller's request has been answered no stand-in is added to the  *)
(* conversation, however late a generation or a redelivered job ends.      *)
AnsweredBySeller(k) == \E p \in PostsOf(k) \cap SellerPosts : step[p] = "answered"

QuietAfterAnswer ==
    [][\A k \in Threads : AnsweredBySeller(k) => StandInsOf(k)' = StandInsOf(k)]_messagingVars

(* Somebody will still see to the stand-in p claimed.                      *)
Working(p) ==
    trigger[p] = "claimed" \/ job[p] \in {"waiting", "active"} \/ run[p]["inline"] = "generating"

(* p claimed it, has died, and nobody takes it over.                       *)
Stranded(p) == trigger[p] = "died" \/ run[p]["inline"] = "died" \/ job[p] = "failed"

(* A claim is never left behind: while ai_replied is set and the seller has *)
(* not replied, the answer is there, or somebody works on it, or the        *)
(* process that held the claim has died, or the queue has given the job up. *)
ClaimAccounted ==
    \A k \in aiReplied \ sellerReplied :
        StandInsOf(k) # {} \/ \E p \in PostsOf(k) : Working(p) \/ Stranded(p)

(* A claimed stand-in is given, or released for the next message, or        *)
(* overtaken by the seller, unless its holder died.                        *)
ClaimEnds ==
    \A k \in Threads :
        (k \in aiReplied) ~> (StandInsOf(k) # {} \/ k \in sellerReplied \/ k \notin aiReplied
                              \/ \E p \in PostsOf(k) : Stranded(p))

-----------------------------------------------------------------------------
(* What the first two rest on.                                             *)

\* p's claim has been neither released nor lost to a second execution.
Owns(p) ==
    \/ trigger[p] = "claimed" \/ job[p] \in {"waiting", "active"}
    \/ \E i \in Runs : run[p][i] = "generating" \/ <<p, i>> \in standIns

OneOwner ==
    \A k \in Threads : Redelivered(k) \/ \A p, q \in PostsOf(k) :
        Owns(p) => (Owns(q) => p = q) /\ k \in aiReplied \cup sellerReplied

\* What has run was claimed before, by a request that had been answered, and
\* inserts at most when it ends.
RunsClaimed ==
    \A p \in Posts :
        /\ trigger[p] # "none" => step[p] = "answered"
        /\ trigger[p] # "dispatched" => job[p] = "none" /\ \A i \in Runs : run[p][i] = "none"
        /\ \A i \in Runs : <<p, i>> \in standIns => run[p][i] = "ended"

SellerFlagged == \A k \in Threads : AnsweredBySeller(k) => k \in sellerReplied

(* The inductive invariant: types, one owner of a claim, and a flag set     *)
(* before the seller's request is answered.                                *)
MessagingInv == MessagingTypeOK /\ OneOwner /\ RunsClaimed /\ SellerFlagged
=============================================================================

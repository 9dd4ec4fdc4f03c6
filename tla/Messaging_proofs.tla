--------------------------- MODULE Messaging_proofs ---------------------------
(***************************************************************************)
(* Theorems about Messaging, for any number of threads, posts and          *)
(* executions of a job, with the queue and without it.                     *)
(***************************************************************************)
EXTENDS Messaging, TLAPS

LEMMA InitInv == MessagingInit => MessagingInv
  BY MessagingAssumption
     DEF MessagingInit, MessagingInv, MessagingTypeOK, OneOwner, RunsClaimed, SellerFlagged,
         Owns, PostsOf, AnsweredBySeller, Runs, Step, Trigger, Job, Run

-----------------------------------------------------------------------------
(* Types                                                                   *)

LEMMA TypeStep == MessagingTypeOK /\ [MessagingNext]_messagingVars => MessagingTypeOK'
<1> SUFFICES ASSUME MessagingTypeOK, [MessagingNext]_messagingVars PROVE MessagingTypeOK'
  OBVIOUS
<1> USE MessagingAssumption DEF MessagingTypeOK, BuyerPosts, conversation, backOf
<1>1. ASSUME NEW p \in Posts, PostMoves(p) PROVE MessagingTypeOK'
  <2> USE DEF Step, PostAt
  <2>1. ThreadOf[p] \in Threads /\ Threads \subseteq Threads
    OBVIOUS
  <2>2. CASE CheckListing(p) \/ CheckBlock(p) \/ InsertMessage(p)
    BY <2>2 DEF CheckListing, CheckBlock, InsertMessage
  <2>3. CASE OpenConversation(p)
    BY <2>1, <2>3 DEF OpenConversation
  <2>4. CASE ReadConversation(p) \/ LoadConversation(p)
    BY <2>4 DEF ReadConversation, LoadConversation, Reads
  <2>5. CASE SellerAnswers(p)
    BY <2>1, <2>5 DEF SellerAnswers
  <2>6. CASE BuyerAnswered(p)
    BY <2>6 DEF BuyerAnswered, Trigger
  <2>7. QED
    BY <1>1, <2>2, <2>3, <2>4, <2>5, <2>6 DEF PostMoves, SendBuyerMessage, Reply
<1>2. ASSUME NEW p \in Posts, TriggerMoves(p) PROVE MessagingTypeOK'
  <2>1. ThreadOf[p] \in Threads /\ "inline" \in Runs
    BY DEF Runs
  <2>2. CASE ClaimAiReply(p) \/ HolderDies(p)
    BY <2>1, <2>2 DEF ClaimAiReply, HolderDies, Triggers, Trigger
  <2>3. CASE Dispatch(p)
    <3>1. [job EXCEPT ![p] = "waiting"] \in [Posts -> Job]
      BY DEF Job
    <3>2. [run EXCEPT ![p]["inline"] = "generating"] \in [Posts -> [Runs -> Run]]
      BY <2>1 DEF Run
    <3>3. QED
      BY <2>3, <3>1, <3>2 DEF Dispatch, Triggers, Trigger
  <2>4. QED
    BY <1>2, <2>2, <2>3 DEF TriggerMoves
<1>3. ASSUME NEW p \in Posts, NEW i \in Runs, RunMoves(p, i) \/ RunDies(p, i) PROVE MessagingTypeOK'
  <2>1. ThreadOf[p] \in Threads
    OBVIOUS
  <2>2. CASE Deliver(p, i)
    BY <2>2 DEF Deliver, RunAt, Job, Run
  <2>3. CASE RunAiReply(p, i)
    BY <2>1, <2>3 DEF RunAiReply, RunAt, Job, Run
  <2>4. CASE RunDies(p, i)
    BY <2>4 DEF RunDies, RunAt, Job, Run
  <2>5. QED
    BY <1>3, <2>2, <2>3, <2>4 DEF RunMoves
<1>4. ASSUME NEW k \in Threads, BlockUser(k) \/ UnblockUser(k) PROVE MessagingTypeOK'
  BY <1>4 DEF BlockUser, UnblockUser
<1>5. CASE UNCHANGED messagingVars
  BY <1>5 DEF messagingVars
<1> HIDE DEF MessagingTypeOK
<1>6. QED
  BY <1>1, <1>2, <1>3, <1>4, <1>5 DEF MessagingNext

-----------------------------------------------------------------------------
(* Most steps of a request, and blocks, leave the flags and the stand-ins   *)
(* alone and answer nobody.                                                *)
Quietly ==
  /\ UNCHANGED <<sellerReplied, aiReplied, standIns, trigger, job, run>>
  /\ \A p \in Posts : step'[p] = "answered" <=> step[p] = "answered"

LEMMA Kinds ==
  ASSUME MessagingInv, [MessagingNext]_messagingVars
  PROVE  \/ Quietly
         \/ \E p \in Posts : SellerAnswers(p) \/ BuyerAnswered(p)
         \/ \E p \in Posts : TriggerMoves(p)
         \/ \E p \in Posts, i \in Runs : RunMoves(p, i) \/ RunDies(p, i)
<1> USE DEF MessagingInv, MessagingTypeOK, Quietly, conversation, backOf
<1>1. ASSUME NEW p \in Posts, SendBuyerMessage(p) \/ Reply(p) \/ InsertMessage(p) PROVE Quietly
  BY <1>1 DEF SendBuyerMessage, CheckListing, OpenConversation, ReadConversation, Reply,
              LoadConversation, CheckBlock, InsertMessage, Reads, PostAt
<1>2. ASSUME NEW k \in Threads, BlockUser(k) \/ UnblockUser(k) PROVE Quietly
  BY <1>2 DEF BlockUser, UnblockUser
<1>3. CASE UNCHANGED messagingVars
  BY <1>3 DEF messagingVars
<1> HIDE DEF MessagingInv, MessagingTypeOK, Quietly, conversation, backOf
<1>4. ASSUME NEW p \in Posts, PostMoves(p) PROVE Quietly \/ SellerAnswers(p) \/ BuyerAnswered(p)
  BY <1>1, <1>4 DEF PostMoves
<1>5. QED
  BY <1>2, <1>3, <1>4 DEF MessagingNext

-----------------------------------------------------------------------------
(* One owner of a claim                                                    *)

(* A post whose job was executed twice stays one. *)
LEMMA RedeliveredStays ==
  ASSUME MessagingTypeOK, NEW k \in Threads, Redelivered(k),
         \A p \in Posts : /\ job[p] # "none" => job'[p] # "none"
                         /\ \A i \in Runs : run[p][i] # "none" => run'[p][i] # "none"
  PROVE  Redelivered(k)'
  BY DEF MessagingTypeOK, Redelivered, PostsOf, Runs

(* Nothing that was begun is undone: jobs and runs do not return to "none". *)
LEMMA NothingUndone ==
  ASSUME MessagingTypeOK, [MessagingNext]_messagingVars
  PROVE  \A p \in Posts : /\ job[p] # "none" => job'[p] # "none"
                         /\ \A i \in Runs : run[p][i] # "none" => run'[p][i] # "none"
<1> USE DEF MessagingTypeOK
<1>1. ASSUME NEW p \in Posts, Dispatch(p)
      PROVE  \A q \in Posts : /\ job[q] # "none" => job'[q] # "none"
                             /\ \A i \in Runs : run[q][i] # "none" => run'[q][i] # "none"
  BY <1>1 DEF Dispatch, Runs
<1>2. ASSUME NEW p \in Posts, NEW i \in Runs, RunMoves(p, i) \/ RunDies(p, i)
      PROVE  \A q \in Posts : /\ job[q] # "none" => job'[q] # "none"
                             /\ \A j \in Runs : run[q][j] # "none" => run'[q][j] # "none"
  BY <1>2 DEF RunMoves, Deliver, RunAiReply, RunDies, RunAt
<1>3. QED
  BY <1>1, <1>2
     DEF MessagingNext, messagingVars, PostMoves, SendBuyerMessage, CheckListing, OpenConversation,
         ReadConversation, Reply, LoadConversation, CheckBlock, InsertMessage, SellerAnswers,
         BuyerAnswered, TriggerMoves, ClaimAiReply, HolderDies, BlockUser, UnblockUser, conversation, backOf
(* The rest of the invariant, one conjunct at a time. *)
LEMMA ClaimedStep ==
  ASSUME MessagingInv, [MessagingNext]_messagingVars PROVE RunsClaimed'
<1> USE DEF MessagingInv, MessagingTypeOK, RunsClaimed
<1>1. CASE Quietly
  BY <1>1 DEF Quietly
<1>2. ASSUME NEW p \in Posts, SellerAnswers(p) \/ BuyerAnswered(p) PROVE RunsClaimed'
  BY <1>2 DEF SellerAnswers, BuyerAnswered, PostAt, backOf
<1>3. ASSUME NEW p \in Posts, TriggerMoves(p) PROVE RunsClaimed'
  <2>1. CASE ClaimAiReply(p) \/ HolderDies(p)
    <3>1. UNCHANGED <<job, run, standIns, step>>
      BY <2>1 DEF ClaimAiReply, HolderDies
    <3>2. /\ \A q \in Posts \ {p} : trigger'[q] = trigger[q]
          /\ trigger[p] \notin {"none", "dispatched"} /\ trigger'[p] # "dispatched"
      <4>1. /\ trigger[p] \in {"called", "claimed"}
            /\ \E to \in {"claimed", "givenUp", "died"} : trigger' = [trigger EXCEPT ![p] = to]
        <5>1. CASE ClaimAiReply(p)
          BY <5>1 DEF ClaimAiReply, Triggers
        <5>2. CASE HolderDies(p)
          BY <5>2 DEF HolderDies, Triggers
        <5>3. QED
          BY <2>1, <5>1, <5>2
      <4>2. PICK to \in {"claimed", "givenUp", "died"} : trigger' = [trigger EXCEPT ![p] = to]
        BY <4>1
      <4>3. trigger'[p] = to /\ \A q \in Posts \ {p} : trigger'[q] = trigger[q]
        BY <4>2
      <4>4. QED
        BY <4>1, <4>3
    <3>3. step[p] = "answered"
      BY <3>2
    <3>4. \A q \in Posts : trigger'[q] # "none" => step[q] = "answered"
      BY <3>2, <3>3
    <3>5. \A q \in Posts : trigger'[q] # "dispatched" => trigger[q] # "dispatched"
      BY <3>2
    <3>6. QED
      BY <3>1, <3>4, <3>5
  <2>2. CASE Dispatch(p)
    <3>1. \A q \in Posts \ {p} : job'[q] = job[q] /\ run'[q] = run[q] /\ trigger'[q] = trigger[q]
      BY <2>2 DEF Dispatch, Triggers
    <3>2. trigger[p] = "claimed" /\ trigger'[p] = "dispatched" /\ step' = step /\ standIns' = standIns
      BY <2>2 DEF Dispatch, Triggers
    <3>3. QED
      BY <3>1, <3>2
  <2>3. QED
    BY <1>3, <2>1, <2>2 DEF TriggerMoves
<1>4. ASSUME NEW p \in Posts, NEW i \in Runs, RunMoves(p, i) \/ RunDies(p, i) PROVE RunsClaimed'
  <2>1. CASE Deliver(p, i)
    BY <2>1 DEF Deliver, RunAt
  <2>2. CASE RunAiReply(p, i)
    BY <2>2 DEF RunAiReply, RunAt
  <2>3. CASE RunDies(p, i)
    BY <2>3 DEF RunDies, RunAt
  <2>4. QED
    BY <1>4, <2>1, <2>2, <2>3 DEF RunMoves
<1> HIDE DEF MessagingInv, MessagingTypeOK, RunsClaimed
<1>5. QED
  BY <1>1, <1>2, <1>3, <1>4, Kinds

LEMMA FlaggedStep ==
  ASSUME MessagingInv, [MessagingNext]_messagingVars PROVE SellerFlagged'
<1> USE DEF MessagingInv, MessagingTypeOK, SellerFlagged, AnsweredBySeller, PostsOf
<1>1. CASE Quietly
  BY <1>1 DEF Quietly
<1>2. ASSUME NEW p \in Posts, SellerAnswers(p) \/ BuyerAnswered(p) PROVE SellerFlagged'
  BY <1>2 DEF SellerAnswers, BuyerAnswered, backOf, conversation, PostAt, BuyerPosts
<1>3. ASSUME NEW p \in Posts, TriggerMoves(p) PROVE SellerFlagged'
  BY <1>3 DEF TriggerMoves, ClaimAiReply, HolderDies, Dispatch, conversation
<1>4. ASSUME NEW p \in Posts, NEW i \in Runs, RunMoves(p, i) \/ RunDies(p, i) PROVE SellerFlagged'
  BY <1>4 DEF RunMoves, Deliver, RunAiReply, RunDies, conversation
<1> HIDE DEF MessagingInv, MessagingTypeOK, SellerFlagged
<1>5. QED
  BY <1>1, <1>2, <1>3, <1>4, Kinds

LEMMA OwnerStep ==
  ASSUME MessagingInv, [MessagingNext]_messagingVars PROVE OneOwner'
<1> USE MessagingAssumption DEF MessagingInv, MessagingTypeOK, OneOwner, PostsOf
<1> SUFFICES ASSUME NEW k \in Threads, ~Redelivered(k)',
                    NEW p \in PostsOf(k), NEW q \in PostsOf(k), Owns(p)'
             PROVE  (Owns(q)' => p = q) /\ k \in (aiReplied \cup sellerReplied)'
  OBVIOUS
<1>1. ~Redelivered(k)
  BY RedeliveredStays, NothingUndone
<1>2. \A r, s \in PostsOf(k) :
         Owns(r) => (Owns(s) => r = s) /\ k \in aiReplied \cup sellerReplied
  BY <1>1
<1>3. CASE Quietly
  BY <1>2, <1>3 DEF Quietly, Owns
<1>4. CASE \E r \in Posts : SellerAnswers(r) \/ BuyerAnswered(r)
  BY <1>2, <1>4 DEF SellerAnswers, BuyerAnswered, Owns, backOf, conversation
<1>5. ASSUME NEW r \in Posts, ClaimAiReply(r)
      PROVE  (Owns(q)' => p = q) /\ k \in (aiReplied \cup sellerReplied)'
  <2>1. \A s \in Posts \ {r} : Owns(s)' => Owns(s)
    BY <1>5 DEF ClaimAiReply, Triggers, Owns
  <2>2. Owns(r)' /\ ~Owns(r) => ThreadOf[r] \notin aiReplied \cup sellerReplied
                            /\ ThreadOf[r] \in aiReplied'
    BY <1>5 DEF ClaimAiReply, Triggers, Owns
  <2>3. aiReplied \subseteq aiReplied' /\ sellerReplied' = sellerReplied
    BY <1>5 DEF ClaimAiReply
  <2>4. QED
    BY <1>2, <2>1, <2>2, <2>3
<1>6. ASSUME NEW r \in Posts, Dispatch(r) \/ HolderDies(r)
      PROVE  (Owns(q)' => p = q) /\ k \in (aiReplied \cup sellerReplied)'
  <2>1. \A s \in Posts : Owns(s)' => Owns(s)
    <3>1. /\ Owns(r) /\ standIns' = standIns
          /\ \A s \in Posts \ {r} : /\ job'[s] = job[s] /\ run'[s] = run[s]
                                  /\ trigger'[s] = trigger[s]
      BY <1>6 DEF Dispatch, HolderDies, Triggers, Owns
    <3>2. QED
      BY <3>1 DEF Owns
  <2>2. QED
    BY <1>2, <1>6, <2>1 DEF Dispatch, HolderDies, conversation
<1>7. ASSUME NEW r \in Posts, NEW i \in Runs, Deliver(r, i) \/ RunDies(r, i)
      PROVE  (Owns(q)' => p = q) /\ k \in (aiReplied \cup sellerReplied)'
  <2>1. \A s \in Posts : Owns(s)' => Owns(s)
    <3>1. /\ Owns(r) /\ standIns' = standIns /\ trigger' = trigger
          /\ \A s \in Posts \ {r} : job'[s] = job[s] /\ run'[s] = run[s]
      BY <1>7 DEF Deliver, RunDies, RunAt, Owns
    <3>2. QED
      BY <3>1 DEF Owns
  <2>2. QED
    BY <1>2, <1>7, <2>1 DEF Deliver, RunDies, conversation
<1>8. ASSUME NEW r \in Posts, NEW i \in Runs, RunAiReply(r, i)
      PROVE  (Owns(q)' => p = q) /\ k \in (aiReplied \cup sellerReplied)'
  <2>1. Owns(r) /\ \A s \in Posts : Owns(s)' => Owns(s)
    BY <1>8 DEF RunAiReply, RunAt, Owns
  <2>2. ThreadOf[r] # k => (k \in aiReplied' <=> k \in aiReplied)
    BY <1>8 DEF RunAiReply
  <2>3. sellerReplied' = sellerReplied
    BY <1>8 DEF RunAiReply
  <2>4. CASE ThreadOf[r] = k
    \* The owner is r itself, and it keeps nothing when its claim is released.
    <3>1. p = r /\ r \in PostsOf(k)
      BY <1>2, <2>1, <2>4
    <3>2. \A j \in Runs \ {i} : run[r][j] = "none"
      BY <1>1, <1>8, <3>1 DEF Redelivered, RunAiReply, RunAt
    <3>3. trigger[r] = "dispatched"
      BY <1>8 DEF RunsClaimed, RunAiReply, RunAt
    <3>4. i = "inline" => job[r] = "none"
      BY <1>1, <1>8, <3>1 DEF Redelivered, RunAiReply, RunAt
    <3>5. ~(job[r] \in {"waiting", "active"})'
      BY <1>8, <3>4 DEF RunAiReply
    <3>6. \A j \in Runs : run'[r][j] # "generating"
      BY <1>8, <3>2 DEF RunAiReply, RunAt
    <3>7. \A j \in Runs : <<r, j>> \notin standIns
      BY <1>8, <3>2 DEF RunsClaimed, RunAiReply, RunAt
    <3>8. trigger' = trigger
      BY <1>8 DEF RunAiReply
    <3>9. standIns' # standIns
      BY <3>1, <3>3, <3>5, <3>6, <3>7, <3>8 DEF Owns
    <3>10. aiReplied' = aiReplied
      BY <1>8, <3>9 DEF RunAiReply
    <3>11. QED
      BY <1>2, <2>1, <2>3, <3>1, <3>10
  <2>5. QED
    BY <1>2, <2>1, <2>2, <2>3, <2>4
<1> HIDE DEF MessagingInv, MessagingTypeOK, OneOwner
<1>9. QED
  BY <1>3, <1>4, <1>5, <1>6, <1>7, <1>8, Kinds DEF TriggerMoves, RunMoves
LEMMA InvStep == MessagingInv /\ [MessagingNext]_messagingVars => MessagingInv'
  BY TypeStep, ClaimedStep, FlaggedStep, OwnerStep DEF MessagingInv

(* The claim on a conversation's stand-in has one owner, whatever requests, *)
(* queue and workers do: types, ownership, and the order in which a job    *)
(* is claimed, run and answered.                                           *)
THEOREM MessagingCorrect == MessagingSpec => []MessagingInv
  BY InitInv, InvStep, PTL DEF MessagingSpec

-----------------------------------------------------------------------------
(* A conversation gets at most one AI message, for any number of messages,  *)
(* unless one job was executed twice (messagesService.js, ai_replied).      *)
THEOREM AtMostOneStandIn == MessagingSpec => []OneStandIn
<1>1. MessagingInv => OneStandIn
  <2> SUFFICES ASSUME MessagingInv, NEW k \in Threads, NEW s \in StandInsOf(k),
                      NEW t \in StandInsOf(k), ~Redelivered(k)
               PROVE  s = t
    BY DEF OneStandIn
  <2> USE DEF MessagingInv, MessagingTypeOK
  <2>1. PICK p \in Posts, i \in Runs : s = <<p, i>> /\ ThreadOf[p] = k
    BY DEF StandInsOf
  <2>2. PICK q \in Posts, j \in Runs : t = <<q, j>> /\ ThreadOf[q] = k
    BY DEF StandInsOf
  <2>3. Owns(p) /\ Owns(q) /\ p \in PostsOf(k) /\ q \in PostsOf(k)
    BY <2>1, <2>2 DEF Owns, StandInsOf, PostsOf
  <2>4. p = q
    BY <2>3 DEF OneOwner
  <2>5. run[p][i] = "ended" /\ run[p][j] = "ended"
    BY <2>1, <2>2, <2>4 DEF RunsClaimed, StandInsOf
  <2>6. i = j
    BY <2>3, <2>5 DEF Redelivered
  <2>7. QED
    BY <2>1, <2>2, <2>4, <2>6
<1>2. QED
  BY <1>1, MessagingCorrect, PTL

(* After the seller's request was answered nothing is put in his name: the  *)
(* flag it set is what the INSERT of every run looks at.                    *)
THEOREM SellerHasLastWord == MessagingSpec => QuietAfterAnswer
<1>1. ASSUME MessagingInv, [MessagingNext]_messagingVars, NEW k \in Threads, AnsweredBySeller(k)
      PROVE  StandInsOf(k)' = StandInsOf(k)
  <2> USE DEF MessagingInv, StandInsOf
  <2>1. k \in sellerReplied
    BY <1>1 DEF SellerFlagged
  <2>2. CASE Quietly \/ \E p \in Posts : SellerAnswers(p) \/ BuyerAnswered(p) \/ TriggerMoves(p)
    BY <2>2 DEF Quietly, SellerAnswers, BuyerAnswered, TriggerMoves, ClaimAiReply, Dispatch,
                HolderDies
  <2>3. ASSUME NEW p \in Posts, NEW i \in Runs, RunMoves(p, i) \/ RunDies(p, i)
        PROVE  StandInsOf(k)' = StandInsOf(k)
    <3>1. CASE Deliver(p, i) \/ RunDies(p, i)
      BY <3>1 DEF Deliver, RunDies
    <3>2. CASE RunAiReply(p, i)
      <4>1. standIns' = standIns \/ (standIns' = standIns \cup {<<p, i>>} /\ ThreadOf[p] # k)
        BY <2>1, <3>2 DEF RunAiReply
      <4>2. <<p, i>>[1] = p
        OBVIOUS
      <4>3. \A s : s \in standIns' /\ ThreadOf[s[1]] = k <=> s \in standIns /\ ThreadOf[s[1]] = k
        BY <4>1, <4>2
      <4>4. QED
        BY <4>3
    <3>3. QED
      BY <2>3, <3>1, <3>2 DEF RunMoves
  <2> HIDE DEF MessagingInv, StandInsOf
  <2>4. QED
    BY <1>1, <2>2, <2>3, Kinds
<1>2. MessagingInv /\ [MessagingNext]_messagingVars
        => [\A k \in Threads : AnsweredBySeller(k) => StandInsOf(k)' = StandInsOf(k)]_messagingVars
  BY <1>1
<1>3. QED
  BY <1>2, MessagingCorrect, PTL DEF MessagingSpec, QuietAfterAnswer
-----------------------------------------------------------------------------
(* Claims are accounted for.  A post minds its thread's claim while it works *)
(* on it, after it has inserted the message, or if it died holding it.      *)
Gave(p)  == \E i \in Runs : <<p, i>> \in standIns
Minds(p) == Working(p) \/ Stranded(p) \/ Gave(p)

ClaimsMinded ==
  \A k \in aiReplied \ sellerReplied : \E p \in PostsOf(k) : Minds(p)

LEMMA MindedAccounted == MessagingTypeOK /\ ClaimsMinded => ClaimAccounted
<1> SUFFICES ASSUME MessagingTypeOK, ClaimsMinded, NEW k \in aiReplied \ sellerReplied,
                    NEW p \in PostsOf(k), Minds(p), NEW i \in Runs, <<p, i>> \in standIns
             PROVE  <<p, i>> \in StandInsOf(k)
  BY DEF ClaimsMinded, ClaimAccounted, Minds, Gave
<1> QED
  BY DEF StandInsOf, PostsOf

LEMMA AccountedStep ==
  ASSUME MessagingInv, [MessagingNext]_messagingVars, ClaimsMinded PROVE ClaimsMinded'
<1> USE MessagingAssumption DEF MessagingInv, MessagingTypeOK
<1> SUFFICES ASSUME NEW k \in Threads, k \in aiReplied' \ sellerReplied'
             PROVE  \E p \in PostsOf(k) : Minds(p)'
  BY TypeStep DEF ClaimsMinded, PostsOf
<1>1. k \in aiReplied \ sellerReplied => \E p \in PostsOf(k) : Minds(p)
  BY DEF ClaimsMinded
<1>2. CASE Quietly
  BY <1>1, <1>2 DEF Quietly, Minds, Working, Stranded, Gave
<1>3. ASSUME NEW q \in Posts, SellerAnswers(q) \/ BuyerAnswered(q)
      PROVE  \E p \in PostsOf(k) : Minds(p)'
  <2>1. k \in aiReplied \ sellerReplied
    BY <1>3 DEF SellerAnswers, BuyerAnswered, conversation
  <2>2. \A p \in Posts : trigger[p] # "none" => step[p] = "answered"
    BY DEF RunsClaimed
  <2>3. \A p \in Posts : Minds(p) => Minds(p)'
    BY <1>3, <2>2 DEF SellerAnswers, BuyerAnswered, PostAt, Minds, Working, Stranded, Gave, backOf
  <2>4. QED
    BY <1>1, <2>1, <2>3 DEF PostsOf
<1>4. ASSUME NEW q \in Posts, TriggerMoves(q) PROVE \E p \in PostsOf(k) : Minds(p)'
  <2>1. \A p \in Posts \ {q} : Minds(p) => Minds(p)'
    BY <1>4 DEF TriggerMoves, ClaimAiReply, Dispatch, HolderDies, Triggers, Minds, Working,
                Stranded, Gave
  <2>2. CASE ClaimAiReply(q)
    <3>1. k \in aiReplied \/ (k = ThreadOf[q] /\ trigger'[q] = "claimed")
      BY <2>2 DEF ClaimAiReply, Triggers
    <3>2. Minds(q) => Minds(q)'
      BY <2>2 DEF ClaimAiReply, Triggers, Minds, Working, Stranded, Gave
    <3>3. sellerReplied' = sellerReplied
      BY <2>2 DEF ClaimAiReply
    <3>4. QED
      BY <1>1, <2>1, <3>1, <3>2, <3>3 DEF PostsOf, Minds, Working
  <2>3. CASE Dispatch(q)
    <3>1. job'[q] = "waiting" \/ run'[q]["inline"] = "generating"
      BY <2>3 DEF Dispatch, EnqueueOutcomes, Runs
    <3>2. UNCHANGED <<aiReplied, sellerReplied>>
      BY <2>3 DEF Dispatch, conversation
    <3>3. QED
      BY <1>1, <2>1, <3>1, <3>2 DEF PostsOf, Minds, Working
  <2>4. CASE HolderDies(q)
    <3>1. trigger'[q] = "died" /\ UNCHANGED <<aiReplied, sellerReplied>>
      BY <2>4 DEF HolderDies, Triggers, conversation
    <3>2. QED
      BY <1>1, <2>1, <3>1 DEF PostsOf, Minds, Stranded
  <2>5. QED
    BY <1>4, <2>2, <2>3, <2>4 DEF TriggerMoves
<1>5. ASSUME NEW q \in Posts, NEW i \in Runs, RunMoves(q, i) \/ RunDies(q, i)
      PROVE  \E p \in PostsOf(k) : Minds(p)'
  <2>1. k \in aiReplied \ sellerReplied
    BY <1>5 DEF RunMoves, Deliver, RunAiReply, RunDies, conversation
  <2>2. \A p \in Posts \ {q} : Minds(p) => Minds(p)'
    BY <1>5 DEF RunMoves, Deliver, RunAiReply, RunDies, RunAt, Minds, Working, Stranded, Gave
  <2>3. CASE Deliver(q, i)
    <3>1. job'[q] = "active"
      BY <2>3 DEF Deliver
    <3>2. QED
      BY <1>1, <2>1, <2>2, <3>1 DEF PostsOf, Minds, Working
  <2>4. CASE RunAiReply(q, i)
    <3>1. ThreadOf[q] = k => Gave(q)'
      BY <1>5, <2>1, <2>4 DEF RunAiReply, Gave
    <3>2. QED
      BY <1>1, <2>1, <2>2, <3>1 DEF PostsOf, Minds
  <2>5. CASE RunDies(q, i)
    <3>1. Minds(q) => Minds(q)'
      BY <2>5 DEF RunDies, RunAt, Minds, Working, Stranded, Gave, Runs
    <3>2. QED
      BY <1>1, <2>1, <2>2, <3>1 DEF PostsOf
  <2>6. QED
    BY <1>5, <2>3, <2>4, <2>5 DEF RunMoves
<1> HIDE DEF MessagingInv, MessagingTypeOK
<1>6. QED
  BY <1>2, <1>3, <1>4, <1>5, Kinds

(* A claim never stays behind unattended: the message is there, or a run or *)
(* a job is under way, or the process that held it is known to have died.   *)
THEOREM ClaimsAccounted == MessagingSpec => []ClaimAccounted
<1>1. MessagingInit => ClaimsMinded
  BY DEF MessagingInit, ClaimsMinded
<1>2. MessagingInv /\ ClaimsMinded /\ [MessagingNext]_messagingVars => ClaimsMinded'
  BY AccountedStep
<1>3. MessagingInv => MessagingTypeOK
  BY DEF MessagingInv
<1>4. QED
  BY <1>1, <1>2, <1>3, MindedAccounted, MessagingCorrect, PTL DEF MessagingSpec
=============================================================================

---------------------------- MODULE MCProcesses ----------------------------
(***************************************************************************)
(* What the processes of a deployment do: they start, and once all of them *)
(* serve, uploads are taken and their jobs come to an end, or messages are *)
(* written and answered in the seller's place.  The three parts share no   *)
(* variable.                                                               *)
(***************************************************************************)
EXTENDS Boot, Uploads, Messaging, TLC

CONSTANTS b1, b2, d1, d2

\* Bound: the part that moves; nothing starts or stops while jobs are at work.
VARIABLE part

OneThread == [p \in Posts |-> CHOOSE k \in Threads : TRUE]

Init ==
    /\ BootInit /\ UploadsInit /\ driver = "s3" /\ MessagingInit
    /\ part = "starting"

vars == <<bootVars, uploadsVars, messagingVars, part>>

\* One of the states in which all serve stands for them: the jobs read none of
\* it, and the start nothing of theirs.
Opens ==
    /\ part = "starting" /\ \A p \in Processes : at[p] = "up" /\ image[p] = FirstRelease
    /\ mishaps = 0 /\ demo = 1 /\ ~wares /\ account = "demo" /\ ~crowded
    /\ part' \in {"uploads", "messaging"} /\ driver' \in {"s3", "disk"}
    /\ part' = "messaging" => UNCHANGED driver
    /\ UNCHANGED <<bootVars, row, age, raw, public, puts, jobs, odd, messagingVars>>

\* Bound: two finalizations where the bytes come from anywhere, one where a
\* request of this server brings them.
FewOnDisk == driver = "disk" => \A j \in Jobs \ {1} : jobs'[j] = NoJob

\* Two buyer's posts are alike, and two deliveries: the first goes first.  A
\* block matters to who has still to ask for it.
InTurn ==
    /\ blocked' # blocked => \E p \in Posts : step[p] \in {"idle", "loaded"}
    /\ step'[b2] # "idle" => step'[b1] # "idle"
    /\ \A p \in Posts : run'[p][d2] # "none" => run'[p][d1] # "none"

BootPart(action) ==
    part = "starting" /\ action /\ UNCHANGED <<uploadsVars, messagingVars, part>>
UploadsPart(action) ==
    part = "uploads" /\ action /\ FewOnDisk /\ UNCHANGED <<bootVars, messagingVars, part>>
MessagingPart(action) ==
    part = "messaging" /\ action /\ InTurn /\ UNCHANGED <<bootVars, uploadsVars, part>>

Next ==
    \/ Opens
    \/ BootPart(BootNext) \/ UploadsPart(UploadsNext) \/ MessagingPart(MessagingNext)

\* The fairness of BootFairSpec, UploadsFairness and MessagingFairSpec, each in
\* its part.
Spec ==
    /\ Init /\ [][Next]_vars
    /\ \A p \in Processes : WF_vars(BootPart(BootStep(p)))
    /\ \A j \in Jobs : WF_vars(UploadsPart(JobStep(j)))
    /\ \A p \in Posts : WF_vars(MessagingPart(Dispatch(p)))
    /\ \A p \in Posts, i \in Runs : WF_vars(MessagingPart(RunMoves(p, i)))
=============================================================================

------------------------------ MODULE Listings ------------------------------
(* One listing and everyone who writes its row or counts on it: the seller's  *)
(* edit forms, status buttons and removal (listingsService.js, SellForm.jsx), *)
(* the first question about it (messagesService.js), the checkout window with *)
(* the acknowledgement of its INSERT lost (transactionsService.js), the       *)
(* erasure of an account (privacyService.js), and the reconciliation pass     *)
(* that looks for what went wrong (reconciliationService.js).  Orders has the *)
(* same checkout with handlers, locks and refunds in full; here its webhooks  *)
(* and its sweep are one step each, and what surrounds the window is in full. *)
EXTENDS Naturals, FiniteSets

CONSTANTS Forms,      \* bound: edit forms, each opened once on a device of its own
          Checkouts,  \* checkout attempts, one per buyer
          First,      \* the photo the listing starts with
          None

ASSUME ListingsAssumption == First \notin Forms /\ None \notin Forms \cup {First}

VARIABLES listing,   \* the row of `listings`
          files,     \* public photos in storage
          forms,     \* SellForm and the update() request it sends
          button,    \* the seller's setStatus() request
          removal,   \* the remove() request
          question,  \* a buyer's first message, "open" once the conversation exists
          buys,      \* checkout attempts: request, PaymentIntent, order, webhook
          erasures,  \* deleteAccount(), per user
          scan,      \* runReconciliation()
          flagged,   \* open reconciliation issues
          odd        \* history: what explains a promise not kept

vars == <<listing, files, forms, button, removal, question, buys, erasures, scan, flagged, odd>>

Photos == Forms \cup {First}     \* the photo a form uploads carries its name
Users == Checkouts \cup {"seller"}
Open == {"pending", "paid"}      \* MONEY_CAPTURED, pending and disputed, but not concluded
Orders == Open \cup {"none", "completed", "expired", "cancelled", "refunded"}
Window == {"claimed", "intent", "cancelling", "releasing"}

(* VALID_TRANSITIONS: the statuses a button asks for, from each status.       *)
Transitions == [draft |-> {}, active |-> {"reserved", "sold"}, reserved |-> {"active", "sold"},
                sold |-> {"active"}]

NoButton == [at |-> "idle", to |-> "none"]
NoForm == [at |-> "closed", shows |-> None, old |-> None]
Saved == [NoForm EXCEPT !.at = "saved"]
NoBuy == [at |-> "none", intent |-> "none", order |-> "none", hook |-> "none"]
NoScan == [at |-> "idle", left |-> {}, pending |-> {}, owed |-> {}, missed |-> {}]

Init ==
    /\ listing = [exists |-> FALSE, status |-> "draft", photo |-> None] /\ files = {}
    /\ forms = [f \in Forms |-> NoForm] /\ button = NoButton /\ removal = [at |-> "none", old |-> None]
    /\ question = "none" /\ buys = [c \in Checkouts |-> NoBuy]
    /\ erasures = [u \in Users |-> "none"] /\ scan = NoScan /\ flagged = {} /\ odd = {}

Signed(u) == erasures[u] # "gone"

-----------------------------------------------------------------------------
(* create(): the form is submitted once, with the photo it uploaded or, on a  *)
(* phone, with none.                                                          *)
Create ==
    /\ listing.status = "draft" /\ Signed("seller")
    /\ \E photo \in {First, None} :
          /\ listing' = [exists |-> TRUE, status |-> "active", photo |-> photo]
          /\ files' = files \cup ({photo} \ {None})
    /\ UNCHANGED <<forms, button, removal, question, buys, erasures, scan, flagged, odd>>

(* Editing.  A form shows the photo its listing had when it was opened and    *)
(* sends it back with everything else, however old it is by then.             *)
OpenForm(f) ==
    /\ Signed("seller") /\ forms[f].at = "closed" /\ listing.exists
    /\ forms' = [forms EXCEPT ![f] = [NoForm EXCEPT !.at = "open", !.shows = listing.photo]]
    /\ UNCHANGED <<listing, files, button, removal, question, buys, erasures, scan, flagged, odd>>

(* handlePhoto: the photo is stored; its answer may not arrive.               *)
UploadPhoto(f) ==
    /\ forms[f].at = "open" /\ f \notin files /\ Signed("seller") /\ forms[f].shows # f
    /\ files' = files \cup {f}
    /\ \E answered \in BOOLEAN :
          forms' = [forms EXCEPT ![f].shows = IF answered THEN f ELSE @,
                                 ![f].at = IF answered THEN "ready" ELSE "open"]
    /\ UNCHANGED <<listing, button, removal, question, buys, erasures, scan, flagged, odd>>

(* update() reads the row, with the photo it will take for the old one.       *)
UpdateRead(f) ==
    /\ forms[f].at \in {"open", "ready"} /\ Signed("seller") /\ listing.exists
    /\ forms' = [forms EXCEPT ![f].at = "read", ![f].old = listing.photo]
    /\ UNCHANGED <<listing, files, button, removal, question, buys, erasures, scan, flagged, odd>>

UpdateWrite(f) ==
    /\ forms[f].at = "read" /\ forms' = [forms EXCEPT ![f].at = "written"]
    /\ listing' = IF listing.exists THEN [listing EXCEPT !.photo = forms[f].shows] ELSE listing
    /\ odd' = IF forms[f].shows \in {f, listing.photo} THEN odd ELSE odd \cup {"resent"}
    /\ UNCHANGED <<files, button, removal, question, buys, erasures, scan, flagged>>

(* Mutant: the old photo goes even when the edit keeps it. *)
DeleteReplacedAlways(f) ==
    /\ forms[f].at = "written" /\ forms' = [forms EXCEPT ![f] = Saved]
    /\ files' = files \ {forms[f].old}
    /\ UNCHANGED <<listing, button, removal, question, buys, erasures, scan, flagged, odd>>

(* A replaced photo is deleted; deleteObject may fail, which is only logged.  *)
DeleteReplaced(f) ==
    /\ forms[f].at = "written" /\ forms' = [forms EXCEPT ![f] = Saved]
    /\ files' \in IF forms[f].old # forms[f].shows THEN {files, files \ {forms[f].old}} ELSE {files}
    /\ UNCHANGED <<listing, button, removal, question, buys, erasures, scan, flagged, odd>>

(* Conversations, orders and reviews refer to their listing ON DELETE         *)
(* RESTRICT.                                                                  *)
Referred == question = "open" \/ \E c \in Checkouts : buys[c].order # "none"

(* remove(): the conversations are counted, then the row is deleted.          *)
CountConversations ==
    /\ removal.at = "none" /\ Signed("seller") /\ listing.exists /\ question # "open"
    /\ removal' = [at |-> "counted", old |-> listing.photo]
    /\ UNCHANGED <<listing, files, forms, button, question, buys, erasures, scan, flagged, odd>>

DeleteListing ==
    /\ removal.at = "counted"
    /\ IF Referred THEN removal' = [at |-> "none", old |-> None] /\ UNCHANGED listing
       ELSE /\ removal' = [removal EXCEPT !.at = "deleted"]
            /\ listing' = [listing EXCEPT !.exists = FALSE, !.photo = None]
    /\ UNCHANGED <<files, forms, button, question, buys, erasures, scan, flagged, odd>>

DeletePhoto ==
    /\ removal.at = "deleted" /\ removal' = [at |-> "done", old |-> None]
    /\ files' \in {files, files \ {removal.old}}
    /\ UNCHANGED <<listing, forms, button, question, buys, erasures, scan, flagged, odd>>

(* A first message reads the listing and then inserts the conversation.       *)
AskAbout ==
    /\ \/ question = "none" /\ listing.exists /\ question' = "read"
       \/ question = "read" /\ question' = IF listing.exists THEN "open" ELSE "none"
    /\ UNCHANGED <<listing, files, forms, button, removal, buys, erasures, scan, flagged, odd>>

-----------------------------------------------------------------------------
(* The seller's buttons, setStatus(): the row is read, a pending order is     *)
(* looked for, and the status is written by id, whatever it is by then.  A    *)
(* checkout holds the listing from its claim until its order is paid for or   *)
(* ends; a write that takes the listing from it, or from a standing sale, is  *)
(* noted, and so is one that finds its seller erased.                         *)
Holding(c) == buys[c].at \in Window \/ buys[c].order = "pending"
Sale(c) == buys[c].order \in {"paid", "completed"}
Takes(to) == \E c \in Checkouts : (to = "active" /\ Holding(c)) \/ (to # "sold" /\ Sale(c))

SellerReads(to) ==
    /\ button.at = "idle" /\ Signed("seller") /\ listing.exists /\ to \in Transitions[listing.status]
    /\ button' = [at |-> "read", to |-> to]
    /\ UNCHANGED <<listing, files, forms, removal, question, buys, erasures, scan, flagged, odd>>

SellerChecks ==
    /\ button.at = "read"
    /\ button' = IF \E c \in Checkouts : buys[c].order = "pending" THEN NoButton
                 ELSE [button EXCEPT !.at = "checked"]
    /\ UNCHANGED <<listing, files, forms, removal, question, buys, erasures, scan, flagged, odd>>

SellerWrites ==
    /\ button.at = "checked" /\ button' = NoButton
    /\ IF listing.exists
       THEN /\ listing' = [listing EXCEPT !.status = button.to]
            /\ odd' = odd \cup (IF Takes(button.to) THEN {"relisted"} ELSE {})
                          \cup (IF Signed("seller") THEN {} ELSE {"late"})
       ELSE UNCHANGED <<listing, odd>>
    /\ UNCHANGED <<files, forms, removal, question, buys, erasures, scan, flagged>>

-----------------------------------------------------------------------------
(* The checkout window.                                                       *)
SetBuy(c, b) == buys' = [buys EXCEPT ![c] = b]
Free == IF listing.status = "reserved" THEN [listing EXCEPT !.status = "active"] ELSE listing

(* Mutant: the claim does not look at the status. *)
ClaimAny(c) ==
    /\ buys[c].at = "none" /\ Signed(c) /\ listing.exists
    /\ listing' = [listing EXCEPT !.status = "reserved"]
    /\ SetBuy(c, [buys[c] EXCEPT !.at = "claimed"])
    /\ odd' = IF "checked" \in {erasures[c], erasures["seller"]} THEN odd \cup {"during"} ELSE odd
    /\ UNCHANGED <<files, forms, button, removal, question, erasures, scan, flagged>>

Claim(c) ==
    /\ buys[c].at = "none" /\ Signed(c) /\ listing.exists /\ listing.status = "active"
    /\ listing' = [listing EXCEPT !.status = "reserved"]
    /\ SetBuy(c, [buys[c] EXCEPT !.at = "claimed"])
    /\ odd' = IF "checked" \in {erasures[c], erasures["seller"]} THEN odd \cup {"during"} ELSE odd
    /\ UNCHANGED <<files, forms, button, removal, question, erasures, scan, flagged>>

CreateIntent(c) ==
    /\ buys[c].at = "claimed"
    /\ \/ SetBuy(c, [buys[c] EXCEPT !.at = "intent", !.intent = "live"])
       \/ SetBuy(c, [buys[c] EXCEPT !.at = "releasing"])
    /\ UNCHANGED <<listing, files, forms, button, removal, question, erasures, scan, flagged, odd>>

(* INSERT, refused for a listing that is gone or has a pending order, or      *)
(* rolled back; committed, and answered; or committed, and the answer lost,   *)
(* which the catch cannot tell from a failure.                                *)
InsertOrder(c) ==
    /\ buys[c].at = "intent"
    /\ \/ SetBuy(c, [buys[c] EXCEPT !.at = "cancelling"]) /\ UNCHANGED odd
       \/ /\ listing.exists /\ \A d \in Checkouts : buys[d].order # "pending"
          /\ \/ SetBuy(c, [buys[c] EXCEPT !.at = "answered", !.order = "pending"]) /\ UNCHANGED odd
             \/ /\ SetBuy(c, [buys[c] EXCEPT !.at = "cancelling", !.order = "pending"])
                /\ odd' = odd \cup {"lostAck"}
    /\ UNCHANGED <<listing, files, forms, button, removal, question, erasures, scan, flagged>>

(* The catch: cancel the PaymentIntent, if Stripe answers, and free the       *)
(* listing.  A cancelled PaymentIntent sends a webhook.                       *)
CancelIntent(c) ==
    /\ buys[c].at = "cancelling"
    /\ \/ SetBuy(c, [buys[c] EXCEPT !.at = "releasing", !.intent = "canceled", !.hook = "due"])
       \/ SetBuy(c, [buys[c] EXCEPT !.at = "releasing"])
    /\ UNCHANGED <<listing, files, forms, button, removal, question, erasures, scan, flagged, odd>>

Release(c) ==
    /\ buys[c].at = "releasing" /\ SetBuy(c, [buys[c] EXCEPT !.at = "failed"]) /\ listing' = Free
    /\ UNCHANGED <<files, forms, button, removal, question, erasures, scan, flagged, odd>>

(* The process dies inside the window.                                        *)
WindowDies(c) ==
    /\ buys[c].at \in Window /\ SetBuy(c, [buys[c] EXCEPT !.at = "failed"])
    /\ UNCHANGED <<listing, files, forms, button, removal, question, erasures, scan, flagged, odd>>

(* The buyer pays with the client secret checkout answered with.              *)
Pay(c) ==
    /\ buys[c].at = "answered" /\ buys[c].intent = "live"
    /\ SetBuy(c, [buys[c] EXCEPT !.intent = "paid", !.hook = "due"])
    /\ UNCHANGED <<listing, files, forms, button, removal, question, erasures, scan, flagged, odd>>

(* payment_intent.succeeded: settle a pending order; return the money of one  *)
(* that ended meanwhile, or fail to, which Stripe never hears of.             *)
Succeeded(c) ==
    /\ buys[c].intent = "paid" /\ buys[c].hook = "due"
    /\ \/ /\ buys[c].order = "pending"
          /\ SetBuy(c, [buys[c] EXCEPT !.hook = "done", !.order = "paid"])
          /\ listing' = IF listing.status = "reserved" THEN [listing EXCEPT !.status = "sold"] ELSE listing
       \/ /\ buys[c].order \in {"expired", "cancelled"} /\ UNCHANGED listing
          /\ \/ SetBuy(c, [buys[c] EXCEPT !.hook = "done", !.order = "refunded", !.intent = "refunded"])
             \/ SetBuy(c, [buys[c] EXCEPT !.hook = "done"])
    /\ UNCHANGED <<files, forms, button, removal, question, erasures, scan, flagged, odd>>

(* payment_intent.canceled frees whatever reservation it finds.               *)
Canceled(c) ==
    /\ buys[c].intent = "canceled" /\ buys[c].hook = "due"
    /\ IF buys[c].order = "pending"
       THEN SetBuy(c, [buys[c] EXCEPT !.hook = "done", !.order = "cancelled"]) /\ listing' = Free
       ELSE SetBuy(c, [buys[c] EXCEPT !.hook = "done"]) /\ UNCHANGED listing
    /\ UNCHANGED <<files, forms, button, removal, question, erasures, scan, flagged, odd>>

(* A webhook is dropped for good: a bad signature, retries used up.           *)
DropHook(c) ==
    /\ buys[c].hook = "due" /\ SetBuy(c, [buys[c] EXCEPT !.hook = "done"])
    /\ UNCHANGED <<listing, files, forms, button, removal, question, erasures, scan, flagged, odd>>

(* The expiry sweep; a checkout request lives far shorter than the 30         *)
(* minutes a reservation does.  A pending order whose row somebody holds, a   *)
(* webhook or a request about to be refused, is skipped, and the listing is   *)
(* freed all the same.                                                        *)
Sweep ==
    /\ listing.exists /\ listing.status = "reserved" /\ \A c \in Checkouts : buys[c].at \notin Window
    /\ listing' = Free
    /\ \E skipped \in SUBSET {c \in Checkouts : buys[c].order = "pending"} :
          /\ buys' = [c \in Checkouts |->
                IF buys[c].order = "pending" /\ c \notin skipped THEN [buys[c] EXCEPT !.order = "expired"]
                ELSE buys[c]]
          /\ odd' = IF skipped = {} THEN odd ELSE odd \cup {"skipped"}
    /\ UNCHANGED <<files, forms, button, removal, question, erasures, scan, flagged>>

ConfirmReceipt(c) ==
    /\ buys[c].order = "paid" /\ Signed(c) /\ SetBuy(c, [buys[c] EXCEPT !.order = "completed"])
    /\ UNCHANGED <<listing, files, forms, button, removal, question, erasures, scan, flagged, odd>>

-----------------------------------------------------------------------------
(* Erasing an account.  "seller" stands for the listing's seller, a checkout  *)
(* for its buyer.                                                             *)
OrdersOf(u) == IF u = "seller" THEN Checkouts ELSE {u}

(* Mutant: only captured money blocks, not a pending order. *)
CheckBlockersCaptured(u) ==
    /\ erasures[u] = "none" /\ \A c \in OrdersOf(u) : buys[c].order # "paid"
    /\ erasures' = [erasures EXCEPT ![u] = "checked"]
    /\ odd' = IF \E c \in OrdersOf(u) : buys[c].at \in Window THEN odd \cup {"during"} ELSE odd
    /\ UNCHANGED <<listing, files, forms, button, removal, question, buys, scan, flagged>>

(* deletionBlockers, before and outside the transaction that erases.          *)
CheckBlockers(u) ==
    /\ erasures[u] = "none" /\ \A c \in OrdersOf(u) : buys[c].order \notin Open
    /\ erasures' = [erasures EXCEPT ![u] = "checked"]
    /\ odd' = IF \E c \in OrdersOf(u) : buys[c].at \in Window THEN odd \cup {"during"} ELSE odd
    /\ UNCHANGED <<listing, files, forms, button, removal, question, buys, scan, flagged>>

(* The transaction: a seller's unsold listings are deleted, which aborts all  *)
(* of it when anything refers to one, and sold ones are stripped.  No photo   *)
(* leaves storage.                                                            *)
Erase(u) ==
    /\ erasures[u] = "checked"
    /\ IF u = "seller" /\ listing.exists /\ listing.status # "sold" /\ Referred
       THEN erasures' = [erasures EXCEPT ![u] = "none"] /\ UNCHANGED listing
       ELSE /\ erasures' = [erasures EXCEPT ![u] = "gone"]
            /\ listing' = IF u # "seller" THEN listing
                          ELSE [listing EXCEPT !.photo = None, !.exists = @ /\ listing.status = "sold"]
    /\ UNCHANGED <<files, forms, button, removal, question, buys, scan, flagged, odd>>

-----------------------------------------------------------------------------
(* Reconciliation: the orders are read at once, expired ones left out, then   *)
(* compared with Stripe one by one.  `owed` is history: whose money is held   *)
(* for no order, with no webhook on its way, when the pass begins.            *)
ScanStart ==
    /\ scan.at = "idle"
    /\ LET seen == {c \in Checkouts : buys[c].order \notin {"none", "expired"}} IN
       scan' = [at |-> "scanning", left |-> seen, pending |-> {c \in seen : buys[c].order = "pending"},
                owed |-> {c \in Checkouts : /\ buys[c].intent = "paid" /\ buys[c].hook = "done"
                                            /\ buys[c].order \in {"pending", "expired", "cancelled"}},
                missed |-> {}]
    /\ UNCHANGED <<listing, files, forms, button, removal, question, buys, erasures, flagged, odd>>

(* classify: a succeeded payment beside a pending order.  The cases for a     *)
(* failed or returned payment beside a live order need a Stripe dashboard.    *)
Classify(c) == buys[c].intent = "paid" /\ c \in scan.pending

ScanOne(c) ==
    /\ c \in scan.left
    /\ \/ /\ scan' = [scan EXCEPT !.left = @ \ {c}]
          /\ flagged' = IF Classify(c) THEN flagged \cup {c} ELSE flagged
       \/ /\ scan' = [scan EXCEPT !.left = @ \ {c}, !.missed = @ \cup {c}]
          /\ UNCHANGED flagged    \* Stripe did not answer: logged, and on to the next
    /\ UNCHANGED <<listing, files, forms, button, removal, question, buys, erasures, odd>>

ScanEnd ==
    /\ scan.at = "scanning" /\ scan.left = {}
    /\ scan' = [scan EXCEPT !.at = "ended", !.pending = {}]
    /\ UNCHANGED <<listing, files, forms, button, removal, question, buys, erasures, flagged, odd>>

ResolveIssue(c) ==
    /\ c \in flagged /\ scan.at = "ended" /\ scan' = NoScan /\ flagged' = flagged \ {c}
    /\ UNCHANGED <<listing, files, forms, button, removal, question, buys, erasures, odd>>

-----------------------------------------------------------------------------
Edit(f) == OpenForm(f) \/ UploadPhoto(f) \/ UpdateRead(f) \/ UpdateWrite(f) \/ DeleteReplaced(f)
Press == SellerChecks \/ SellerWrites \/ \E to \in {"active", "reserved", "sold"} : SellerReads(to)
Remove == CountConversations \/ DeleteListing \/ DeletePhoto
Checkout(c) ==
    \/ Claim(c) \/ CreateIntent(c) \/ InsertOrder(c) \/ CancelIntent(c) \/ Release(c) \/ WindowDies(c)
    \/ Pay(c) \/ Succeeded(c) \/ Canceled(c) \/ DropHook(c) \/ ConfirmReceipt(c)
Reconcile == ScanStart \/ ScanEnd \/ \E c \in Checkouts : ScanOne(c) \/ ResolveIssue(c)

Next ==
    \/ \E f \in Forms : Edit(f)
    \/ Create \/ Press \/ Remove \/ AskAbout \/ Sweep \/ Reconcile
    \/ \E c \in Checkouts : Checkout(c)
    \/ \E u \in Users : CheckBlockers(u) \/ Erase(u)

Spec == Init /\ [][Next]_vars

-----------------------------------------------------------------------------
ListingRows == [exists : BOOLEAN, status : {"draft", "active", "reserved", "sold"},
                photo : Photos \cup {None}]
FormRecords == [at : {"closed", "open", "ready", "read", "written", "saved"},
                shows : Photos \cup {None}, old : Photos \cup {None}]
ButtonRecords == [at : {"idle", "read", "checked"}, to : {"none", "active", "reserved", "sold"}]
RemovalRecords == [at : {"none", "counted", "deleted", "done"}, old : Photos \cup {None}]
BuyRecords == [at : Window \cup {"none", "answered", "failed"},
               intent : {"none", "live", "paid", "canceled", "refunded"},
               order : Orders, hook : {"none", "due", "done"}]
ScanRecords == [at : {"idle", "scanning", "ended"}, left : SUBSET Checkouts,
                pending : SUBSET Checkouts, owed : SUBSET Checkouts, missed : SUBSET Checkouts]

Odd == {"resent", "lostAck", "skipped", "relisted", "during", "late"}

TypeOK ==
    /\ listing \in ListingRows /\ files \subseteq Photos
    /\ forms \in [Forms -> FormRecords] /\ removal \in RemovalRecords
    /\ button \in ButtonRecords /\ (button.at # "idle" => button.to # "none")
    /\ question \in {"none", "read", "open"}
    /\ buys \in [Checkouts -> BuyRecords]
    /\ erasures \in [Users -> {"none", "checked", "gone"}]
    /\ scan \in ScanRecords
    /\ flagged \subseteq Checkouts /\ odd \subseteq Odd

(* The photo a listing shows is in storage: an edit deletes the photo it      *)
(* replaced and no other, unless some form sent back a photo that had been    *)
(* replaced since the form was opened.                                        *)
PhotoStands == listing.photo \in files \cup {None} \/ "resent" \in odd

(* One item is sold once: no two orders of the listing are paid for and       *)
(* standing, whoever claims, fails, dies, cancels or expires and whatever the *)
(* seller presses, unless the acknowledgement of a committed INSERT was lost, *)
(* a sweep freed the listing of a pending order it skipped, or the seller     *)
(* took the listing from a checkout or from a sale.                           *)
SoldOnce ==
    \/ {"lostAck", "skipped", "relisted"} \cap odd # {}
    \/ \A c, d \in Checkouts : Sale(c) /\ Sale(d) => c = d

(* Nobody is erased with an order in progress, except when a checkout of      *)
(* theirs was in its window when the blockers were checked, or began between  *)
(* that check and the erasure, or the seller's last button brought back a     *)
(* listing that the erasure had left.                                         *)
ErasedOwesNothing ==
    \A u \in Users : erasures[u] = "gone" /\ {"during", "late"} \cap odd = {} =>
        \A c \in OrdersOf(u) : buys[c].order \notin Open

(* Stated by migration 014: what "is invisible until a customer complains" is *)
(* a charge beside an order that is pending and then expires.  A pass that    *)
(* has ended has flagged every such charge Stripe answered for.  The code     *)
(* leaves expired orders out.                                                 *)
ChargesAreFlagged == scan.at = "ended" => scan.owed \subseteq flagged \cup scan.missed
=============================================================================

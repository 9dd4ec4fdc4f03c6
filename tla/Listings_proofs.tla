-------------------------- MODULE Listings_proofs --------------------------
(***************************************************************************)
(* A listing, for any number of edit forms and checkouts: the photo that   *)
(* the row names is in storage, the item is sold once, and nobody is       *)
(* erased with an order in progress.                                       *)
(***************************************************************************)
EXTENDS Listings, TLAPS

-----------------------------------------------------------------------------
(* The photo.  Those that a row, a request or the form of somebody else may  *)
(* name were written before; each is written by its own form, once.          *)
Seen == {f \in Forms : forms[f].at \in {"written", "saved"}} \cup {First, None}

PhotosSeen ==
  /\ listing.photo \in Seen /\ removal.old \in Seen
  /\ \A f \in Forms : forms[f].old \in Seen /\ forms[f].shows \in Seen \cup {f}

RowStates ==
  /\ ~listing.exists => listing.photo = None
  /\ listing.status = "draft" =>
       ~listing.exists /\ removal.at = "none" /\ \A f \in Forms : forms[f].at = "closed"
  /\ removal.at = "deleted" => ~listing.exists

(* What is yet to be written is stored; what is about to be deleted is not   *)
(* what the listing shows.                                                   *)
PhotosStored ==
  \A f \in Forms : forms[f].at \in {"open", "ready", "read"} /\ forms[f].shows = f => f \in files

PhotoKept ==
  "resent" \notin odd =>
    /\ listing.photo \in files \cup {None}
    /\ \A f \in Forms : forms[f].at = "written" /\ forms[f].old # forms[f].shows =>
         forms[f].old = None \/ forms[f].old # listing.photo

PhotoInv == PhotosSeen /\ RowStates /\ PhotosStored /\ PhotoKept

-----------------------------------------------------------------------------
(* The sale.  One checkout at a time holds the listing, reserved or, by its  *)
(* seller, marked sold meanwhile, until its order is paid and it is sold.    *)
Taken(c) == Holding(c) \/ Sale(c)
Excused == {"lostAck", "skipped", "relisted"} \cap odd # {}

OrdersFollow ==
  \A c \in Checkouts :
    /\ buys[c].at \in Window \cup {"none"} => buys[c].order = "none"
    /\ buys[c].intent = "canceled" =>
         buys[c].order = "none" /\ buys[c].at \in {"releasing", "failed"}

OneHolder ==
  /\ \A c \in Checkouts : Holding(c) => listing.status \in {"reserved", "sold"}
  /\ \A c \in Checkouts : Sale(c) => listing.status = "sold"
  /\ \A c, d \in Checkouts : Taken(c) /\ Taken(d) => c = d

SaleInv == Excused \/ (OrdersFollow /\ OneHolder)

-----------------------------------------------------------------------------
(* The erasure.                                                              *)
Overlapped == {"during", "late"} \cap odd # {}

StrippedStays == erasures["seller"] = "gone" => ~listing.exists \/ listing.status = "sold"

NothingOngoing ==
  \A u \in Users : erasures[u] \in {"checked", "gone"} =>
    \A c \in OrdersOf(u) : buys[c].order \notin Open /\ buys[c].at \notin Window

ErasureInv == Overlapped \/ (StrippedStays /\ NothingOngoing)

ListingsInv == TypeOK /\ PhotoInv /\ SaleInv /\ ErasureInv

-----------------------------------------------------------------------------
LEMMA NoFormIs ==
  /\ NoForm \in FormRecords /\ NoForm.at = "closed" /\ NoForm.old = None /\ NoForm.shows = None
  /\ Saved \in FormRecords /\ Saved.at = "saved" /\ Saved.old = None /\ Saved.shows = None
  BY DEF NoForm, Saved, FormRecords

LEMMA FreeIs ==
  ASSUME listing \in ListingRows
  PROVE /\ Free \in ListingRows /\ Free.exists = listing.exists /\ Free.photo = listing.photo
        /\ Free.status = IF listing.status = "reserved" THEN "active" ELSE listing.status
  BY DEF Free, ListingRows

(* A form that moves: its record, the others' left alone.                    *)
LEMMA FormMoves ==
  ASSUME TypeOK, NEW f \in Forms, NEW m \in FormRecords, forms' = [forms EXCEPT ![f] = m]
  PROVE /\ forms' \in [Forms -> FormRecords] /\ forms'[f] = m
        /\ \A g \in Forms \ {f} : forms'[g] = forms[g]
  BY DEF TypeOK

(* A checkout that moves.                                                    *)
LEMMA BuyMoves ==
  ASSUME TypeOK, NEW c \in Checkouts, NEW b \in BuyRecords, SetBuy(c, b)
  PROVE /\ buys' \in [Checkouts -> BuyRecords] /\ buys'[c] = b
        /\ \A d \in Checkouts \ {c} : buys'[d] = buys[d]
  BY DEF TypeOK, SetBuy

-----------------------------------------------------------------------------
(* What each action does to the parts that the invariants are about.         *)
Elsewhere(c) == \A d \in Checkouts \ {c} : buys'[d] = buys[d]

LEMMA CreateDoes ==
  ASSUME TypeOK, Create
  PROVE /\ TypeOK' /\ listing.status = "draft" /\ erasures["seller"] # "gone"
        /\ listing'.exists /\ listing'.status = "active"
        /\ listing'.photo \in {First, None} /\ files' = files \cup ({listing'.photo} \ {None})
        /\ UNCHANGED <<forms, button, removal, question, buys, erasures, scan, flagged, odd>>
<1> USE DEF TypeOK
<1>1. PICK photo \in {First, None} :
         /\ listing' = [exists |-> TRUE, status |-> "active", photo |-> photo]
         /\ files' = files \cup ({photo} \ {None})
  BY DEF Create
<1>2. photo \in Photos \cup {None}
  BY DEF Photos
<1>3. listing' \in ListingRows /\ files' \subseteq Photos
  BY <1>1, <1>2 DEF ListingRows
<1>4. QED
  BY <1>1, <1>3 DEF Create, Signed

LEMMA OpenFormDoes ==
  ASSUME TypeOK, NEW f \in Forms, OpenForm(f)
  PROVE /\ TypeOK' /\ listing.exists /\ forms[f].at = "closed"
        /\ forms'[f].at = "open" /\ forms'[f].shows = listing.photo /\ forms'[f].old = None
        /\ \A g \in Forms \ {f} : forms'[g] = forms[g]
        /\ UNCHANGED <<listing, files, button, removal, question, buys, erasures, scan, flagged, odd>>
<1> USE DEF TypeOK
<1>1. listing.photo \in Photos \cup {None}
  BY DEF ListingRows
<1>2. PICK m : m = [NoForm EXCEPT !.at = "open", !.shows = listing.photo]
  OBVIOUS
<1>3. m \in FormRecords /\ m.at = "open" /\ m.shows = listing.photo /\ m.old = None
  BY <1>1, <1>2, NoFormIs DEF FormRecords
<1>4. forms' = [forms EXCEPT ![f] = m]
  BY <1>2 DEF OpenForm
<1>5. QED
  BY <1>3, <1>4, FormMoves DEF OpenForm

LEMMA UploadPhotoDoes ==
  ASSUME TypeOK, NEW f \in Forms, UploadPhoto(f)
  PROVE /\ TypeOK' /\ forms[f].at = "open" /\ f \notin files /\ forms[f].shows # f
        /\ files' = files \cup {f}
        /\ \/ forms'[f].at = "ready" /\ forms'[f].shows = f
           \/ forms'[f].at = "open" /\ forms'[f].shows = forms[f].shows
        /\ forms'[f].old = forms[f].old
        /\ \A g \in Forms \ {f} : forms'[g] = forms[g]
        /\ UNCHANGED <<listing, button, removal, question, buys, erasures, scan, flagged, odd>>
<1> USE DEF TypeOK
<1>1. f \in Photos /\ forms[f] \in FormRecords
  BY DEF Photos
<1>2. PICK answered \in BOOLEAN :
        forms' = [forms EXCEPT ![f].shows = IF answered THEN f ELSE @,
                               ![f].at = IF answered THEN "ready" ELSE "open"]
  BY DEF UploadPhoto
<1>3. /\ forms' \in [Forms -> FormRecords]
      /\ \/ forms'[f].at = "ready" /\ forms'[f].shows = f
         \/ forms'[f].at = "open" /\ forms'[f].shows = forms[f].shows
      /\ forms'[f].old = forms[f].old /\ \A g \in Forms \ {f} : forms'[g] = forms[g]
  <2>1. CASE answered
    <3>1. forms' = [forms EXCEPT ![f].shows = f, ![f].at = "ready"]
      BY <1>2, <2>1
    <3>2. QED
      BY <1>1, <3>1 DEF FormRecords
  <2>2. CASE ~answered
    <3>1. forms' = [forms EXCEPT ![f].shows = forms[f].shows, ![f].at = "open"]
      BY <1>1, <1>2, <2>2 DEF FormRecords
    <3>2. QED
      BY <1>1, <3>1 DEF FormRecords
  <2>3. QED
    BY <2>1, <2>2
<1>4. files' \subseteq Photos
  BY <1>1 DEF UploadPhoto
<1>5. QED
  BY <1>3, <1>4 DEF UploadPhoto

LEMMA UpdateReadDoes ==
  ASSUME TypeOK, NEW f \in Forms, UpdateRead(f)
  PROVE /\ TypeOK' /\ forms[f].at \in {"open", "ready"} /\ listing.exists
        /\ forms'[f].at = "read" /\ forms'[f].shows = forms[f].shows
        /\ forms'[f].old = listing.photo
        /\ \A g \in Forms \ {f} : forms'[g] = forms[g]
        /\ UNCHANGED <<listing, files, button, removal, question, buys, erasures, scan, flagged, odd>>
<1> USE DEF TypeOK
<1>1. listing.photo \in Photos \cup {None} /\ forms[f] \in FormRecords
  BY DEF ListingRows
<1>2. forms' = [forms EXCEPT ![f].at = "read", ![f].old = listing.photo]
  BY DEF UpdateRead
<1>3. /\ forms' \in [Forms -> FormRecords] /\ forms'[f].at = "read"
      /\ forms'[f].shows = forms[f].shows /\ forms'[f].old = listing.photo
      /\ \A g \in Forms \ {f} : forms'[g] = forms[g]
  BY <1>1, <1>2 DEF FormRecords
<1>4. QED
  BY <1>3 DEF UpdateRead

LEMMA UpdateWriteDoes ==
  ASSUME TypeOK, NEW f \in Forms, UpdateWrite(f)
  PROVE /\ TypeOK' /\ forms[f].at = "read"
        /\ forms'[f].at = "written" /\ forms'[f].shows = forms[f].shows
        /\ forms'[f].old = forms[f].old
        /\ \A g \in Forms \ {f} : forms'[g] = forms[g]
        /\ listing'.exists = listing.exists /\ listing'.status = listing.status
        /\ listing'.photo = IF listing.exists THEN forms[f].shows ELSE listing.photo
        /\ \/ forms[f].shows \in {f, listing.photo} /\ odd' = odd
           \/ odd' = odd \cup {"resent"}
        /\ UNCHANGED <<files, button, removal, question, buys, erasures, scan, flagged>>
<1> USE DEF TypeOK
<1>1. forms[f] \in FormRecords /\ forms[f].shows \in Photos \cup {None}
  BY DEF FormRecords
<1>2. forms' = [forms EXCEPT ![f].at = "written"]
  BY DEF UpdateWrite
<1>3. /\ forms' \in [Forms -> FormRecords] /\ forms'[f].at = "written"
      /\ forms'[f].shows = forms[f].shows /\ forms'[f].old = forms[f].old
      /\ \A g \in Forms \ {f} : forms'[g] = forms[g]
  BY <1>1, <1>2 DEF FormRecords
<1>4. /\ listing' \in ListingRows
      /\ listing'.exists = listing.exists /\ listing'.status = listing.status
      /\ listing'.photo = IF listing.exists THEN forms[f].shows ELSE listing.photo
  BY <1>1 DEF UpdateWrite, ListingRows
<1>5. /\ \/ forms[f].shows \in {f, listing.photo} /\ odd' = odd
         \/ odd' = odd \cup {"resent"}
      /\ odd' \subseteq Odd
  BY DEF UpdateWrite, Odd
<1>6. QED
  BY <1>3, <1>4, <1>5 DEF UpdateWrite

LEMMA DeleteReplacedDoes ==
  ASSUME TypeOK, NEW f \in Forms, DeleteReplaced(f)
  PROVE /\ TypeOK' /\ forms[f].at = "written"
        /\ forms'[f] = Saved /\ \A g \in Forms \ {f} : forms'[g] = forms[g]
        /\ \/ files' = files
           \/ files' = files \ {forms[f].old} /\ forms[f].old # forms[f].shows
        /\ UNCHANGED <<listing, button, removal, question, buys, erasures, scan, flagged, odd>>
<1> USE DEF TypeOK
<1>1. forms' = [forms EXCEPT ![f] = Saved]
  BY DEF DeleteReplaced
<1>2. /\ \/ files' = files
         \/ files' = files \ {forms[f].old} /\ forms[f].old # forms[f].shows
      /\ files' \subseteq Photos
  BY DEF DeleteReplaced
<1>3. QED
  BY <1>1, <1>2, NoFormIs, FormMoves DEF DeleteReplaced

LEMMA RemoveDoes ==
  ASSUME TypeOK, Remove
  PROVE /\ TypeOK'
        /\ \/ /\ listing.exists /\ removal'.at = "counted" /\ removal'.old = listing.photo
              /\ UNCHANGED <<listing, files>>
           \/ /\ removal.at = "counted" /\ removal'.at = "none" /\ removal'.old = None
              /\ UNCHANGED <<listing, files>>
           \/ /\ removal.at = "counted" /\ removal'.at = "deleted" /\ removal'.old = removal.old
              /\ ~listing'.exists /\ listing'.photo = None /\ listing'.status = listing.status
              /\ UNCHANGED files
           \/ /\ removal.at = "deleted" /\ removal'.at = "done" /\ removal'.old = None
              /\ files' \in {files, files \ {removal.old}} /\ UNCHANGED listing
        /\ UNCHANGED <<forms, button, question, buys, erasures, scan, flagged, odd>>
<1> USE DEF TypeOK
<1>1. CASE CountConversations
  <2>1. listing.photo \in Photos \cup {None}
    BY DEF ListingRows
  <2>2. removal' \in RemovalRecords
    BY <1>1, <2>1 DEF CountConversations, RemovalRecords
  <2>3. QED
    BY <1>1, <2>2 DEF CountConversations
<1>2. CASE DeleteListing
  <2>1. CASE Referred
    <3>1. removal' \in RemovalRecords
      BY <1>2, <2>1 DEF DeleteListing, RemovalRecords
    <3>2. QED
      BY <1>2, <2>1, <3>1 DEF DeleteListing
  <2>2. CASE ~Referred
    <3>1. /\ removal' = [removal EXCEPT !.at = "deleted"]
          /\ listing' = [listing EXCEPT !.exists = FALSE, !.photo = None]
      BY <1>2, <2>2 DEF DeleteListing
    <3>2. removal' \in RemovalRecords /\ removal'.at = "deleted" /\ removal'.old = removal.old
      BY <3>1 DEF RemovalRecords
    <3>3. /\ listing' \in ListingRows /\ ~listing'.exists /\ listing'.photo = None
          /\ listing'.status = listing.status
      BY <3>1 DEF ListingRows
    <3>4. QED
      BY <1>2, <2>2, <3>2, <3>3 DEF DeleteListing
  <2>3. QED
    BY <2>1, <2>2
<1>3. CASE DeletePhoto
  <2>1. removal' \in RemovalRecords /\ files' \subseteq Photos
    BY <1>3 DEF DeletePhoto, RemovalRecords
  <2>2. QED
    BY <1>3, <2>1 DEF DeletePhoto
<1>4. QED
  BY <1>1, <1>2, <1>3 DEF Remove

(* The checkout window and what becomes of an order leave everything else.   *)
CheckoutFrame == UNCHANGED <<files, forms, button, removal, question, erasures, scan, flagged>>
Becomes(c, at, intent, order) ==
  /\ buys'[c].at = at /\ buys'[c].intent = intent /\ buys'[c].order = order
  /\ \A d \in Checkouts \ {c} : buys'[d] = buys[d]

LEMMA ClaimDoes ==
  ASSUME TypeOK, NEW c \in Checkouts, Claim(c)
  PROVE /\ TypeOK' /\ CheckoutFrame
        /\ buys[c].at = "none" /\ erasures[c] # "gone"
        /\ listing.exists /\ listing.status = "active"
        /\ listing'.exists = listing.exists /\ listing'.photo = listing.photo
        /\ listing'.status = "reserved"
        /\ Becomes(c, "claimed", buys[c].intent, buys[c].order)
        /\ odd' \in {odd, odd \cup {"during"}}
        /\ "during" \notin odd' => erasures[c] # "checked" /\ erasures["seller"] # "checked"
<1> USE DEF TypeOK
<1>1. buys[c] \in BuyRecords
  OBVIOUS
<1>2. PICK b : b = [buys[c] EXCEPT !.at = "claimed"]
  OBVIOUS
<1>3. /\ b \in BuyRecords /\ b.at = "claimed" /\ b.intent = buys[c].intent
      /\ b.order = buys[c].order
  BY <1>1, <1>2 DEF BuyRecords, Window
<1>4. SetBuy(c, b)
  BY <1>2 DEF Claim
<1>5. /\ listing' \in ListingRows /\ listing'.exists = listing.exists
      /\ listing'.photo = listing.photo /\ listing'.status = "reserved"
  BY DEF Claim, ListingRows
<1>6. /\ odd' \in {odd, odd \cup {"during"}} /\ odd' \subseteq Odd
      /\ "during" \notin odd' => erasures[c] # "checked" /\ erasures["seller"] # "checked"
  BY DEF Claim, Odd
<1>7. /\ CheckoutFrame /\ buys[c].at = "none" /\ erasures[c] # "gone"
      /\ listing.exists /\ listing.status = "active"
  BY DEF Claim, Signed, CheckoutFrame
<1>8. /\ buys' \in [Checkouts -> BuyRecords]
      /\ Becomes(c, "claimed", buys[c].intent, buys[c].order)
  BY <1>3, <1>4, BuyMoves DEF Becomes
<1>9. QED
  BY <1>5, <1>6, <1>7, <1>8 DEF CheckoutFrame

(* A step of one checkout that leaves the listing as it is.                  *)
LEMMA BuyStepTypes ==
  ASSUME TypeOK, NEW c \in Checkouts, NEW b \in BuyRecords, SetBuy(c, b), CheckoutFrame,
         listing' \in ListingRows, odd' \subseteq Odd
  PROVE TypeOK' /\ Becomes(c, b.at, b.intent, b.order)
  BY BuyMoves DEF TypeOK, CheckoutFrame, Becomes

LEMMA CreateIntentDoes ==
  ASSUME TypeOK, NEW c \in Checkouts, CreateIntent(c)
  PROVE /\ TypeOK' /\ CheckoutFrame /\ buys[c].at = "claimed" /\ UNCHANGED <<listing, odd>>
        /\ \/ Becomes(c, "intent", "live", buys[c].order)
           \/ Becomes(c, "releasing", buys[c].intent, buys[c].order)
<1>1. PICK b : /\ SetBuy(c, b)
               /\ b \in {[buys[c] EXCEPT !.at = "intent", !.intent = "live"],
                         [buys[c] EXCEPT !.at = "releasing"]}
  BY DEF CreateIntent
<1>2. buys[c] \in BuyRecords
  BY DEF TypeOK
<1>3. /\ b \in BuyRecords /\ b.order = buys[c].order
      /\ \/ b.at = "intent" /\ b.intent = "live"
         \/ b.at = "releasing" /\ b.intent = buys[c].intent
  BY <1>1, <1>2 DEF BuyRecords, Window
<1>4. /\ CheckoutFrame /\ buys[c].at = "claimed" /\ UNCHANGED <<listing, odd>>
      /\ listing' \in ListingRows /\ odd' \subseteq Odd
  BY DEF CreateIntent, CheckoutFrame, TypeOK
<1>5. QED
  BY <1>1, <1>3, <1>4, BuyStepTypes

LEMMA InsertOrderDoes ==
  ASSUME TypeOK, NEW c \in Checkouts, InsertOrder(c)
  PROVE /\ TypeOK' /\ CheckoutFrame /\ buys[c].at = "intent" /\ UNCHANGED listing
        /\ \/ Becomes(c, "cancelling", buys[c].intent, buys[c].order) /\ odd' = odd
           \/ Becomes(c, "answered", buys[c].intent, "pending") /\ odd' = odd
           \/ Becomes(c, "cancelling", buys[c].intent, "pending") /\ odd' = odd \cup {"lostAck"}
<1>1. PICK b : /\ SetBuy(c, b)
               /\ \/ b = [buys[c] EXCEPT !.at = "cancelling"] /\ odd' = odd
                  \/ b = [buys[c] EXCEPT !.at = "answered", !.order = "pending"] /\ odd' = odd
                  \/ /\ b = [buys[c] EXCEPT !.at = "cancelling", !.order = "pending"]
                     /\ odd' = odd \cup {"lostAck"}
  BY DEF InsertOrder
<1>2. buys[c] \in BuyRecords
  BY DEF TypeOK
<1>3. /\ b \in BuyRecords /\ b.intent = buys[c].intent
      /\ \/ b.at = "cancelling" /\ b.order = buys[c].order /\ odd' = odd
         \/ b.at = "answered" /\ b.order = "pending" /\ odd' = odd
         \/ b.at = "cancelling" /\ b.order = "pending" /\ odd' = odd \cup {"lostAck"}
  BY <1>1, <1>2 DEF BuyRecords, Window, Orders, Open
<1>4. /\ CheckoutFrame /\ buys[c].at = "intent" /\ UNCHANGED listing
      /\ listing' \in ListingRows /\ odd' \subseteq Odd
  BY <1>3 DEF InsertOrder, CheckoutFrame, TypeOK, Odd
<1>5. TypeOK' /\ Becomes(c, b.at, b.intent, b.order)
  BY <1>1, <1>3, <1>4, BuyStepTypes
<1>6. QED
  BY <1>3, <1>4, <1>5

LEMMA CancelIntentDoes ==
  ASSUME TypeOK, NEW c \in Checkouts, CancelIntent(c)
  PROVE /\ TypeOK' /\ CheckoutFrame /\ buys[c].at = "cancelling" /\ UNCHANGED <<listing, odd>>
        /\ \/ Becomes(c, "releasing", "canceled", buys[c].order)
           \/ Becomes(c, "releasing", buys[c].intent, buys[c].order)
<1>1. PICK b : /\ SetBuy(c, b)
               /\ b \in {[buys[c] EXCEPT !.at = "releasing", !.intent = "canceled", !.hook = "due"],
                         [buys[c] EXCEPT !.at = "releasing"]}
  BY DEF CancelIntent
<1>2. buys[c] \in BuyRecords
  BY DEF TypeOK
<1>3. /\ b \in BuyRecords /\ b.order = buys[c].order /\ b.at = "releasing"
      /\ b.intent \in {"canceled", buys[c].intent}
  BY <1>1, <1>2 DEF BuyRecords, Window
<1>4. /\ CheckoutFrame /\ buys[c].at = "cancelling" /\ UNCHANGED <<listing, odd>>
      /\ listing' \in ListingRows /\ odd' \subseteq Odd
  BY DEF CancelIntent, CheckoutFrame, TypeOK
<1>5. QED
  BY <1>1, <1>3, <1>4, BuyStepTypes

LEMMA ReleaseDoes ==
  ASSUME TypeOK, NEW c \in Checkouts, Release(c)
  PROVE /\ TypeOK' /\ CheckoutFrame /\ buys[c].at = "releasing" /\ listing' = Free /\ odd' = odd
        /\ Becomes(c, "failed", buys[c].intent, buys[c].order)
<1>1. PICK b : SetBuy(c, b) /\ b = [buys[c] EXCEPT !.at = "failed"]
  BY DEF Release
<1>2. buys[c] \in BuyRecords /\ Free \in ListingRows
  BY FreeIs DEF TypeOK
<1>3. b \in BuyRecords /\ b.order = buys[c].order /\ b.at = "failed" /\ b.intent = buys[c].intent
  BY <1>1, <1>2 DEF BuyRecords
<1>4. /\ CheckoutFrame /\ buys[c].at = "releasing" /\ listing' = Free /\ odd' = odd
      /\ listing' \in ListingRows /\ odd' \subseteq Odd
  BY <1>2 DEF Release, CheckoutFrame, TypeOK
<1>5. QED
  BY <1>1, <1>3, <1>4, BuyStepTypes

LEMMA WindowDiesDoes ==
  ASSUME TypeOK, NEW c \in Checkouts, WindowDies(c)
  PROVE /\ TypeOK' /\ CheckoutFrame /\ buys[c].at \in Window /\ UNCHANGED <<listing, odd>>
        /\ Becomes(c, "failed", buys[c].intent, buys[c].order)
<1>1. PICK b : SetBuy(c, b) /\ b = [buys[c] EXCEPT !.at = "failed"]
  BY DEF WindowDies
<1>2. buys[c] \in BuyRecords
  BY DEF TypeOK
<1>3. b \in BuyRecords /\ b.order = buys[c].order /\ b.at = "failed" /\ b.intent = buys[c].intent
  BY <1>1, <1>2 DEF BuyRecords
<1>4. /\ CheckoutFrame /\ buys[c].at \in Window /\ UNCHANGED <<listing, odd>>
      /\ listing' \in ListingRows /\ odd' \subseteq Odd
  BY DEF WindowDies, CheckoutFrame, TypeOK
<1>5. QED
  BY <1>1, <1>3, <1>4, BuyStepTypes

LEMMA PayDoes ==
  ASSUME TypeOK, NEW c \in Checkouts, Pay(c)
  PROVE /\ TypeOK' /\ CheckoutFrame /\ buys[c].at = "answered" /\ UNCHANGED <<listing, odd>>
        /\ Becomes(c, "answered", "paid", buys[c].order)
<1>1. PICK b : SetBuy(c, b) /\ b = [buys[c] EXCEPT !.intent = "paid", !.hook = "due"]
  BY DEF Pay
<1>2. buys[c] \in BuyRecords /\ buys[c].at = "answered"
  BY DEF TypeOK, Pay
<1>3. b \in BuyRecords /\ b.order = buys[c].order /\ b.at = "answered" /\ b.intent = "paid"
  BY <1>1, <1>2 DEF BuyRecords
<1>4. /\ CheckoutFrame /\ UNCHANGED <<listing, odd>>
      /\ listing' \in ListingRows /\ odd' \subseteq Odd
  BY DEF Pay, CheckoutFrame, TypeOK
<1>5. QED
  BY <1>1, <1>2, <1>3, <1>4, BuyStepTypes

LEMMA SucceededDoes ==
  ASSUME TypeOK, NEW c \in Checkouts, Succeeded(c)
  PROVE /\ TypeOK' /\ CheckoutFrame /\ buys[c].intent = "paid" /\ odd' = odd
        /\ \/ /\ buys[c].order = "pending" /\ Becomes(c, buys[c].at, buys[c].intent, "paid")
              /\ listing'.exists = listing.exists /\ listing'.photo = listing.photo
              /\ listing'.status = IF listing.status = "reserved" THEN "sold" ELSE listing.status
           \/ /\ buys[c].order \in {"expired", "cancelled"} /\ UNCHANGED listing
              /\ \/ Becomes(c, buys[c].at, "refunded", "refunded")
                 \/ Becomes(c, buys[c].at, buys[c].intent, buys[c].order)
<1>0. buys[c] \in BuyRecords /\ listing \in ListingRows
  BY DEF TypeOK
<1>1. /\ CheckoutFrame /\ odd' = odd /\ buys[c].intent = "paid"
      /\ odd' \subseteq Odd
  BY DEF Succeeded, CheckoutFrame, TypeOK
<1>2. CASE /\ buys[c].order = "pending"
           /\ SetBuy(c, [buys[c] EXCEPT !.hook = "done", !.order = "paid"])
           /\ listing' = IF listing.status = "reserved" THEN [listing EXCEPT !.status = "sold"] ELSE listing
  <2>1. PICK b : SetBuy(c, b) /\ b = [buys[c] EXCEPT !.hook = "done", !.order = "paid"]
    BY <1>2
  <2>2. b \in BuyRecords /\ b.order = "paid" /\ b.at = buys[c].at /\ b.intent = buys[c].intent
    BY <1>0, <2>1 DEF BuyRecords, Orders, Open
  <2>3. /\ listing' \in ListingRows
        /\ listing'.exists = listing.exists /\ listing'.photo = listing.photo
        /\ listing'.status = IF listing.status = "reserved" THEN "sold" ELSE listing.status
    BY <1>0, <1>2 DEF ListingRows
  <2>4. QED
    BY <1>1, <1>2, <2>1, <2>2, <2>3, BuyStepTypes
<1>3. CASE /\ buys[c].order \in {"expired", "cancelled"} /\ UNCHANGED listing
           /\ \/ SetBuy(c, [buys[c] EXCEPT !.hook = "done", !.order = "refunded", !.intent = "refunded"])
              \/ SetBuy(c, [buys[c] EXCEPT !.hook = "done"])
  <2>1. PICK b : /\ SetBuy(c, b)
                 /\ b \in {[buys[c] EXCEPT !.hook = "done", !.order = "refunded", !.intent = "refunded"],
                           [buys[c] EXCEPT !.hook = "done"]}
    BY <1>3
  <2>2. /\ b \in BuyRecords /\ b.at = buys[c].at
        /\ \/ b.order = "refunded" /\ b.intent = "refunded"
           \/ b.order = buys[c].order /\ b.intent = buys[c].intent
    BY <1>0, <2>1 DEF BuyRecords, Orders
  <2>3. TypeOK' /\ Becomes(c, b.at, b.intent, b.order)
    BY <1>0, <1>1, <1>3, <2>1, <2>2, BuyStepTypes
  <2>4. QED
    BY <1>1, <1>3, <2>2, <2>3
<1>4. QED
  BY <1>2, <1>3 DEF Succeeded

LEMMA CanceledDoes ==
  ASSUME TypeOK, NEW c \in Checkouts, Canceled(c)
  PROVE /\ TypeOK' /\ CheckoutFrame /\ buys[c].intent = "canceled" /\ odd' = odd
        /\ \/ /\ buys[c].order = "pending" /\ listing' = Free
              /\ Becomes(c, buys[c].at, "canceled", "cancelled")
           \/ UNCHANGED listing /\ Becomes(c, buys[c].at, "canceled", buys[c].order)
<1>0. buys[c] \in BuyRecords /\ listing \in ListingRows /\ Free \in ListingRows
  BY FreeIs DEF TypeOK
<1>1. /\ CheckoutFrame /\ odd' = odd /\ buys[c].intent = "canceled"
      /\ odd' \subseteq Odd
  BY DEF Canceled, CheckoutFrame, TypeOK
<1>2. PICK b : /\ SetBuy(c, b)
               /\ \/ /\ buys[c].order = "pending" /\ listing' = Free
                     /\ b = [buys[c] EXCEPT !.hook = "done", !.order = "cancelled"]
                  \/ UNCHANGED listing /\ b = [buys[c] EXCEPT !.hook = "done"]
  BY DEF Canceled
<1>3. /\ b \in BuyRecords /\ b.at = buys[c].at /\ b.intent = "canceled"
      /\ \/ buys[c].order = "pending" /\ listing' = Free /\ b.order = "cancelled"
         \/ UNCHANGED listing /\ b.order = buys[c].order
  BY <1>0, <1>1, <1>2 DEF BuyRecords, Orders
<1>4. TypeOK' /\ Becomes(c, b.at, b.intent, b.order)
  BY <1>0, <1>1, <1>2, <1>3, BuyStepTypes
<1>5. QED
  BY <1>1, <1>3, <1>4

LEMMA DropHookDoes ==
  ASSUME TypeOK, NEW c \in Checkouts, DropHook(c)
  PROVE /\ TypeOK' /\ CheckoutFrame /\ UNCHANGED <<listing, odd>>
        /\ Becomes(c, buys[c].at, buys[c].intent, buys[c].order)
<1>1. PICK b : SetBuy(c, b) /\ b = [buys[c] EXCEPT !.hook = "done"]
  BY DEF DropHook
<1>2. buys[c] \in BuyRecords
  BY DEF TypeOK
<1>3. /\ b \in BuyRecords /\ b.order = buys[c].order /\ b.at = buys[c].at
      /\ b.intent = buys[c].intent
  BY <1>1, <1>2 DEF BuyRecords
<1>4. /\ CheckoutFrame /\ UNCHANGED <<listing, odd>>
      /\ listing' \in ListingRows /\ odd' \subseteq Odd
  BY DEF DropHook, CheckoutFrame, TypeOK
<1>5. QED
  BY <1>1, <1>3, <1>4, BuyStepTypes

LEMMA ConfirmReceiptDoes ==
  ASSUME TypeOK, NEW c \in Checkouts, ConfirmReceipt(c)
  PROVE /\ TypeOK' /\ CheckoutFrame /\ UNCHANGED <<listing, odd>> /\ buys[c].order = "paid"
        /\ Becomes(c, buys[c].at, buys[c].intent, "completed")
<1>1. PICK b : SetBuy(c, b) /\ b = [buys[c] EXCEPT !.order = "completed"]
  BY DEF ConfirmReceipt
<1>2. buys[c] \in BuyRecords
  BY DEF TypeOK
<1>3. /\ b \in BuyRecords /\ b.order = "completed" /\ b.at = buys[c].at
      /\ b.intent = buys[c].intent
  BY <1>1, <1>2 DEF BuyRecords, Orders
<1>4. /\ CheckoutFrame /\ UNCHANGED <<listing, odd>> /\ buys[c].order = "paid"
      /\ listing' \in ListingRows /\ odd' \subseteq Odd
  BY DEF ConfirmReceipt, CheckoutFrame, TypeOK
<1>5. QED
  BY <1>1, <1>3, <1>4, BuyStepTypes

LEMMA SweepDoes ==
  ASSUME TypeOK, Sweep
  PROVE /\ TypeOK' /\ CheckoutFrame /\ listing' = Free /\ odd \subseteq odd'
        /\ listing.status = "reserved" /\ \A c \in Checkouts : buys[c].at \notin Window
        /\ \A c \in Checkouts :
             /\ buys'[c].at = buys[c].at /\ buys'[c].intent = buys[c].intent
             /\ \/ buys[c].order = "pending" /\ buys'[c].order = "expired"
                \/ buys[c].order = "pending" /\ buys'[c].order = "pending" /\ "skipped" \in odd'
                \/ buys[c].order # "pending" /\ buys'[c].order = buys[c].order
<1>1. PICK skipped \in SUBSET {c \in Checkouts : buys[c].order = "pending"} :
        /\ buys' = [c \in Checkouts |->
              IF buys[c].order = "pending" /\ c \notin skipped THEN [buys[c] EXCEPT !.order = "expired"]
              ELSE buys[c]]
        /\ odd' = IF skipped = {} THEN odd ELSE odd \cup {"skipped"}
  BY DEF Sweep
<1>2. /\ odd \subseteq odd' /\ odd' \subseteq Odd
      /\ \A c \in Checkouts : c \in skipped => "skipped" \in odd'
  BY <1>1 DEF TypeOK, Odd
<1>3. ASSUME NEW c \in Checkouts
      PROVE /\ buys'[c] \in BuyRecords
            /\ buys'[c].at = buys[c].at /\ buys'[c].intent = buys[c].intent
            /\ \/ buys[c].order = "pending" /\ buys'[c].order = "expired"
               \/ buys[c].order = "pending" /\ buys'[c].order = "pending" /\ "skipped" \in odd'
               \/ buys[c].order # "pending" /\ buys'[c].order = buys[c].order
  <2>1. buys[c] \in BuyRecords
    BY DEF TypeOK
  <2>2. CASE buys[c].order = "pending" /\ c \notin skipped
    <3>1. buys'[c] = [buys[c] EXCEPT !.order = "expired"]
      BY <1>1, <2>2
    <3>2. QED
      BY <2>1, <2>2, <3>1 DEF BuyRecords, Orders
  <2>3. CASE ~(buys[c].order = "pending" /\ c \notin skipped)
    <3>1. buys'[c] = buys[c]
      BY <1>1, <2>3
    <3>2. QED
      BY <1>2, <2>1, <2>3, <3>1
  <2>4. QED
    BY <2>2, <2>3
<1>4. buys' \in [Checkouts -> BuyRecords]
  <2>1. buys' = [c \in Checkouts |-> buys'[c]]
    BY <1>1
  <2>2. QED
    BY <1>3, <2>1
<1>5. listing' \in ListingRows
  BY FreeIs DEF Sweep, TypeOK
<1>6. QED
  BY <1>2, <1>3, <1>4, <1>5 DEF Sweep, CheckoutFrame, TypeOK

(* What a button of the seller's does to the listing.                        *)
LEMMA PressDoes ==
  ASSUME TypeOK, Press
  PROVE /\ TypeOK'
        /\ UNCHANGED <<files, forms, removal, question, buys, erasures, scan, flagged>>
        /\ odd \subseteq odd' /\ ("resent" \in odd' => "resent" \in odd)
        /\ listing'.exists = listing.exists /\ listing'.photo = listing.photo
        /\ \/ UNCHANGED listing
           \/ /\ listing.exists /\ listing'.status \in {"active", "reserved", "sold"}
              /\ Takes(listing'.status) => "relisted" \in odd'
              /\ erasures["seller"] = "gone" => "late" \in odd'
<1> USE DEF TypeOK
<1>1. NoButton \in ButtonRecords /\ NoButton.at = "idle"
  BY DEF NoButton, ButtonRecords
<1>2. ASSUME NEW to \in {"active", "reserved", "sold"}, SellerReads(to)
      PROVE /\ button' \in ButtonRecords /\ button'.to # "none"
            /\ UNCHANGED <<listing, files, forms, removal, question, buys, erasures, scan, flagged, odd>>
  BY <1>2 DEF SellerReads, ButtonRecords
<1>3. CASE SellerChecks
  <2>1. button' \in ButtonRecords /\ (button'.at # "idle" => button'.to # "none")
    BY <1>1, <1>3 DEF SellerChecks, ButtonRecords
  <2>2. QED
    BY <1>3, <2>1 DEF SellerChecks
<1>4. CASE SellerWrites
  <2>1. button' = NoButton /\ button.to \in {"active", "reserved", "sold"}
        /\ UNCHANGED <<files, forms, removal, question, buys, erasures, scan, flagged>>
    BY <1>4 DEF SellerWrites, ButtonRecords
  <2>2. CASE listing.exists
    <3>1. /\ listing' = [listing EXCEPT !.status = button.to]
          /\ odd' = odd \cup (IF Takes(button.to) THEN {"relisted"} ELSE {})
                        \cup (IF Signed("seller") THEN {} ELSE {"late"})
      BY <1>4, <2>2 DEF SellerWrites
    <3>2. /\ listing' \in ListingRows /\ listing'.status = button.to
          /\ listing'.exists = listing.exists /\ listing'.photo = listing.photo
      BY <2>1, <3>1 DEF ListingRows
    <3>3. /\ odd \subseteq odd' /\ odd' \subseteq Odd /\ ("resent" \in odd' => "resent" \in odd)
          /\ Takes(button.to) => "relisted" \in odd'
          /\ erasures["seller"] = "gone" => "late" \in odd'
      BY <3>1 DEF Odd, Signed
    <3>4. QED
      BY <1>1, <2>1, <2>2, <3>2, <3>3
  <2>3. CASE ~listing.exists
    BY <1>1, <1>4, <2>1, <2>3 DEF SellerWrites
  <2>4. QED
    BY <2>2, <2>3
<1>5. QED
  BY <1>2, <1>3, <1>4 DEF Press

LEMMA AskAboutDoes ==
  ASSUME TypeOK, AskAbout
  PROVE /\ TypeOK'
        /\ UNCHANGED <<listing, files, forms, button, removal, buys, erasures, scan, flagged, odd>>
  BY DEF AskAbout, TypeOK

LEMMA ReconcileDoes ==
  ASSUME TypeOK, Reconcile
  PROVE /\ TypeOK'
        /\ UNCHANGED <<listing, files, forms, button, removal, question, buys, erasures, odd>>
<1>1. CASE ScanStart
  <2>1. scan' \in ScanRecords
    <3>1. PICK left, pending, owed \in SUBSET Checkouts :
            scan' = [at |-> "scanning", left |-> left, pending |-> pending, owed |-> owed,
                     missed |-> {}]
      BY <1>1 DEF ScanStart
    <3>2. QED
      BY <3>1 DEF ScanRecords
  <2>2. QED
    BY <1>1, <2>1 DEF ScanStart, TypeOK
<1>2. CASE ScanEnd
  BY <1>2 DEF ScanEnd, TypeOK, ScanRecords
<1>3. ASSUME NEW c \in Checkouts, ScanOne(c)
      PROVE /\ TypeOK'
            /\ UNCHANGED <<listing, files, forms, button, removal, question, buys, erasures, odd>>
  <2>1. scan' \in ScanRecords
    <3>1. scan \in ScanRecords
      BY DEF TypeOK
    <3>2. CASE scan' = [scan EXCEPT !.left = @ \ {c}]
      BY <3>1, <3>2 DEF ScanRecords
    <3>3. CASE scan' = [scan EXCEPT !.left = @ \ {c}, !.missed = @ \cup {c}]
      BY <3>1, <3>3 DEF ScanRecords
    <3>4. QED
      BY <1>3, <3>2, <3>3 DEF ScanOne
  <2>2. flagged' \subseteq Checkouts
    BY <1>3 DEF ScanOne, TypeOK
  <2>3. QED
    BY <1>3, <2>1, <2>2 DEF ScanOne, TypeOK
<1>4. ASSUME NEW c \in Checkouts, ResolveIssue(c)
      PROVE /\ TypeOK'
            /\ UNCHANGED <<listing, files, forms, button, removal, question, buys, erasures, odd>>
  <2>1. NoScan \in ScanRecords
    BY DEF NoScan, ScanRecords
  <2>2. QED
    BY <1>4, <2>1 DEF ResolveIssue, TypeOK
<1>5. QED
  BY <1>1, <1>2, <1>3, <1>4 DEF Reconcile

LEMMA CheckBlockersDoes ==
  ASSUME TypeOK, NEW u \in Users, CheckBlockers(u)
  PROVE /\ TypeOK' /\ UNCHANGED <<listing, files, forms, button, removal, question, buys, scan, flagged>>
        /\ erasures[u] = "none" /\ erasures'[u] = "checked"
        /\ \A v \in Users \ {u} : erasures'[v] = erasures[v]
        /\ odd' \in {odd, odd \cup {"during"}}
        /\ \A c \in OrdersOf(u) : buys[c].order \notin Open
        /\ "during" \notin odd' => \A c \in OrdersOf(u) : buys[c].at \notin Window
<1>1. odd' \subseteq Odd /\ odd' \in {odd, odd \cup {"during"}}
  BY DEF CheckBlockers, TypeOK, Odd
<1>2. /\ erasures' \in [Users -> {"none", "checked", "gone"}] /\ erasures'[u] = "checked"
      /\ \A v \in Users \ {u} : erasures'[v] = erasures[v]
  BY DEF CheckBlockers, TypeOK
<1>3. QED
  BY <1>1, <1>2 DEF CheckBlockers, TypeOK

LEMMA EraseDoes ==
  ASSUME TypeOK, NEW u \in Users, Erase(u)
  PROVE /\ TypeOK' /\ UNCHANGED <<files, forms, button, removal, question, buys, scan, flagged, odd>>
        /\ erasures[u] = "checked" /\ erasures'[u] \in {"none", "gone"}
        /\ \A v \in Users \ {u} : erasures'[v] = erasures[v]
        /\ \/ UNCHANGED listing /\ (u = "seller" => erasures'[u] = "none")
           \/ /\ u = "seller" /\ listing'.photo = None /\ listing'.status = listing.status
              /\ listing'.exists => listing.exists /\ listing.status = "sold"
<1>1. PICK s \in {"none", "gone"} :
        /\ erasures' = [erasures EXCEPT ![u] = s]
        /\ \/ UNCHANGED listing /\ (u = "seller" => s = "none")
           \/ /\ u = "seller"
              /\ listing' = [listing EXCEPT !.photo = None,
                                            !.exists = listing.exists /\ listing.status = "sold"]
  <2>1. CASE u = "seller" /\ listing.exists /\ listing.status # "sold" /\ Referred
    BY <2>1 DEF Erase
  <2>2. CASE ~(u = "seller" /\ listing.exists /\ listing.status # "sold" /\ Referred)
    BY <2>2 DEF Erase, TypeOK, ListingRows
  <2>3. QED
    BY <2>1, <2>2
<1>2. /\ erasures' \in [Users -> {"none", "checked", "gone"}] /\ erasures'[u] = s
      /\ \A v \in Users \ {u} : erasures'[v] = erasures[v]
  BY <1>1 DEF TypeOK
<1>3. /\ listing' \in ListingRows
      /\ \/ UNCHANGED listing /\ (u = "seller" => s = "none")
         \/ /\ u = "seller" /\ listing'.photo = None /\ listing'.status = listing.status
            /\ listing'.exists => listing.exists /\ listing.status = "sold"
  <2>1. CASE UNCHANGED listing /\ (u = "seller" => s = "none")
    BY <2>1 DEF TypeOK
  <2>2. CASE /\ u = "seller"
             /\ listing' = [listing EXCEPT !.photo = None,
                                           !.exists = listing.exists /\ listing.status = "sold"]
    <3>1. PICK x \in BOOLEAN : x = (listing.exists /\ listing.status = "sold")
      OBVIOUS
    <3>2. listing' = [listing EXCEPT !.photo = None, !.exists = x]
      BY <2>2, <3>1
    <3>3. listing \in ListingRows
      BY DEF TypeOK
    <3>4. /\ listing' \in ListingRows /\ listing'.photo = None
          /\ listing'.status = listing.status /\ listing'.exists = x
      BY <3>2, <3>3 DEF ListingRows
    <3>5. QED
      BY <2>2, <3>1, <3>4
  <2>3. QED
    BY <1>1, <2>1, <2>2
<1>4. QED
  BY <1>1, <1>2, <1>3 DEF Erase, TypeOK

-----------------------------------------------------------------------------
LEMMA ListingsStart == ASSUME Init PROVE ListingsInv
<1>1. TypeOK
  BY NoFormIs DEF Init, TypeOK, ListingRows, ButtonRecords, NoButton, RemovalRecords, BuyRecords, ScanRecords, NoBuy, NoScan,
     Orders
<1>2. PhotoInv
  BY NoFormIs, ListingsAssumption DEF Init, PhotoInv, PhotosSeen, Seen, RowStates, PhotosStored,
     PhotoKept
<1>3. SaleInv
  BY DEF Init, SaleInv, OrdersFollow, OneHolder, Taken, Holding, Sale, NoBuy, Window
<1>4. ErasureInv
  BY DEF Init, ErasureInv, StrippedStays, NothingOngoing, Users
<1>5. QED
  BY <1>1, <1>2, <1>3, <1>4 DEF ListingsInv

-----------------------------------------------------------------------------
(* Steps that no photo takes part in.                                        *)
LEMMA PhotoStays ==
  ASSUME PhotoInv, UNCHANGED <<files, forms, removal>>,
         listing'.exists = listing.exists, listing'.photo = listing.photo,
         listing'.status = "draft" => listing.status = "draft",
         "resent" \in odd => "resent" \in odd'
  PROVE PhotoInv'
  BY DEF PhotoInv, PhotosSeen, Seen, RowStates, PhotosStored, PhotoKept

LEMMA FreePhoto ==
  ASSUME TypeOK, listing' = Free
  PROVE /\ listing'.exists = listing.exists /\ listing'.photo = listing.photo
        /\ listing'.status = "draft" => listing.status = "draft"
        /\ listing'.status = IF listing.status = "reserved" THEN "active" ELSE listing.status
  BY FreeIs DEF TypeOK

LEMMA PressPhoto ==
  ASSUME TypeOK, PhotoInv, Press PROVE PhotoInv'
  BY PressDoes, PhotoStays

LEMMA CreatePhoto ==
  ASSUME TypeOK, PhotoInv, Create PROVE PhotoInv'
<1> USE DEF PhotoInv
<1>1. \A f \in Forms : forms[f].at = "closed"
  BY CreateDoes DEF RowStates
<1>2. Seen' = Seen
  BY CreateDoes DEF Seen
<1>3. PhotosSeen'
  BY <1>2, CreateDoes DEF PhotosSeen, Seen
<1>4. RowStates'
  BY CreateDoes DEF RowStates
<1>5. PhotosStored' /\ PhotoKept'
  BY <1>1, CreateDoes DEF PhotosStored, PhotoKept
<1>6. QED
  BY <1>3, <1>4, <1>5

LEMMA OpenFormPhoto ==
  ASSUME TypeOK, PhotoInv, NEW f \in Forms, OpenForm(f) PROVE PhotoInv'
<1> USE DEF PhotoInv
<1>1. /\ listing.exists /\ forms[f].at = "closed"
      /\ forms'[f].at = "open" /\ forms'[f].shows = listing.photo /\ forms'[f].old = None
      /\ \A g \in Forms \ {f} : forms'[g] = forms[g]
      /\ UNCHANGED <<listing, files, removal, odd>>
  BY OpenFormDoes
<1>2. Seen' = Seen
  BY <1>1 DEF Seen
<1>3. PhotosSeen'
  BY <1>1, <1>2 DEF PhotosSeen, Seen
<1>4. RowStates'
  BY <1>1 DEF RowStates
<1>5. listing.photo # f
  BY <1>1, ListingsAssumption DEF PhotosSeen, Seen
<1>6. PhotosStored'
  BY <1>1, <1>5 DEF PhotosStored
<1>7. PhotoKept'
  BY <1>1 DEF PhotoKept
<1>8. QED
  BY <1>3, <1>4, <1>6, <1>7

LEMMA UploadPhotoPhoto ==
  ASSUME TypeOK, PhotoInv, NEW f \in Forms, UploadPhoto(f) PROVE PhotoInv'
<1> USE DEF PhotoInv
<1>1. /\ forms[f].at = "open" /\ f \notin files /\ forms[f].shows # f
      /\ files' = files \cup {f}
      /\ \/ forms'[f].at = "ready" /\ forms'[f].shows = f
         \/ forms'[f].at = "open" /\ forms'[f].shows = forms[f].shows
      /\ forms'[f].old = forms[f].old
      /\ \A g \in Forms \ {f} : forms'[g] = forms[g]
      /\ UNCHANGED <<listing, button, removal, odd>>
  BY UploadPhotoDoes
<1>2. Seen' = Seen
  BY <1>1 DEF Seen
<1>3. PhotosSeen'
  BY <1>1, <1>2 DEF PhotosSeen
<1>4. RowStates'
  BY <1>1 DEF RowStates
<1>5. PhotosStored'
  BY <1>1 DEF PhotosStored
<1>6. PhotoKept'
  BY <1>1 DEF PhotoKept
<1>7. QED
  BY <1>3, <1>4, <1>5, <1>6

LEMMA UpdateReadPhoto ==
  ASSUME TypeOK, PhotoInv, NEW f \in Forms, UpdateRead(f) PROVE PhotoInv'
<1> USE DEF PhotoInv
<1>1. /\ forms[f].at \in {"open", "ready"} /\ listing.exists
      /\ forms'[f].at = "read" /\ forms'[f].shows = forms[f].shows
      /\ forms'[f].old = listing.photo
      /\ \A g \in Forms \ {f} : forms'[g] = forms[g]
      /\ UNCHANGED <<listing, files, removal, odd>>
  BY UpdateReadDoes
<1>2. Seen' = Seen
  BY <1>1 DEF Seen
<1>3. PhotosSeen'
  BY <1>1, <1>2 DEF PhotosSeen
<1>4. RowStates'
  BY <1>1 DEF RowStates
<1>5. PhotosStored'
  BY <1>1 DEF PhotosStored
<1>6. PhotoKept'
  BY <1>1 DEF PhotoKept
<1>7. QED
  BY <1>3, <1>4, <1>5, <1>6

(* The form's own photo appears in the row for the first time, so no other   *)
(* form replaced it.                                                         *)
LEMMA UpdateWritePhoto ==
  ASSUME TypeOK, PhotoInv, NEW f \in Forms, UpdateWrite(f) PROVE PhotoInv'
<1> USE DEF PhotoInv
<1>1. /\ forms[f].at = "read"
      /\ forms'[f].at = "written" /\ forms'[f].shows = forms[f].shows
      /\ forms'[f].old = forms[f].old
      /\ \A g \in Forms \ {f} : forms'[g] = forms[g]
      /\ listing'.exists = listing.exists /\ listing'.status = listing.status
      /\ listing'.photo = IF listing.exists THEN forms[f].shows ELSE listing.photo
      /\ \/ forms[f].shows \in {f, listing.photo} /\ odd' = odd
         \/ odd' = odd \cup {"resent"}
      /\ UNCHANGED <<files, button, removal>>
  BY UpdateWriteDoes
<1>2. Seen' = Seen \cup {f} /\ f \notin Seen /\ f # None
  BY <1>1, ListingsAssumption DEF Seen
<1>3. PhotosSeen'
  BY <1>1, <1>2 DEF PhotosSeen
<1>4. RowStates'
  BY <1>1 DEF RowStates
<1>5. PhotosStored'
  BY <1>1 DEF PhotosStored
<1>6. ASSUME "resent" \notin odd'
      PROVE  /\ listing'.photo \in files' \cup {None}
             /\ \A g \in Forms : forms'[g].at = "written" /\ forms'[g].old # forms'[g].shows =>
                  forms'[g].old = None \/ forms'[g].old # listing'.photo
  <2>1. "resent" \notin odd /\ forms[f].shows \in {f, listing.photo}
    BY <1>1, <1>6
  <2>2. listing'.photo \in files' \cup {None}
    BY <1>1, <2>1 DEF PhotoKept, PhotosStored
  <2>3. \A g \in Forms : forms[g].old # f
    BY <1>2 DEF PhotosSeen
  <2>4. listing'.photo \in {f, listing.photo}
    BY <1>1, <2>1
  <2>5. ASSUME NEW g \in Forms \ {f}, forms'[g].at = "written", forms'[g].old # forms'[g].shows
        PROVE  forms'[g].old = None \/ forms'[g].old # listing'.photo
    BY <1>1, <2>1, <2>3, <2>4, <2>5 DEF PhotoKept
  <2>6. ASSUME forms'[f].old # forms'[f].shows
        PROVE  forms'[f].old = None \/ forms'[f].old # listing'.photo
    <3>1. CASE listing.exists
      BY <1>1, <2>6, <3>1
    <3>2. CASE ~listing.exists
      BY <1>1, <3>2 DEF RowStates
    <3>3. QED
      BY <3>1, <3>2
  <2>7. QED
    BY <2>2, <2>5, <2>6
<1>7. PhotoKept'
  BY <1>6 DEF PhotoKept
<1>8. QED
  BY <1>3, <1>4, <1>5, <1>7

LEMMA DeleteReplacedPhoto ==
  ASSUME TypeOK, PhotoInv, NEW f \in Forms, DeleteReplaced(f) PROVE PhotoInv'
<1> USE DEF PhotoInv
<1>1. /\ forms[f].at = "written"
      /\ forms'[f].at = "saved" /\ forms'[f].old = None /\ forms'[f].shows = None
      /\ \A g \in Forms \ {f} : forms'[g] = forms[g]
      /\ \/ files' = files
         \/ files' = files \ {forms[f].old} /\ forms[f].old # forms[f].shows
      /\ UNCHANGED <<listing, button, removal, odd>>
  BY DeleteReplacedDoes, NoFormIs
<1>2. Seen' = Seen
  BY <1>1 DEF Seen
<1>3. PhotosSeen'
  BY <1>1, <1>2 DEF PhotosSeen, Seen
<1>4. RowStates'
  BY <1>1 DEF RowStates
<1>5. PhotosStored'
  <2>1. ASSUME NEW g \in Forms, forms'[g].at \in {"open", "ready", "read"}, forms'[g].shows = g
        PROVE  g \in files'
    <3>1. g # f /\ forms[g].at \in {"open", "ready", "read"} /\ forms[g].shows = g
      BY <1>1, <2>1
    <3>2. g \notin Seen
      BY <3>1, ListingsAssumption DEF Seen
    <3>3. forms[f].old # g
      BY <3>2 DEF PhotosSeen
    <3>4. QED
      BY <1>1, <3>1, <3>3 DEF PhotosStored
  <2>2. QED
    BY <2>1 DEF PhotosStored
<1>6. PhotoKept'
  BY <1>1 DEF PhotoKept
<1>7. QED
  BY <1>3, <1>4, <1>5, <1>6

LEMMA RemovePhoto ==
  ASSUME TypeOK, PhotoInv, Remove PROVE PhotoInv'
<1> USE DEF PhotoInv
<1>1. UNCHANGED <<forms, odd>> /\ Seen' = Seen
  BY RemoveDoes DEF Seen
<1>2. CASE /\ listing.exists /\ removal'.at = "counted" /\ removal'.old = listing.photo
           /\ UNCHANGED <<listing, files>>
  BY <1>1, <1>2 DEF PhotosSeen, RowStates, PhotosStored, PhotoKept
<1>3. CASE /\ removal.at = "counted" /\ removal'.at = "none" /\ removal'.old = None
           /\ UNCHANGED <<listing, files>>
  <2>1. PhotosSeen'
    BY <1>1, <1>3 DEF PhotosSeen, Seen
  <2>2. QED
    BY <1>1, <1>3, <2>1 DEF RowStates, PhotosStored, PhotoKept
<1>4. CASE /\ removal.at = "counted" /\ removal'.at = "deleted" /\ removal'.old = removal.old
           /\ ~listing'.exists /\ listing'.photo = None /\ listing'.status = listing.status
           /\ UNCHANGED files
  <2>1. PhotosSeen'
    BY <1>1, <1>4 DEF PhotosSeen, Seen
  <2>2. RowStates'
    BY <1>1, <1>4 DEF RowStates
  <2>3. PhotosStored' /\ PhotoKept'
    BY <1>1, <1>4 DEF PhotosStored, PhotoKept
  <2>4. QED
    BY <2>1, <2>2, <2>3
<1>5. CASE /\ removal.at = "deleted" /\ removal'.at = "done" /\ removal'.old = None
           /\ files' \in {files, files \ {removal.old}} /\ UNCHANGED listing
  <2>1. PhotosSeen' /\ RowStates'
    BY <1>1, <1>5 DEF PhotosSeen, Seen, RowStates
  <2>2. listing.photo = None
    BY <1>5 DEF RowStates
  <2>3. ASSUME NEW g \in Forms, forms[g].at \in {"open", "ready", "read"}, forms[g].shows = g
        PROVE  g \in files'
    <3>1. removal.old # g
      BY <2>3, ListingsAssumption DEF PhotosSeen, Seen
    <3>2. QED
      BY <1>5, <2>3, <3>1 DEF PhotosStored
  <2>4. PhotosStored' /\ PhotoKept'
    BY <1>1, <1>5, <2>2, <2>3 DEF PhotosStored, PhotoKept
  <2>5. QED
    BY <2>1, <2>4
<1>6. QED
  BY <1>2, <1>3, <1>4, <1>5, RemoveDoes

LEMMA ErasePhoto ==
  ASSUME TypeOK, PhotoInv, NEW u \in Users, Erase(u) PROVE PhotoInv'
<1> USE DEF PhotoInv
<1>1. UNCHANGED <<files, forms, button, removal, odd>> /\ Seen' = Seen
  BY EraseDoes DEF Seen
<1>2. CASE UNCHANGED listing
  BY <1>1, <1>2, PhotoStays
<1>3. CASE /\ listing'.photo = None /\ listing'.status = listing.status
           /\ listing'.exists => listing.exists /\ listing.status = "sold"
  <2>1. PhotosSeen'
    BY <1>1, <1>3 DEF PhotosSeen, Seen
  <2>2. RowStates'
    BY <1>1, <1>3 DEF RowStates
  <2>3. PhotosStored' /\ PhotoKept'
    BY <1>1, <1>3 DEF PhotosStored, PhotoKept
  <2>4. QED
    BY <2>1, <2>2, <2>3
<1>4. QED
  BY <1>2, <1>3, EraseDoes

LEMMA CheckoutPhoto ==
  ASSUME TypeOK, PhotoInv, NEW c \in Checkouts, Checkout(c) PROVE PhotoInv'
<1>1. /\ CheckoutFrame /\ odd \subseteq odd'
      /\ listing'.exists = listing.exists /\ listing'.photo = listing.photo
      /\ listing'.status = "draft" => listing.status = "draft"
  <2>1. CASE Claim(c)
    BY <2>1, ClaimDoes
  <2>2. CASE CreateIntent(c) \/ InsertOrder(c) \/ CancelIntent(c) \/ WindowDies(c) \/ Pay(c)
    BY <2>2, CreateIntentDoes, InsertOrderDoes, CancelIntentDoes, WindowDiesDoes, PayDoes
  <2>3. CASE Release(c)
    BY <2>3, ReleaseDoes, FreePhoto
  <2>4. CASE Succeeded(c)
    BY <2>4, SucceededDoes
  <2>5. CASE Canceled(c)
    BY <2>5, CanceledDoes, FreePhoto
  <2>6. CASE DropHook(c) \/ ConfirmReceipt(c)
    BY <2>6, DropHookDoes, ConfirmReceiptDoes
  <2>7. QED
    BY <2>1, <2>2, <2>3, <2>4, <2>5, <2>6 DEF Checkout
<1>2. QED
  BY <1>1, PhotoStays DEF CheckoutFrame

LEMMA PhotoStep ==
  ASSUME TypeOK, PhotoInv, [Next]_vars PROVE PhotoInv'
<1>1. CASE UNCHANGED vars
  BY <1>1, PhotoStays DEF vars
<1>2. ASSUME NEW f \in Forms, Edit(f) PROVE PhotoInv'
  BY <1>2, OpenFormPhoto, UploadPhotoPhoto, UpdateReadPhoto, UpdateWritePhoto, DeleteReplacedPhoto
     DEF Edit
<1>3. CASE Create \/ Remove
  BY <1>3, CreatePhoto, RemovePhoto
<1>4. CASE AskAbout \/ Reconcile
  BY <1>4, AskAboutDoes, ReconcileDoes, PhotoStays
<1>5. CASE Sweep
  BY <1>5, SweepDoes, FreePhoto, PhotoStays DEF CheckoutFrame
<1>6. ASSUME NEW c \in Checkouts, Checkout(c) PROVE PhotoInv'
  BY <1>6, CheckoutPhoto
<1>7. ASSUME NEW u \in Users, CheckBlockers(u) \/ Erase(u) PROVE PhotoInv'
  <2>1. CASE CheckBlockers(u)
    BY <2>1, CheckBlockersDoes, PhotoStays
  <2>2. QED
    BY <1>7, <2>1, ErasePhoto
<1>8. CASE Press
  BY <1>8, PressPhoto
<1>9. QED
  BY <1>1, <1>2, <1>3, <1>4, <1>5, <1>6, <1>7, <1>8 DEF Next

-----------------------------------------------------------------------------
(* Steps in which no checkout takes part.                                    *)
LEMMA SaleStays ==
  ASSUME SaleInv, UNCHANGED buys, listing'.status = listing.status, odd \subseteq odd'
  PROVE SaleInv'
  BY DEF SaleInv, Excused, OrdersFollow, OneHolder, Taken, Holding, Sale

(* A checkout that goes on holding, or no longer does, in the same listing.  *)
LEMMA SaleBecomes ==
  ASSUME SaleInv, NEW c \in Checkouts, NEW at, NEW intent, NEW order,
         Becomes(c, at, intent, order), listing'.status = listing.status, odd \subseteq odd',
         ~Excused' /\ OrdersFollow =>
           /\ at \in Window \/ order = "pending" => Holding(c)
           /\ order \in {"paid", "completed"} => Sale(c)
           /\ at \in Window \cup {"none"} => order = "none"
           /\ intent = "canceled" => order = "none" /\ at \in {"releasing", "failed"}
  PROVE SaleInv'
<1> SUFFICES ASSUME ~Excused' PROVE OrdersFollow' /\ OneHolder'
  BY DEF SaleInv, Excused
<1>1. OrdersFollow /\ OneHolder
  BY DEF SaleInv, Excused
<1>2. OrdersFollow'
  BY <1>1 DEF OrdersFollow, Becomes
<1>3. \A d \in Checkouts : (Holding(d)' => Holding(d)) /\ (Sale(d)' => Sale(d))
  BY <1>1 DEF Becomes, Holding, Sale
<1>4. OneHolder'
  BY <1>1, <1>3 DEF OneHolder, Taken
<1>5. QED
  BY <1>2, <1>4

LEMMA ClaimSale ==
  ASSUME TypeOK, SaleInv, NEW c \in Checkouts, Claim(c) PROVE SaleInv'
<1>1. /\ buys[c].at = "none" /\ listing.status = "active" /\ listing'.status = "reserved"
      /\ Becomes(c, "claimed", buys[c].intent, buys[c].order)
      /\ odd \subseteq odd'
  BY ClaimDoes
<1> SUFFICES ASSUME ~Excused' PROVE OrdersFollow' /\ OneHolder'
  BY DEF SaleInv, Excused
<1>2. OrdersFollow /\ OneHolder
  BY <1>1 DEF SaleInv, Excused
<1>3. OrdersFollow'
  BY <1>1, <1>2 DEF OrdersFollow, Becomes
<1>4. \A d \in Checkouts : ~Holding(d) /\ ~Sale(d)
  BY <1>1, <1>2 DEF OneHolder, Taken
<1>5. \A d \in Checkouts : (Holding(d)' => d = c) /\ ~Sale(d)'
  BY <1>1, <1>4 DEF Becomes, Holding, Sale
<1>6. OneHolder'
  BY <1>1, <1>5 DEF OneHolder, Taken
<1>7. QED
  BY <1>3, <1>6

LEMMA ReleaseSale ==
  ASSUME TypeOK, SaleInv, NEW c \in Checkouts, Release(c) PROVE SaleInv'
<1>1. /\ buys[c].at = "releasing" /\ odd' = odd
      /\ Becomes(c, "failed", buys[c].intent, buys[c].order)
  BY ReleaseDoes
<1> SUFFICES ASSUME ~Excused' PROVE OrdersFollow' /\ OneHolder'
  BY DEF SaleInv, Excused
<1>2. OrdersFollow /\ OneHolder
  BY <1>1 DEF SaleInv, Excused
<1>3. Holding(c) /\ buys[c].order = "none"
  BY <1>1, <1>2 DEF Holding, OrdersFollow, Window
<1>4. OrdersFollow'
  BY <1>1, <1>2, <1>3 DEF OrdersFollow, Becomes, Window
<1>5. \A d \in Checkouts : (Holding(d) => d = c) /\ ~Sale(d)
  BY <1>2, <1>3 DEF OneHolder, Taken, Sale
<1>6. \A d \in Checkouts : ~Holding(d)' /\ ~Sale(d)'
  BY <1>1, <1>3, <1>5 DEF Becomes, Holding, Sale, Window
<1>7. OneHolder'
  BY <1>6 DEF OneHolder, Taken
<1>8. QED
  BY <1>4, <1>7

LEMMA SucceededSale ==
  ASSUME TypeOK, SaleInv, NEW c \in Checkouts, Succeeded(c) PROVE SaleInv'
<1>1. odd' = odd
  BY SucceededDoes
<1>2. CASE /\ buys[c].order = "pending" /\ Becomes(c, buys[c].at, buys[c].intent, "paid")
           /\ listing'.status = IF listing.status = "reserved" THEN "sold" ELSE listing.status
  <2> SUFFICES ASSUME ~Excused' PROVE OrdersFollow' /\ OneHolder'
    BY DEF SaleInv, Excused
  <2>1. OrdersFollow /\ OneHolder
    BY <1>1 DEF SaleInv, Excused
  <2>2. Holding(c) /\ buys[c].at \notin Window \cup {"none"}
    BY <1>2, <2>1 DEF Holding, OrdersFollow
  <2>3. listing'.status = "sold"
    BY <1>2, <2>1, <2>2 DEF OneHolder
  <2>4. OrdersFollow'
    BY <1>2, <2>1, <2>2 DEF OrdersFollow, Becomes
  <2>5. \A d \in Checkouts : (Holding(d) => d = c) /\ ~Sale(d)
    BY <1>2, <2>1, <2>2 DEF OneHolder, Taken, Sale
  <2>6. \A d \in Checkouts : ~Holding(d)' /\ (Sale(d)' => d = c)
    BY <1>2, <2>2, <2>5 DEF Becomes, Holding, Sale
  <2>7. OneHolder'
    BY <2>3, <2>6 DEF OneHolder, Taken
  <2>8. QED
    BY <2>4, <2>7
<1>3. CASE /\ buys[c].order \in {"expired", "cancelled"} /\ UNCHANGED listing
           /\ \/ Becomes(c, buys[c].at, "refunded", "refunded")
              \/ Becomes(c, buys[c].at, buys[c].intent, buys[c].order)
  <2>1. OrdersFollow => buys[c].at \notin Window \cup {"none"} /\ buys[c].intent # "canceled"
    BY <1>3 DEF OrdersFollow
  <2>2. CASE Becomes(c, buys[c].at, "refunded", "refunded")
    BY <1>1, <1>3, <2>1, <2>2, SaleBecomes
  <2>3. CASE Becomes(c, buys[c].at, buys[c].intent, buys[c].order)
    BY <1>1, <1>3, <2>1, <2>3, SaleBecomes
  <2>4. QED
    BY <1>3, <2>2, <2>3
<1>4. QED
  BY <1>2, <1>3, SucceededDoes

LEMMA CanceledSale ==
  ASSUME TypeOK, SaleInv, NEW c \in Checkouts, Canceled(c) PROVE SaleInv'
<1>1. buys[c].intent = "canceled" /\ odd' = odd
  BY CanceledDoes
<1>2. CASE buys[c].order = "pending"
  BY <1>1, <1>2 DEF SaleInv, Excused, OrdersFollow
<1>3. CASE UNCHANGED listing /\ Becomes(c, buys[c].at, "canceled", buys[c].order)
  <2>1. OrdersFollow => buys[c].order = "none" /\ buys[c].at \in {"releasing", "failed"}
    BY <1>1 DEF OrdersFollow
  <2>2. OrdersFollow /\ buys[c].at \in Window => Holding(c)
    BY DEF Holding
  <2>3. QED
    BY <1>1, <1>3, <2>1, <2>2, SaleBecomes
<1>4. QED
  BY <1>2, <1>3, CanceledDoes

LEMMA SweepSale ==
  ASSUME TypeOK, SaleInv, Sweep PROVE SaleInv'
<1>1. /\ odd \subseteq odd' /\ listing.status = "reserved"
      /\ \A c \in Checkouts : buys[c].at \notin Window
  BY SweepDoes
<1> SUFFICES ASSUME ~Excused' PROVE OrdersFollow' /\ OneHolder'
  BY DEF SaleInv, Excused
<1>2. OrdersFollow /\ OneHolder
  BY <1>1 DEF SaleInv, Excused
<1>3. \A c \in Checkouts :
        /\ buys'[c].at = buys[c].at /\ buys'[c].intent = buys[c].intent
        /\ buys'[c].order = IF buys[c].order = "pending" THEN "expired" ELSE buys[c].order
  BY SweepDoes DEF Excused
<1>4. OrdersFollow'
  BY <1>1, <1>2, <1>3 DEF OrdersFollow
<1>5. \A d \in Checkouts : ~Sale(d)
  BY <1>1, <1>2 DEF OneHolder, Taken
<1>6. \A d \in Checkouts : ~Holding(d)' /\ ~Sale(d)'
  BY <1>1, <1>3, <1>5 DEF Holding, Sale
<1>7. OneHolder'
  BY <1>6 DEF OneHolder, Taken
<1>8. QED
  BY <1>4, <1>7

LEMMA PressSale ==
  ASSUME TypeOK, SaleInv, Press PROVE SaleInv'
<1>1. UNCHANGED buys /\ odd \subseteq odd'
  BY PressDoes
<1>2. CASE UNCHANGED listing
  BY <1>1, <1>2, SaleStays
<1>3. CASE /\ listing'.status \in {"active", "reserved", "sold"}
           /\ Takes(listing'.status) => "relisted" \in odd'
  <2> SUFFICES ASSUME ~Excused' PROVE OrdersFollow' /\ OneHolder'
    BY DEF SaleInv, Excused
  <2>1. OrdersFollow /\ OneHolder
    BY <1>1 DEF SaleInv, Excused
  <2>2. ~Takes(listing'.status)
    BY <1>3 DEF Excused
  <2>3. /\ \A c \in Checkouts : Holding(c) => listing'.status \in {"reserved", "sold"}
        /\ \A c \in Checkouts : Sale(c) => listing'.status = "sold"
    BY <1>3, <2>2 DEF Takes
  <2>4. OrdersFollow'
    BY <1>1, <2>1 DEF OrdersFollow
  <2>5. OneHolder'
    BY <1>1, <2>1, <2>3 DEF OneHolder, Taken, Holding, Sale
  <2>6. QED
    BY <2>4, <2>5
<1>4. QED
  BY <1>2, <1>3, PressDoes

(* The steps that leave the listing as it is.                                *)
LEMMA QuietSale ==
  ASSUME TypeOK, SaleInv, NEW c \in Checkouts,
         \/ CreateIntent(c) \/ InsertOrder(c) \/ CancelIntent(c) \/ WindowDies(c)
         \/ Pay(c) \/ DropHook(c) \/ ConfirmReceipt(c)
  PROVE SaleInv'
<1> DEFINE order == buys[c].order
           intent == buys[c].intent
           follow == /\ buys[c].at \in Window \cup {"none"} => order = "none"
                     /\ intent = "canceled" => order = "none" /\ buys[c].at \in {"releasing", "failed"}
<1>1. OrdersFollow => follow
  BY DEF OrdersFollow
<1>2. buys[c].at \in Window \/ order = "pending" => Holding(c)
  BY DEF Holding
<1>3. order \in {"paid", "completed"} => Sale(c)
  BY DEF Sale
<1>4. CASE CreateIntent(c)
  <2>1. buys[c].at = "claimed" /\ odd' = odd /\ listing' = listing
    BY <1>4, CreateIntentDoes
  <2>2. CASE Becomes(c, "intent", "live", order)
    BY <1>1, <1>2, <1>3, <2>1, <2>2, SaleBecomes DEF Window
  <2>3. CASE Becomes(c, "releasing", intent, order)
    BY <1>1, <1>2, <1>3, <2>1, <2>3, SaleBecomes DEF Window
  <2>4. QED
    BY <1>4, <2>2, <2>3, CreateIntentDoes
<1>5. CASE InsertOrder(c)
  <2>1. buys[c].at = "intent" /\ listing' = listing
    BY <1>5, InsertOrderDoes
  <2>2. CASE Becomes(c, "cancelling", intent, order) /\ odd' = odd
    BY <1>1, <1>2, <1>3, <2>1, <2>2, SaleBecomes DEF Window
  <2>3. CASE Becomes(c, "answered", intent, "pending") /\ odd' = odd
    BY <1>1, <1>2, <1>3, <2>1, <2>3, SaleBecomes DEF Window
  <2>4. CASE odd' = odd \cup {"lostAck"}
    BY <2>4 DEF SaleInv, Excused
  <2>5. QED
    BY <1>5, <2>2, <2>3, <2>4, InsertOrderDoes
<1>6. CASE CancelIntent(c)
  <2>1. buys[c].at = "cancelling" /\ odd' = odd /\ listing' = listing
    BY <1>6, CancelIntentDoes
  <2>2. CASE Becomes(c, "releasing", "canceled", order)
    BY <1>1, <1>2, <1>3, <2>1, <2>2, SaleBecomes DEF Window
  <2>3. CASE Becomes(c, "releasing", intent, order)
    BY <1>1, <1>2, <1>3, <2>1, <2>3, SaleBecomes DEF Window
  <2>4. QED
    BY <1>6, <2>2, <2>3, CancelIntentDoes
<1>7. CASE WindowDies(c)
  <2>1. /\ buys[c].at \in Window /\ odd' = odd /\ listing' = listing
        /\ Becomes(c, "failed", intent, order)
    BY <1>7, WindowDiesDoes
  <2>2. QED
    BY <1>1, <1>2, <1>3, <2>1, SaleBecomes DEF Window
<1>8. CASE Pay(c)
  <2>1. /\ buys[c].at = "answered" /\ odd' = odd /\ listing' = listing
        /\ Becomes(c, "answered", "paid", order)
    BY <1>8, PayDoes
  <2>2. QED
    BY <1>1, <1>2, <1>3, <2>1, SaleBecomes DEF Window
<1>9. CASE DropHook(c)
  <2>1. odd' = odd /\ listing' = listing /\ Becomes(c, buys[c].at, intent, order)
    BY <1>9, DropHookDoes
  <2>2. QED
    BY <1>1, <1>2, <1>3, <2>1, SaleBecomes
<1>10. CASE ConfirmReceipt(c)
  <2>1. /\ order = "paid" /\ odd' = odd /\ listing' = listing
        /\ Becomes(c, buys[c].at, intent, "completed")
    BY <1>10, ConfirmReceiptDoes
  <2>2. QED
    BY <1>1, <1>2, <1>3, <2>1, SaleBecomes
<1>11. QED
  BY <1>4, <1>5, <1>6, <1>7, <1>8, <1>9, <1>10

LEMMA SaleStep ==
  ASSUME TypeOK, SaleInv, [Next]_vars PROVE SaleInv'
<1>1. CASE UNCHANGED vars
  BY <1>1, SaleStays DEF vars
<1>2. ASSUME NEW f \in Forms, Edit(f) PROVE SaleInv'
  BY <1>2, OpenFormDoes, UploadPhotoDoes, UpdateReadDoes, UpdateWriteDoes, DeleteReplacedDoes,
     SaleStays DEF Edit
<1>3. CASE Create
  <2>1. listing.status = "draft" /\ UNCHANGED <<buys, odd>>
    BY <1>3, CreateDoes
  <2>2. QED
    BY <2>1 DEF SaleInv, Excused, OrdersFollow, OneHolder, Taken, Holding, Sale
<1>4. CASE Remove \/ AskAbout \/ Reconcile
  BY <1>4, RemoveDoes, AskAboutDoes, ReconcileDoes, SaleStays
<1>5. CASE Sweep
  BY <1>5, SweepSale
<1>6. ASSUME NEW c \in Checkouts, Checkout(c) PROVE SaleInv'
  BY <1>6, ClaimSale, ReleaseSale, SucceededSale, CanceledSale, QuietSale DEF Checkout
<1>7. ASSUME NEW u \in Users, CheckBlockers(u) \/ Erase(u) PROVE SaleInv'
  BY <1>7, CheckBlockersDoes, EraseDoes, SaleStays
<1>8. CASE Press
  BY <1>8, PressSale
<1>9. QED
  BY <1>1, <1>2, <1>3, <1>4, <1>5, <1>6, <1>7, <1>8 DEF Next

-----------------------------------------------------------------------------
Ongoing(c) == buys[c].order \in Open \/ buys[c].at \in Window

LEMMA OrdersOfUsers ==
  ASSUME NEW u \in Users
  PROVE OrdersOf(u) \subseteq Checkouts /\ \A c \in OrdersOf(u) : u \in {"seller", c}
  BY DEF OrdersOf, Users

(* Steps in which no checkout comes to be in progress.                       *)
LEMMA ErasureStays ==
  ASSUME ErasureInv, UNCHANGED erasures, odd \subseteq odd',
         listing'.exists => listing.exists,
         \/ listing.status = "sold" => listing'.status = "sold"
         \/ erasures["seller"] = "gone" => Overlapped' \/ ~listing.exists,
         \A c \in Checkouts : Ongoing(c)' => Ongoing(c)
  PROVE ErasureInv'
<1> SUFFICES ASSUME ~Overlapped' PROVE StrippedStays' /\ NothingOngoing'
  BY DEF ErasureInv
<1>1. StrippedStays /\ NothingOngoing
  BY DEF ErasureInv, Overlapped
<1>2. StrippedStays'
  BY <1>1 DEF StrippedStays
<1>3. NothingOngoing'
  BY <1>1, OrdersOfUsers DEF NothingOngoing, Ongoing
<1>4. QED
  BY <1>2, <1>3

LEMMA PressErasure ==
  ASSUME TypeOK, ErasureInv, Press PROVE ErasureInv'
<1>1. UNCHANGED <<buys, erasures>> /\ odd \subseteq odd' /\ listing'.exists = listing.exists
  BY PressDoes
<1>2. \/ listing.status = "sold" => listing'.status = "sold"
      \/ erasures["seller"] = "gone" => Overlapped' \/ ~listing.exists
  BY PressDoes DEF Overlapped
<1>3. \A c \in Checkouts : Ongoing(c)' => Ongoing(c)
  BY <1>1 DEF Ongoing
<1>4. QED
  BY <1>1, <1>2, <1>3, ErasureStays

LEMMA ClaimErasure ==
  ASSUME TypeOK, ErasureInv, NEW c \in Checkouts, Claim(c) PROVE ErasureInv'
<1> SUFFICES ASSUME ~Overlapped' PROVE StrippedStays' /\ NothingOngoing'
  BY DEF ErasureInv
<1>1. /\ erasures' = erasures /\ erasures[c] \notin {"checked", "gone"}
      /\ erasures["seller"] # "checked" /\ listing.exists /\ listing.status = "active"
      /\ \A d \in Checkouts \ {c} : buys'[d] = buys[d]
  BY ClaimDoes DEF CheckoutFrame, Becomes, Overlapped
<1>2. StrippedStays /\ NothingOngoing
  BY ClaimDoes DEF ErasureInv, Overlapped
<1>3. erasures["seller"] # "gone"
  BY <1>1, <1>2 DEF StrippedStays
<1>4. StrippedStays'
  BY <1>1, <1>3 DEF StrippedStays
<1>5. ASSUME NEW u \in Users, erasures'[u] \in {"checked", "gone"}, NEW d \in OrdersOf(u)
      PROVE  buys'[d].order \notin Open /\ buys'[d].at \notin Window
  <2>1. d \in Checkouts /\ d # c
    BY <1>1, <1>3, <1>5, OrdersOfUsers
  <2>2. QED
    BY <1>1, <1>2, <1>5, <2>1 DEF NothingOngoing
<1>6. QED
  BY <1>4, <1>5 DEF NothingOngoing

LEMMA CheckoutErasure ==
  ASSUME TypeOK, ErasureInv, NEW c \in Checkouts, Checkout(c) PROVE ErasureInv'
<1>1. CASE Claim(c)
  BY <1>1, ClaimErasure
<1>2. CASE CreateIntent(c) \/ CancelIntent(c) \/ WindowDies(c)
  BY <1>2, CreateIntentDoes, CancelIntentDoes, WindowDiesDoes, ErasureStays
     DEF CheckoutFrame, Becomes, Ongoing, Window
<1>3. CASE InsertOrder(c)
  BY <1>3, InsertOrderDoes, ErasureStays DEF CheckoutFrame, Becomes, Ongoing, Window
<1>4. CASE Pay(c) \/ DropHook(c) \/ ConfirmReceipt(c)
  BY <1>4, PayDoes, DropHookDoes, ConfirmReceiptDoes, ErasureStays
     DEF CheckoutFrame, Becomes, Ongoing, Window, Open
<1>5. CASE Release(c)
  BY <1>5, ReleaseDoes, FreePhoto, ErasureStays DEF CheckoutFrame, Becomes, Ongoing, Window
<1>6. CASE Succeeded(c)
  <2>1. /\ UNCHANGED erasures /\ odd' = odd /\ listing'.exists = listing.exists
        /\ listing.status = "sold" => listing'.status = "sold"
    BY <1>6, SucceededDoes DEF CheckoutFrame
  <2>2. \A d \in Checkouts : Ongoing(d)' => Ongoing(d)
    BY <1>6, SucceededDoes DEF Becomes, Ongoing, Open
  <2>3. QED
    BY <2>1, <2>2, ErasureStays
<1>7. CASE Canceled(c)
  <2>1. /\ UNCHANGED erasures /\ odd' = odd /\ listing'.exists = listing.exists
        /\ listing.status = "sold" => listing'.status = "sold"
    BY <1>7, CanceledDoes, FreePhoto DEF CheckoutFrame
  <2>2. \A d \in Checkouts : Ongoing(d)' => Ongoing(d)
    BY <1>7, CanceledDoes DEF Becomes, Ongoing, Open
  <2>3. QED
    BY <2>1, <2>2, ErasureStays
<1>8. QED
  BY <1>1, <1>2, <1>3, <1>4, <1>5, <1>6, <1>7 DEF Checkout

LEMMA CheckBlockersErasure ==
  ASSUME TypeOK, ErasureInv, NEW u \in Users, CheckBlockers(u) PROVE ErasureInv'
<1> SUFFICES ASSUME ~Overlapped' PROVE StrippedStays' /\ NothingOngoing'
  BY DEF ErasureInv
<1>1. /\ UNCHANGED <<listing, buys>> /\ erasures'[u] = "checked"
      /\ \A v \in Users \ {u} : erasures'[v] = erasures[v]
      /\ \A c \in OrdersOf(u) : buys[c].order \notin Open /\ buys[c].at \notin Window
  BY CheckBlockersDoes DEF Overlapped
<1>2. StrippedStays /\ NothingOngoing
  BY CheckBlockersDoes DEF ErasureInv, Overlapped
<1>3. "seller" \in Users
  BY DEF Users
<1>4. StrippedStays'
  BY <1>1, <1>2, <1>3 DEF StrippedStays
<1>5. ASSUME NEW v \in Users, erasures'[v] \in {"checked", "gone"}
      PROVE  \A c \in OrdersOf(v) : buys'[c].order \notin Open /\ buys'[c].at \notin Window
  <2>1. CASE v = u
    BY <1>1, <2>1
  <2>2. CASE v # u
    BY <1>1, <1>2, <1>5, <2>2 DEF NothingOngoing
  <2>3. QED
    BY <2>1, <2>2
<1>6. QED
  BY <1>4, <1>5 DEF NothingOngoing, OrdersOf

LEMMA EraseErasure ==
  ASSUME TypeOK, ErasureInv, NEW u \in Users, Erase(u) PROVE ErasureInv'
<1> SUFFICES ASSUME ~Overlapped' PROVE StrippedStays' /\ NothingOngoing'
  BY DEF ErasureInv
<1>1. /\ UNCHANGED buys /\ erasures[u] = "checked"
      /\ \A v \in Users \ {u} : erasures'[v] = erasures[v]
      /\ \/ UNCHANGED listing /\ (u = "seller" => erasures'[u] = "none")
         \/ /\ u = "seller" /\ listing'.status = listing.status
            /\ listing'.exists => listing.exists /\ listing.status = "sold"
  BY EraseDoes
<1>2. StrippedStays /\ NothingOngoing
  BY EraseDoes DEF ErasureInv, Overlapped
<1>3. "seller" \in Users
  BY DEF Users
<1>4. StrippedStays'
  <2>1. CASE UNCHANGED listing /\ (u = "seller" => erasures'[u] = "none")
    BY <1>1, <1>2, <1>3, <2>1 DEF StrippedStays
  <2>2. CASE u = "seller" /\ listing'.status = listing.status
             /\ (listing'.exists => listing.exists /\ listing.status = "sold")
    BY <2>2 DEF StrippedStays
  <2>3. QED
    BY <1>1, <2>1, <2>2
<1>5. \A v \in Users : erasures'[v] \in {"checked", "gone"} => erasures[v] \in {"checked", "gone"}
  BY <1>1
<1>6. NothingOngoing'
  BY <1>1, <1>2, <1>5 DEF NothingOngoing, OrdersOf
<1>7. QED
  BY <1>4, <1>6

LEMMA ErasureStep ==
  ASSUME TypeOK, ErasureInv, [Next]_vars PROVE ErasureInv'
<1> DEFINE same == \A c \in Checkouts : Ongoing(c)' => Ongoing(c)
<1>0. UNCHANGED buys => same
  BY DEF Ongoing
<1>1. CASE UNCHANGED vars
  BY <1>0, <1>1, ErasureStays DEF vars
<1>2. ASSUME NEW f \in Forms, Edit(f) PROVE ErasureInv'
  <2>1. /\ UNCHANGED <<buys, erasures>> /\ odd \subseteq odd'
        /\ listing'.exists = listing.exists /\ listing'.status = listing.status
    BY <1>2, OpenFormDoes, UploadPhotoDoes, UpdateReadDoes, UpdateWriteDoes, DeleteReplacedDoes
       DEF Edit
  <2>2. QED
    BY <1>0, <2>1, ErasureStays
<1>3. CASE Create
  <2>1. erasures["seller"] # "gone" /\ UNCHANGED <<buys, erasures, odd>>
    BY <1>3, CreateDoes
  <2>2. QED
    BY <2>1 DEF ErasureInv, Overlapped, StrippedStays, NothingOngoing, OrdersOf
<1>4. CASE Remove \/ AskAbout \/ Reconcile
  <2>1. /\ UNCHANGED <<buys, erasures, odd>>
        /\ listing'.exists => listing.exists /\ listing'.status = listing.status
        /\ listing.status = "sold" => listing'.status = "sold"
    BY <1>4, RemoveDoes, AskAboutDoes, ReconcileDoes
  <2>2. QED
    BY <1>0, <2>1, ErasureStays
<1>5. CASE Sweep
  <2>1. same
    BY <1>5, SweepDoes DEF Ongoing, Open
  <2>2. QED
    BY <1>5, <2>1, SweepDoes, FreePhoto, ErasureStays DEF CheckoutFrame
<1>6. ASSUME NEW c \in Checkouts, Checkout(c) PROVE ErasureInv'
  BY <1>6, CheckoutErasure
<1>7. ASSUME NEW u \in Users, CheckBlockers(u) \/ Erase(u) PROVE ErasureInv'
  BY <1>7, CheckBlockersErasure, EraseErasure
<1>8. CASE Press
  BY <1>8, PressErasure
<1>9. QED
  BY <1>1, <1>2, <1>3, <1>4, <1>5, <1>6, <1>7, <1>8 DEF Next

-----------------------------------------------------------------------------
LEMMA TypeStep ==
  ASSUME TypeOK, [Next]_vars PROVE TypeOK'
<1>1. CASE UNCHANGED vars
  BY <1>1 DEF vars, TypeOK
<1>2. ASSUME NEW f \in Forms, Edit(f) PROVE TypeOK'
  BY <1>2, OpenFormDoes, UploadPhotoDoes, UpdateReadDoes, UpdateWriteDoes, DeleteReplacedDoes
     DEF Edit
<1>3. CASE Create \/ Press \/ Remove \/ AskAbout \/ Sweep \/ Reconcile
  BY <1>3, CreateDoes, PressDoes, RemoveDoes, AskAboutDoes, SweepDoes, ReconcileDoes
<1>4. ASSUME NEW c \in Checkouts, Checkout(c) PROVE TypeOK'
  BY <1>4, ClaimDoes, CreateIntentDoes, InsertOrderDoes, CancelIntentDoes, ReleaseDoes,
     WindowDiesDoes, PayDoes, SucceededDoes, CanceledDoes, DropHookDoes, ConfirmReceiptDoes
     DEF Checkout
<1>5. ASSUME NEW u \in Users, CheckBlockers(u) \/ Erase(u) PROVE TypeOK'
  BY <1>5, CheckBlockersDoes, EraseDoes
<1>6. QED
  BY <1>1, <1>2, <1>3, <1>4, <1>5 DEF Next

(* The row, its photos, the checkouts and the erasures keep ListingsInv, for *)
(* any number of forms and of checkouts.                                     *)
THEOREM ListingsCorrect == Spec => []ListingsInv
<1>1. Init => ListingsInv
  BY ListingsStart
<1>2. ListingsInv /\ [Next]_vars => ListingsInv'
  BY TypeStep, PhotoStep, SaleStep, ErasureStep DEF ListingsInv
<1>3. QED
  BY <1>1, <1>2, PTL DEF Spec

(* The photo that the row of a listing names is never deleted by an edit or  *)
(* a removal of it, unless a form sent back one replaced since (update,      *)
(* remove).                                                                  *)
THEOREM PhotosStand == Spec => []PhotoStands
<1>1. ListingsInv => PhotoStands
  BY DEF ListingsInv, PhotoInv, PhotoKept, PhotoStands
<1>2. QED
  BY <1>1, ListingsCorrect, PTL

(* No two checkouts of a listing are both paid for and standing, unless an   *)
(* INSERT's acknowledgement was lost, the sweep skipped a pending order, or  *)
(* the seller took the listing from a checkout or a sale.                    *)
THEOREM OneItemOneSale == Spec => []SoldOnce
<1>1. ASSUME ListingsInv PROVE SoldOnce
  <2>1. CASE Excused
    BY <2>1 DEF Excused, SoldOnce
  <2>2. CASE OneHolder
    BY <2>2 DEF OneHolder, Taken, SoldOnce
  <2>3. QED
    BY <1>1, <2>1, <2>2 DEF ListingsInv, SaleInv
<1>2. QED
  BY <1>1, ListingsCorrect, PTL

(* deleteAccount erases nobody with an order in progress, unless a checkout  *)
(* was in its window when the blockers were read or began after, or a last   *)
(* button of the seller's landed after the erasure.                          *)
THEOREM ErasedOweNothing == Spec => []ErasedOwesNothing
<1>1. ListingsInv => ErasedOwesNothing
  BY DEF ListingsInv, ErasureInv, Overlapped, NothingOngoing, ErasedOwesNothing
<1>2. QED
  BY <1>1, ListingsCorrect, PTL
=============================================================================

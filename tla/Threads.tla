------------------------------ MODULE Threads ------------------------------
(***************************************************************************)
(* One user reading and answering in conversations: the reading half of    *)
(* messagesService.js under the three screens that use it, the web inbox   *)
(* (Inbox.jsx), the thread of a listing's page (useMessages.js) and the    *)
(* thread of the phone (ThreadScreen.tsx).                                 *)
(*                                                                         *)
(* A message is <<conversation, position>>.  A conversation exists from    *)
(* its first message on.  A request lives in a slot from the click to the  *)
(* landing of its answer; where the client goes on with another request,   *)
(* the slot goes on with it.                                               *)
(***************************************************************************)
EXTENDS Naturals, Sequences, FiniteSets

CONSTANTS
    Convs, NoConv,
    Slots,          \* bound: requests in flight
    MaxMessages,    \* bound: messages of a conversation
    PageSize        \* MESSAGE_PAGE_SIZE

ASSUME ThreadsAssumption == PageSize \in Nat \ {0} /\ NoConv \notin Convs

VARIABLES
    msgs,           \* conversation -> the senders of its messages, "me" or "other"
    mark,           \* conversation -> messages up to here are read
    list,           \* the inbox as last fetched: "absent", "read" or "unread"
    screen,         \* screen -> what it has open and shows
    req,            \* slot -> request
    seen,           \* history: messages that were on a screen
    lost,           \* history: messages an answer was to show, and did not
    crossed         \* history: screens that changed thread, or asked again, under an answer

threadVars == <<msgs, mark, list, screen, req, seen, lost, crossed>>

Screens == {"inbox", "listing", "phone"}

NoRequest == [kind |-> "none", screen |-> "inbox", conv |-> NoConv, at |-> "sent", page |-> {},
         first |-> 0, left |-> FALSE]
Closed == [up |-> FALSE, open |-> NoConv, shown |-> {}, known |-> FALSE]

ThreadsInit ==
    /\ msgs = [c \in Convs |-> <<>>] /\ mark = [c \in Convs |-> 0]
    /\ list = [c \in Convs |-> "absent"]
    /\ screen = [s \in Screens |-> Closed]
    /\ req = [r \in Slots |-> NoRequest]
    /\ seen = {} /\ lost = {} /\ crossed = {}

Messages(c) == {c} \X (1 .. Len(msgs[c]))
Newest(c)   == {m \in Messages(c) : m[2] + PageSize > Len(msgs[c])}
Before(c, n) == {m \in Messages(c) : m[2] < n /\ m[2] + PageSize >= n}
FirstOf(S) == IF S = {} THEN 0 ELSE CHOOSE n \in {m[2] : m \in S} : \A m \in S : n <= m[2]
LastOf(S)  == IF S = {} THEN 0 ELSE CHOOSE n \in {m[2] : m \in S} : \A m \in S : n >= m[2]

\* unreadCountFor: the messages of the others beyond the mark.
Theirs(c)    == {m \in Messages(c) : msgs[c][m[2]] = "other"}
ReadUnseen(c, upto) == {m \in Theirs(c) : m[2] <= upto} \ seen
HasUnread(c) == \E m \in Theirs(c) : m[2] > mark[c]

Is(r, kind, at) == req[r].kind = kind /\ req[r].at = at
Frees(r)   == req' = [req EXCEPT ![r] = NoRequest]
GoesOn(r, kind) == req' = [req EXCEPT ![r].kind = kind, ![r].at = "sent", ![r].page = {}]
Asks(s, c, kind) == [NoRequest EXCEPT !.kind = kind, !.screen = s, !.conv = c]

\* An answer that will have message m is still out, or a list to be asked for.
Coming(m) ==
    \E r \in Slots : /\ req[r].conv = m[1]
                    /\ \/ m \in req[r].page /\ req[r].kind # "mark"
                       \/ req[r].kind \in {"thread", "reply"} /\ req[r].at = "marked"
                       \/ req[r].kind = "thread" /\ req[r].at = "sent" /\ req[r].first > 0
                       \/ req[r].kind = "list" /\ req[r].at = "sent"
                       \/ req[r].kind = "reply" /\ req[r].screen = "inbox" /\ req[r].at = "answered"
Unshown(r) == IF req[r].conv = NoConv THEN {} ELSE ReadUnseen(req[r].conv, mark[req[r].conv])
LetGo(S) == lost' = lost \cup S

\* An answer that screen s will show is still out.
Awaits(s) == \E q \in Slots : /\ req[q].screen = s /\ ~req[q].left
                              /\ req[q].kind \in {"list", "older", "thread", "reply"}
Crosses(s) == crossed' = IF Awaits(s) THEN crossed \cup {s} ELSE crossed

-----------------------------------------------------------------------------
(* The server                                                              *)

\* The other party, or the stand-in, writes.
Arrives(c) ==
    /\ Len(msgs[c]) < MaxMessages
    /\ msgs' = [msgs EXCEPT ![c] = Append(@, "other")]
    /\ UNCHANGED <<mark, list, screen, req, seen, lost, crossed>>

\* reply and sendBuyerMessage insert, mark, and then read the thread.
Insert(r) ==
    /\ Is(r, "reply", "sent") /\ Len(msgs[req[r].conv]) < MaxMessages
    /\ msgs' = [msgs EXCEPT ![req[r].conv] = Append(@, "me")]
    /\ req' = [req EXCEPT ![r].at = "inserted"]
    /\ UNCHANGED <<mark, list, screen, seen, lost, crossed>>

\* Inbox and ThreadScreen drop the answer of markConversationRead and keep the
\* list they fetched: what came since is let go.
MarkRead(r) ==
    LET c == req[r].conv IN
    /\ Is(r, "mark", "sent") \/ Is(r, "thread", "sent") \/ Is(r, "reply", "inserted")
    /\ mark' = [mark EXCEPT ![c] = Len(msgs[c])]
    /\ LetGo(IF req[r].kind = "mark" THEN {m \in ReadUnseen(c, Len(msgs[c])) : ~Coming(m)} ELSE {})
    /\ req' = [req EXCEPT ![r].at = "marked"]
    /\ UNCHANGED <<msgs, list, screen, seen, crossed>>

\* The newest page, or the one before the first message shown.
ReadPage(r) ==
    LET c == req[r].conv
        page == IF req[r].kind = "older" THEN Before(c, req[r].first) ELSE Newest(c) IN
    /\ \/ req[r].kind \in {"list", "older"} /\ req[r].at = "sent"
       \/ req[r].at = "marked"
    /\ req' = [req EXCEPT ![r].at = "answered", ![r].page = page]
    /\ LetGo(IF req[r].kind = "older" THEN {} ELSE ReadUnseen(c, mark[c]) \ page)
    /\ UNCHANGED <<msgs, mark, list, screen, seen, crossed>>

\* An error, or an answer that does not arrive: what the client was to do next
\* is not done.
Fails(r) ==
    /\ req[r].kind # "none" /\ Frees(r)
    /\ LetGo(Unshown(r))
    /\ UNCHANGED <<msgs, mark, list, screen, seen, crossed>>

-----------------------------------------------------------------------------
(* Landing on a screen                                                     *)

(* Mutant: a screen that shows something keeps it. *)
ShowsFirst(r, page) ==
    LET s == req[r].screen IN
    IF req[r].left
      THEN LetGo(req[r].page \cap Unshown(r)) /\ UNCHANGED <<screen, seen>>
      ELSE /\ IF screen[s].shown = {} THEN screen' = [screen EXCEPT ![s].shown = page] ELSE UNCHANGED screen
           /\ seen' = seen \cup screen'[s].shown /\ UNCHANGED lost

\* A screen that is gone shows nothing; a screen without a thread open keeps
\* what landed, for the thread that is opened next.
Shows(r, page) ==
    LET s == req[r].screen IN
    IF req[r].left
      THEN LetGo(req[r].page \cap Unshown(r)) /\ UNCHANGED <<screen, seen>>
      ELSE /\ screen' = [screen EXCEPT ![s].shown = page]
           /\ IF screen[s].open = NoConv
                THEN LetGo(page \cap Unshown(r)) /\ UNCHANGED seen
                ELSE seen' = seen \cup page /\ UNCHANGED lost

Dropped == UNCHANGED <<screen, seen, lost>>
Landed(r, s) == req[r].screen = s /\ req[r].at = "answered"

Fetched == list' = [c \in Convs |-> IF msgs[c] = <<>> THEN "absent"
                                    ELSE IF HasUnread(c) THEN "unread" ELSE "read"]

\* After a reply and after a mark the list is fetched again, after a reply the
\* thread it was written in as well.  The poll for the stand-in's answer, which
\* only delays this, is left out.
InboxLands(r) ==
    /\ Landed(r, "inbox")
    /\ \/ /\ req[r].kind \in {"mark", "reply"} /\ Dropped /\ Fetched
          /\ IF req[r].kind = "reply" THEN GoesOn(r, "list") ELSE Frees(r)
       \/ req[r].kind = "list" /\ Shows(r, req[r].page) /\ Frees(r) /\ UNCHANGED list
       \/ /\ req[r].kind = "older" /\ Shows(r, req[r].page \cup screen["inbox"].shown)
          /\ Frees(r) /\ UNCHANGED list
    /\ UNCHANGED <<msgs, mark, crossed>>

\* A reply is shown and the thread polled while its length stays what it was;
\* first is that length, 0 when nothing is polled.
ListingLands(r) ==
    LET longer == Cardinality(req[r].page) > req[r].first IN
    /\ Landed(r, "listing")
    /\ \/ /\ req[r].kind = "reply" /\ Shows(r, req[r].page)
          /\ \/ Frees(r)
             \/ req' = [req EXCEPT ![r].kind = "thread", ![r].at = "sent", ![r].page = {},
                                   ![r].first = Cardinality(req[r].page)]
       \/ req[r].kind = "thread" /\ longer /\ Shows(r, req[r].page) /\ Frees(r)
       \/ req[r].kind = "thread" /\ ~longer /\ Dropped /\ GoesOn(r, "thread")
    /\ UNCHANGED <<msgs, mark, list, crossed>>

\* The poll ends after five answers.
PollGivesUp(r) ==
    /\ Landed(r, "listing") /\ req[r].kind = "thread" /\ req[r].first >= Cardinality(req[r].page)
    /\ LetGo(req[r].page \cap Unshown(r)) /\ Frees(r)
    /\ UNCHANGED <<msgs, mark, list, screen, seen, crossed>>

\* A screen that finds its conversation loads it by id; a list is followed by
\* the mark whether or not the screen is still there.
PhoneLands(r) ==
    LET finds == ~req[r].left /\ ~screen["phone"].known IN
    /\ Landed(r, "phone")
    /\ \/ req[r].kind = "list" /\ Shows(r, req[r].page) /\ GoesOn(r, "mark")
       \/ req[r].kind = "mark" /\ Dropped /\ Frees(r)
       \/ /\ req[r].kind \in {"thread", "reply"}
          /\ IF finds
               THEN /\ screen' = [screen EXCEPT !["phone"].shown = req[r].page, !["phone"].known = TRUE]
                    /\ seen' = seen \cup req[r].page /\ UNCHANGED lost
                    /\ GoesOn(r, "list")
               ELSE Shows(r, req[r].page) /\ Frees(r)
    /\ UNCHANGED <<msgs, mark, list, crossed>>

-----------------------------------------------------------------------------
(* The user                                                                *)

\* useConversations, when the application starts.
FetchList ==
    /\ Fetched
    /\ UNCHANGED <<msgs, mark, screen, req, seen, lost, crossed>>

\* Leaving ends no request.
Leave(s) ==
    /\ screen[s].up
    /\ screen' = [screen EXCEPT ![s] = Closed]
    /\ req' = [r \in Slots |-> IF req[r].screen = s /\ req[r].kind # "none"
                                 THEN [req[r] EXCEPT !.left = TRUE] ELSE req[r]]
    /\ crossed' = crossed \ {s}
    /\ UNCHANGED <<msgs, mark, list, seen, lost>>

OpenInbox ==
    /\ ~screen["inbox"].up
    /\ screen' = [screen EXCEPT !["inbox"].up = TRUE]
    /\ UNCHANGED <<msgs, mark, list, req, seen, lost, crossed>>

\* The thread is marked only if the list last fetched has it unread.
OpenThread(c, r, q) ==
    /\ screen["inbox"].up /\ screen["inbox"].open = NoConv /\ list[c] # "absent"
    /\ r # q /\ req[r] = NoRequest /\ req[q] = NoRequest
    /\ screen' = [screen EXCEPT !["inbox"].open = c]
    /\ seen' = seen \cup screen["inbox"].shown
    /\ req' = [req EXCEPT ![r] = Asks("inbox", c, "list"),
                          ![q] = IF list[c] = "unread" THEN Asks("inbox", c, "mark") ELSE NoRequest]
    /\ Crosses("inbox")
    /\ UNCHANGED <<msgs, mark, list, lost>>

(* Mutant: the messages stay when the thread is closed. *)
BackToListKeeps ==
    /\ screen["inbox"].open # NoConv
    /\ screen' = [screen EXCEPT !["inbox"].open = NoConv]
    /\ Crosses("inbox")
    /\ UNCHANGED <<msgs, mark, list, req, seen, lost>>

BackToList ==
    /\ screen["inbox"].open # NoConv
    /\ screen' = [screen EXCEPT !["inbox"].open = NoConv, !["inbox"].shown = {}]
    /\ Crosses("inbox")
    /\ UNCHANGED <<msgs, mark, list, req, seen, lost>>

\* The cursor is the first message shown.
LoadOlder(r) ==
    LET view == screen["inbox"] IN
    /\ view.open # NoConv /\ req[r] = NoRequest
    /\ view.shown # {} /\ view.shown \subseteq Messages(view.open) /\ FirstOf(view.shown) > 1
    /\ req' = [req EXCEPT ![r] = [Asks("inbox", view.open, "older") EXCEPT !.first = FirstOf(view.shown)]]
    /\ Crosses("inbox")
    /\ UNCHANGED <<msgs, mark, list, screen, seen, lost>>

\* A page mounts with a listing, or with a conversation of the phone's list.
OpenPage(s, c, known, r) ==
    /\ s \in {"listing", "phone"} /\ ~screen[s].up /\ req[r] = NoRequest
    /\ known => s = "phone" /\ msgs[c] # <<>>
    /\ screen' = [screen EXCEPT ![s] = [Closed EXCEPT !.up = TRUE, !.open = c, !.known = known]]
    /\ req' = [req EXCEPT ![r] = IF known THEN Asks(s, c, "list")
                                 ELSE IF msgs[c] # <<>> THEN Asks(s, c, "thread") ELSE NoRequest]
    /\ UNCHANGED <<msgs, mark, list, seen, lost, crossed>>

Send(s, r) ==
    /\ screen[s].up /\ screen[s].open # NoConv /\ req[r] = NoRequest
    /\ req' = [req EXCEPT ![r] = Asks(s, screen[s].open, "reply")]
    /\ Crosses(s)
    /\ UNCHANGED <<msgs, mark, list, screen, seen, lost>>

-----------------------------------------------------------------------------
ServerSteps(r) == Insert(r) \/ MarkRead(r) \/ ReadPage(r) \/ Fails(r)

LandSteps(r) == InboxLands(r) \/ ListingLands(r) \/ PollGivesUp(r) \/ PhoneLands(r)

UserSteps ==
    \/ OpenInbox \/ BackToList
    \/ \E s \in Screens : Leave(s) \/ \E r \in Slots : Send(s, r)
    \/ FetchList \/ \E r \in Slots : LoadOlder(r)
    \/ \E c \in Convs, r, q \in Slots : OpenThread(c, r, q)
    \/ \E s \in Screens, c \in Convs, r \in Slots, known \in BOOLEAN : OpenPage(s, c, known, r)

ThreadsNext ==
    \/ \E c \in Convs : Arrives(c)
    \/ \E r \in Slots : ServerSteps(r) \/ LandSteps(r)
    \/ UserSteps

ThreadsSpec == ThreadsInit /\ [][ThreadsNext]_threadVars

-----------------------------------------------------------------------------
(* A message of the other party that counts as read was on a screen, or is  *)
(* in an answer under way to one, unless it was let go where the code does  *)
(* let messages go: marked by markConversationRead after the list was read, *)
(* answered to a screen that was left or lost on the way, older than the    *)
(* page of the answer, or in a poll that did not see the page grow.         *)
ReadWasShown == \A c \in Convs : \A m \in ReadUnseen(c, mark[c]) \ lost : Coming(m)

(* A screen shows messages of the thread it has open and, while it stays    *)
(* there, never goes back to an older state of it, unless the user changed  *)
(* thread or asked for something while an answer was still out.             *)
ScreenCurrent ==
    [][\A s \in Screens : s \notin crossed' /\ screen'[s].open # NoConv =>
          /\ \A m \in screen'[s].shown : m[1] = screen'[s].open
          /\ screen'[s].open = screen[s].open => LastOf(screen[s].shown) <= LastOf(screen'[s].shown)]_threadVars
=============================================================================

-------------------------------- MODULE Boot --------------------------------
(***************************************************************************)
(* The processes of a deployment, API instances and the worker, starting   *)
(* on one database: initDb of db.js, which runs the migrations (migrate.js)*)
(* and seeds an empty shop, called by server.js and worker.js before they  *)
(* serve, and the container restart that follows an exit.                  *)
(*                                                                         *)
(* Migrations are numbered in the order of their names, and a process has  *)
(* the files 1 .. image of the release it runs.                            *)
(***************************************************************************)
EXTENDS Naturals, FiniteSets

CONSTANTS
    Processes,
    FirstRelease, LastRelease,  \* migrations in the first and in the last release
    MaxMishaps                  \* bound: restarts by an operator and errors on the way

ASSUME BootAssumption ==
    /\ FirstRelease \in Nat /\ LastRelease \in Nat /\ FirstRelease <= LastRelease
    /\ MaxMishaps \in Nat

VARIABLES
    recorded,       \* schema_migrations
    effects,        \* migration -> how often its SQL was committed
    image,          \* process -> migrations its release has
    at,             \* process -> how far it is
    pending,        \* process -> migrations it found unapplied and has not run yet
    demo, wares,    \* seeded copies of the demo listings, and whether users have listings
    account,        \* who has users.id 1: "free", "demo", or "erased"
    mishaps,
    crowded         \* history: a process seeded while another seeded or served

bootVars == <<recorded, effects, image, at, pending, demo, wares, account, mishaps, crowded>>

Migrations == 1 .. LastRelease
Files(p) == 1 .. image[p]
Empty == demo = 0 /\ ~wares

BootInit ==
    /\ recorded = {} /\ effects = [m \in Migrations |-> 0]
    /\ image = [p \in Processes |-> FirstRelease]
    /\ at = [p \in Processes |-> "down"] /\ pending = [p \in Processes |-> {}]
    /\ demo = 0 /\ wares = FALSE /\ account = "free"
    /\ mishaps = 0 /\ crowded = FALSE

Moves(p, there) == at' = [at EXCEPT ![p] = there]
Exits(p) == Moves(p, "down") /\ pending' = [pending EXCEPT ![p] = {}]
Next1(p) == CHOOSE m \in pending[p] : \A n \in pending[p] : m <= n

-----------------------------------------------------------------------------
(* Starting                                                                *)

Start(p) ==
    /\ at[p] = "down"
    /\ pending' = [pending EXCEPT ![p] = Files(p) \ recorded]
    /\ Moves(p, "migrating")
    /\ UNCHANGED <<recorded, effects, image, demo, wares, account, mishaps, crowded>>

\* BEGIN and the file.  It waits for another that has run the same file and
\* not committed: they create or alter the same tables.
RunFile(p) ==
    /\ at[p] = "migrating" /\ pending[p] # {}
    /\ \A q \in Processes : at[q] = "running" => Next1(q) # Next1(p)
    /\ Moves(p, "running")
    /\ UNCHANGED <<recorded, effects, image, pending, demo, wares, account, mishaps, crowded>>

(* Mutant: the name is recorded ON CONFLICT DO NOTHING. *)
CommitFileAnyway(p) ==
    /\ at[p] = "running"
    /\ recorded' = recorded \cup {Next1(p)}
    /\ effects' = [effects EXCEPT ![Next1(p)] = @ + 1]
    /\ pending' = [pending EXCEPT ![p] = @ \ {Next1(p)}] /\ Moves(p, "migrating")
    /\ UNCHANGED <<image, demo, wares, account, mishaps, crowded>>

(* Mutant: a refused file is tried again. *)
CommitFileRetries(p) ==
    /\ at[p] = "running" /\ Moves(p, "migrating")
    /\ IF Next1(p) \notin recorded
         THEN /\ recorded' = recorded \cup {Next1(p)}
              /\ effects' = [effects EXCEPT ![Next1(p)] = @ + 1]
              /\ pending' = [pending EXCEPT ![p] = @ \ {Next1(p)}]
         ELSE UNCHANGED <<recorded, effects, pending>>
    /\ UNCHANGED <<image, demo, wares, account, mishaps, crowded>>

\* The name is the key of schema_migrations: where another process recorded
\* it since, the file is rolled back and the process exits.
CommitFile(p) ==
    /\ at[p] = "running"
    /\ IF Next1(p) \notin recorded
         THEN /\ recorded' = recorded \cup {Next1(p)}
              /\ effects' = [effects EXCEPT ![Next1(p)] = @ + 1]
              /\ pending' = [pending EXCEPT ![p] = @ \ {Next1(p)}] /\ Moves(p, "migrating")
         ELSE Exits(p) /\ UNCHANGED <<recorded, effects>>
    /\ UNCHANGED <<image, demo, wares, account, mishaps, crowded>>

(* Mutant: the demo data is loaded at every start. *)
CountListingsNot(p) ==
    /\ at[p] = "migrating" /\ pending[p] = {} /\ Moves(p, "seeding")
    /\ UNCHANGED <<recorded, effects, image, pending, demo, wares, account, mishaps, crowded>>

CountListings(p) ==
    /\ at[p] = "migrating" /\ pending[p] = {}
    /\ Moves(p, IF Empty THEN "seeding" ELSE "up")
    /\ UNCHANGED <<recorded, effects, image, pending, demo, wares, account, mishaps, crowded>>

\* seed.sql, as one transaction: user 1 unless there is one with the e-mail,
\* and the listings.  Another user 1 refuses it, and the process exits.
Seed(p) ==
    /\ at[p] = "seeding"
    /\ IF account = "erased"
         THEN Exits(p) /\ UNCHANGED <<demo, account, crowded>>
         ELSE /\ demo' = demo + 1 /\ account' = "demo" /\ Moves(p, "up")
              /\ crowded' = (crowded \/ \E q \in Processes \ {p} : at[q] \in {"seeding", "up"})
              /\ UNCHANGED pending
    /\ UNCHANGED <<recorded, effects, image, wares, mishaps>>

\* A failed statement or a lost database before the process serves, a signal
\* then or later: it exits, what is uncommitted is rolled back, and the
\* container is started again, by then with a newer release perhaps.
Stop(p, release) ==
    /\ at[p] # "down" /\ mishaps < MaxMishaps /\ mishaps' = mishaps + 1
    /\ release \in image[p] .. LastRelease
    /\ image' = [image EXCEPT ![p] = release] /\ Exits(p)
    /\ UNCHANGED <<recorded, effects, demo, wares, account, crowded>>

-----------------------------------------------------------------------------
(* Users of an instance that serves                                        *)

Publish ==
    /\ \E p \in Processes : at[p] = "up"
    /\ ~wares /\ wares' = TRUE
    /\ UNCHANGED <<recorded, effects, image, at, pending, demo, account, mishaps, crowded>>

\* The last listing of the users, or the demo seller's, is deleted.
RemoveAll(whose) ==
    /\ \E p \in Processes : at[p] = "up"
    /\ IF whose = "users" THEN wares /\ wares' = FALSE /\ UNCHANGED demo
                          ELSE demo > 0 /\ demo' = 0 /\ UNCHANGED wares
    /\ UNCHANGED <<recorded, effects, image, at, pending, account, mishaps, crowded>>

\* deleteAccount of the demo seller: the row stays, with another e-mail, and
\* its listings go, of which none was sold here (a sold one would stay).
EraseDemo ==
    /\ \E p \in Processes : at[p] = "up"
    /\ account = "demo" /\ account' = "erased" /\ demo' = 0
    /\ UNCHANGED <<recorded, effects, image, at, pending, wares, mishaps, crowded>>

-----------------------------------------------------------------------------
BootStep(p) == Start(p) \/ RunFile(p) \/ CommitFile(p) \/ CountListings(p) \/ Seed(p)

BootNext ==
    \/ \E p \in Processes : BootStep(p) \/ \E release \in Migrations : Stop(p, release)
    \/ Publish \/ EraseDemo \/ \E whose \in {"users", "demo"} : RemoveAll(whose)

BootSpec == BootInit /\ [][BootNext]_bootVars

(* A started process goes on, and a container that exited is started again  *)
(* (restart: unless-stopped).                                               *)
BootFairSpec == BootSpec /\ \A p \in Processes : WF_bootVars(BootStep(p))

-----------------------------------------------------------------------------
(* Every migration takes effect exactly once, and none before the ones it   *)
(* builds on, whatever starts together, is started again or is upgraded;    *)
(* and a process serves only on the schema of its release.                  *)
MigratedOnce ==
    /\ \A m \in Migrations : effects[m] = IF m \in recorded THEN 1 ELSE 0
    /\ \A m \in recorded : 1 .. m \subseteq recorded
    /\ \A p \in Processes : at[p] \in {"seeding", "up"} => Files(p) \subseteq recorded

(* The demo listings are there at most once and only in a shop that was     *)
(* empty, unless a process seeded while another seeded or served.           *)
SeededOnce == demo <= 1 \/ crowded

(* Whenever a process is down, all get to serve together once nobody stops  *)
(* them, unless the demo account was erased: then an empty shop can neither *)
(* be seeded nor served.                                                    *)
BootEnds ==
    (\E p \in Processes : at[p] = "down") ~>
        (account = "erased" \/ \A p \in Processes : at[p] = "up")
=============================================================================

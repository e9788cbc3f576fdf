# duck.voyage: TLA+ specification

duck.voyage tracks rubber ducks. A *flock* owner mints codes, prints them on
ducks, originates each duck with a photo and a description, and sets it
sailing; whoever finds one scans the code and logs a sighting, comments on it or
follows it. The application is stateless: any number of instances serve
requests over one Postgres database and one object store for photos.

That makes the interesting questions questions about interleavings. A handler
reads, awaits, and writes; transactions run at READ COMMITTED; and nothing spans
the database and the object store. This directory holds a model of every writing
operation of the application, of how instances start, and of the pages that put
several reads together; the TLC runs that check it on small instances; and
TLAPS proofs that its main invariants hold for every number of users, ducks,
flocks, codes, instances and concurrent requests.

## 1. The system

| Part | State | Operations | What makes it correct |
|---|---|---|---|
| Duck handlers (`handlers/duck.rs`, `me.rs`) | the request's own variables across its awaits | originate, set_sail, log_sighting, comment, follow, unfollow, delete/restore, lock/unlock, delete_comment, delete_sighting, mark_notifications_read | what was checked before an await still holds, or no longer matters, at the write after it |
| Admin handlers (`handlers/admin.rs`) | keys to clean up | delete_flock, delete_user, cleanup_photos | nothing left behind, nothing removed that is still in use |
| Repositories (`storage/repos.rs`, `migrations/`) | users, flocks, ducks, sightings, comments, follows, notifications | compare-and-sets on a duck, the log transaction, the hard deletes | foreign keys hold by the statements alone; a lifecycle only moves forward |
| Photo store (`storage/photos.rs`) | objects by key | new_key, put, delete | every photo a row refers to is there |
| Flocks and minting (`handlers/flock.rs`, `FlockRepo::create`, `DuckRepo::mint_batch`) | flocks, ducks, an advisory lock per flock | create, mint | a code is minted once, none is skipped or rude, batches are whole |
| Check characters (`domain/damm.rs`) | none | check_digit, validate | one typing error is always caught |
| Codes and codec (`domain/codec.rs`, `codes.rs`) | keys by generation, per instance | encode, decode, the scan funnel `resolve_any` | a scan leads to the right duck or to none, whatever the deployment |
| Login and sessions (`auth/`, `handlers/auth_routes.rs`, `UserRepo::upsert`, `OidcFlowRepo`) | parked OIDC flows, users, sessions | login, callback, logout | a flow completes once, in time, with its own provider; a session is the person who authenticated and names nobody else |
| Startup (`storage/db.rs`, `main.rs`) | two advisory locks, the schema, the session table | connect, migrate, with_startup_lock, shutdown | simultaneous cold starts do not disturb each other, nothing is served too early, everyone comes up |
| Listings (`handlers/public.rs`, queries of `DuckRepo` and `SightingRepo`) | none | front, missing | they show ducks that can be opened, agree with each other, and a find never makes a duck look worse |
| Pages (`duck::page`, `me.rs`, `views.rs`) | what has been read so far | the duck page, the activity page, the flock dashboard | what a page offers about a duck, its handlers accept; its parts contradict each other only for a reason |
| Photo pipeline, rendering, configuration | none | - | - |

The handlers call the repositories and the store; instances meet only in the
tables, in row locks and in advisory locks. The hard behaviours: a duck changes
or disappears between the check and the write; a photo is stored before its row
and removed after it, with a crash possible in between; hard deletes list photo
keys first and delete rows later; two mints read the same high-water mark; caps
are counted before anything is locked; instances run with different keys; login
callbacks arrive late, twice, or with another login's code, and sessions outlive
the accounts they name; processes die at startup with a lock on one connection
and a transaction on another; finds are dated by their finders, in any order.
`PROJECT.json` lists each hazard at its line with the properties aimed at it.

## 2. Modules

    Database   PhotoStore                 tables and statements; the object store
         \      /
       DuckHandlers                       handlers of duck.rs and me.rs, await by await
            |
       AdminHandlers                      hard deletes and cleanup
            |
       DuckVoyage                         composition, properties, inductive invariants
        /   |      \
       /  Pages   MCDuckVoyage, DuckVoyageProofs
      /     |
     /   MCPages, PagesProofs                      pages read while requests run
    v implements
    Logbook                                        what the handlers promise

    CodeRegistry                                   what minting promises
         ^ implemented by
    FlockMint  - MCFlockMint, FlockMintProofs      create and mint
    Startup    - MCStartup, StartupProofs          instances that start together
    Listings   - MCListings, ListingsProofs        front page and missing page
    Login      - MCLogin, LoginProofs              OIDC flows, users, sessions
    Checksum   - ChecksumProofs                    Damm check character
    DuckCodec  - MCDuckCodec, CodecProofs          keys, generations, scans

**Database.** One variable per table. A statement of `repos.rs` is an operator
that gives the new value of the table it writes, its WHERE clause a set or an
IF. Ids are never reused, so users, flocks and ducks are the rows that exist at
the start and a deleted duck is a row with lifecycle `Gone`. Of a row only what
statements test or properties compare is kept; a photo key stands for the whole
set of details it was submitted with, because every submission draws its own.

**PhotoStore.** The keys with an object, and the next fresh key (32 random hex
digits in the code; collisions are ignored).

**DuckHandlers.** `req[w]` is an in-flight request on some instance, its `pc` the
next await. A handler is one action from arrival to its first write (guards: the
code's checks in order, `Resolve`, `ResolveSailing`, `CanModerate`, the
lifecycle, the lock) and one action per await after that. Requests refused before
they write anything are not represented. `log` is two steps, because its inserts
lock the rows they refer to (duck, finder, notified followers) before its commit
makes them visible; the locks are what `LocksDuck` and `LocksUser` say, and the
hard deletes wait for them. The finder's follow is decided by its statement
(`joins`): if the pair is there already, `ON CONFLICT DO NOTHING` leaves it alone
without locking it, so an unfollow may still overtake the commit; if it is not,
other inserts of the pair wait (`FollowPending`) and an unfollow sees nothing to
delete. `Abandon` is everything that ends a handler early: disconnect, crash,
database or store error, coordinates rejected after the photo was stored. An open
transaction is rolled back, nothing else is undone. Any user may hold a session,
deleted ones too: sessions are not revalidated, and foreign keys refuse what such
a user writes.

**AdminHandlers.** Each hard delete is two steps: it lists the photo keys, and
later all its deletes commit. READ COMMITTED lets others commit in between. A
delete that met a foreign key fails as a whole (`Abandon`). The cleanup removes
key by key and goes on after a store error.

**Logbook.** The abstract specification of all those handlers: accounts, a page
per duck, finds, comments, follows, news, and the pictures that can be seen.
There are no requests, awaits, locks or objects: each write is one step, taken
when its duck sails and its user exists, and a picture comes and goes with the
find or the page that shows it. A find makes its finder a follower, unless they
are in `left`: they followed and stopped while the find was being entered. Only
who follows can leave, so a find without a follow always has an unfollow behind
it. DuckVoyage implements it (`ImplementsLogbook`) under the mapping left <- the
finders who unfollowed behind the back of their open log transaction
(`LeftMeanwhile`), accounts <- user rows, pages <- lifecycle and photo of the
duck rows, finds, comments, follows, news <- their tables, pictures <- the keys
that a row refers to *and* the store holds. So a cleanup that took the object of
a live row, a row visible before its object, or a find entered on a duck that is
gone would show as a step the book does not have, while orphaned objects,
requests that die, open transactions, soft deletes and comment locks do not show.

**FlockMint.** Counting, drawing a prefix (a taken or rude one costs an attempt,
and the insert that meets a taken one has used up a flock id), counting again for
a mint, the advisory lock, the high-water mark with the loop that skips rude
codes, the insert. Lock to commit are separate steps, so mints interleave at
each. `Batch` is the loop in closed form: the first n presentable seqs past the
maximum. The UNIQUE constraints are left out of the insert on purpose:
`MintedOnce` then says that the lock alone keeps codes apart. `printed` is a
history variable. Origination, soft delete and the admin's hard delete are here
as single steps on the two tables; their requests are in the other family.

**CodeRegistry.** The abstract specification of minting: open flocks, codes
handed out, an id sequence that may skip. `Hand` gives a flock the lowest codes
that are free and presentable, a whole batch in one step; `Open` and `Close` are
create and the hard delete; `SkipId` is an insert that met a taken prefix or was
cut off. FlockMint implements it (`ImplementsRegistry`) under the mapping open <-
the id and prefix of the flock rows, handed <- the flock, prefix and seq of the
duck rows, nextId <- the identity sequence: requests, locks, origination and soft
deletes do not show.

**Startup.** An instance is a process with a program counter through `main`; the
two advisory locks and the transaction that creates the session table are held by
connections. A crash leaves its connections behind as ghosts, which the server
ends in any order, and a COMMIT that had arrived is carried out. `CREATE TABLE IF
NOT EXISTS` waits for an uncommitted table of the same name and fails if that
commits. The store library also creates a schema first and forgives a duplicate
there; without that step the model is the more pessimistic one. `Pool` is the
pool size of each instance: with one connection the work under the lock finds
none and the start fails by timeout. Instances are restarted.

**Listings.** Its own small tables, with a clock and the time each find was seen
at: `Window` is what `log_sighting` accepts. A query gives the *set of results*
that its ORDER BY and LIMIT allow, since ties may be broken either way. Writes
are single steps; the await between check and write is DuckHandlers' concern.

**Pages.** One visitor beside the requests of DuckVoyage. The activity page is
two statements of interest (the counter of `nav`, then the feed), the duck page
two (the row, then finds and comments), the flock dashboard one per flock. The
forms are those about a duck: `DuckForms` is what the views show, `DuckAccepts`
what the handlers check, and `Accepts` adds the foreign keys, which refuse what a
visitor without an account would write in their own name. The dashboard's "grab a
new flock" and "mint codes" are left out. They make no promise: the view shows
them always, whatever the caps, and `create` and `mint` refuse them at a cap or
when a flock is full, which is FlockMint's concern. The feed is ordered by the
ids of the finds instead of the start of their transactions; the properties hold
for either order. The page remembers, for the properties only, which ducks
changed since they were read and which notifications came or went.

**Login.** A login is begun on one instance (sweep, then insert: two statements)
and completed by a callback that takes the flow in one statement, asks the
provider, upserts the user and stores the session, with an await between each.
The state token stands for the nonce and the PKCE verifier drawn with it; the
callback pairs any issued code with any flow at any provider's URL, and
`Vouches` is what the provider match, the verifier and the nonce leave of that.
A provider issues one code per flow; whether it tells the name is up to it.
`MayGrant` lets an instance list an admin or not, so deployments may differ.
Sessions carry the flag and id of their login and are never looked up again;
`DeleteUser` is the admin's deletion as far as the user table goes. The identity
and the state token in a session row are history, for the properties.

**Checksum.** The 36 x 36 table and the fold over it. A printed code and a copy
with at most one error are read side by side; the state is the pair of interim
digits, so the state space is finite and *complete*: codes of any length over
the full alphabet.

**DuckCodec.** Each instance has the key map and the current generation its
environment gave it at boot: any contiguous run of generations, any keys, also
wrong ones. Flocks remember the generation they were created under. FF1 is any
permutation of the payloads per key and prefix. `resolve_any` is the set of
ducks a scan leads to (none or one).

Operators introduced by a comment `Fault:` are not part of the model: each is a
plausible mistake in the definition that follows it. Put in its place, it makes
the property it is paired with in `PROJECT.json` (`mutants`) fail, which shows
that the property depends on that piece of code.

## 3. Runs

| Run | Instance | Checks |
|---|---|---|
| `lifecycle` | 1 duck, owner, admin and visitor, 2 requests, 2 photos, 1 sighting | `NoDanglingPhoto`, `PhotoBelongsToOneRow` and the inductive `PhotoInv`, under aborts, cleanups and hard deletes; `LifecycleMonotone`: never back, details written once, whatever was resolved before; `ImplementsLogbook` (refinement); `RequestsAnswered` (liveness) |
| `conversation` | 1 duck, an owner who is admin and a visitor, 2 requests, 1 sighting, 1 comment | `InteractionsOnSailed`, `ReferentialIntegrity`, `FinderNotNotified` and the inductive `RowInv`, under soft and hard deletes, locks, follows, and users deleted between the halves of a log transaction |
| `mint` | 2 usable prefixes and a rude one, 2 flocks, 3 seqs of which one or two are rude, batches up to 2, caps of 1 flock and 2 unoriginated ducks, 2 requests | `TypeOK`, `MintedOnce`, `SeqsDense`, `NothingRude`, `BatchAtomic`; `CapOvershoot`; `ImplementsRegistry` (refinement); `MintsAnswered` (liveness) |
| `checksum` | complete | `OneErrorCaught`, `CheckDigitUnique` |
| `codec` | 2 instances, 2 generations, 2 keys in any arrangement, 2 flocks, 3 seqs in 5 payloads | `OwnDuckOrNone`, `KeptKeyFinds` |
| `login` | an admin and two others at 2 providers, 2 requests, 3 flows, a time-to-live of 1 in 2 clock ticks | `FlowCompletesOnce`, `FlowsLeaveByTakeOrAge`, `SessionIsAuthenticated`, `SessionNamesOwnUser`, `AdminSessionsBacked`, `NameKept`, the inductive `LoginInv` |
| `startup` | 3 instances, one with a pool of one connection, 2 migrations, 2 crashes | `ServesMigrated`, `OneStarter`, `ColdStartsFine`, `EveryInstanceServes` (liveness); deadlock |
| `listings` | 2 ducks, 2 vessels, 4 finds, 4 clock ticks, a front page of one row | `ListedDucksOpen`, `MissingIsAdrift`, `FindKeepsAfloat`, `FindNeverDemotes`, the inductive `ListingsInv` |
| `pages` | 1 duck, its owner and another user as visitors, whose account may be deleted, 2 requests, 2 sightings, a feed of one row | `OfferStands`, `BadgeExplained` |
| `forged_sighting_id` | 2 ducks, 1 request | violated: `DeleteScopedToDuck` |
| `leaked_photo` | 1 duck, 2 requests | violated: `DeleteReturnsOrphanedKeys` |
| `reused_code` | 1 prefix, 1 request | violated: `CodeNeverReused` |

**Bounds.** Two requests are enough for every race between a check and a write;
one duck, because no statement of a handler relates two ducks except the forged
sighting id, which has its own instance with two. Three users separate the roles
(owner, admin, anybody); `conversation` joins two of them. The bounds `MaxKeys`,
`MaxSightings`, `MaxComments` and `MaxFlocks` stop *arrivals*, never a running
request. `Ops` selects the endpoints of a run; between them the runs take every
action. `mint` reaches two flocks under a cap of one, an id lost to a taken
prefix, the last seq, a batch that no longer fits, a hard delete with a mint in
flight and a prefix drawn again. `login` has the three people it takes for a
session to outlive its account and meet a new one (the visitor, the admin who
deletes them, and the next to log in), and the clock passes both the last moment
a flow can be taken and the first it can be swept. In `startup` three instances
let one wait while a ghost of the second meets the third, and two crashes orphan
both kinds of connection at once. In `listings` the window for finds reaches
further back than the missing page waits (which is configured), so that a new
find can be an old one. In `pages` two finds and a feed of one row are enough for
a find that commits late to miss the feed. The proofs of section 4 do not depend
on any of these bounds. Symmetry (of requests, and of the two who are no admins
in `login`) is used in safety runs only.

Deadlock is checked in `startup` only: elsewhere clients may stop sending
requests, and the bounds make them.

**Fairness.** `WF(Step(w))`: a request that can take its next step is polled
again by the executor, and the database and the store answer it, if only with an
error. Nothing is assumed of arrivals or of `Abandon`. `SF(AdvisoryLock(w))` in
FlockMint: Postgres queues the waiters of an advisory lock, so one is not passed
over for ever. In Startup, the same for its two locks; weak fairness of the steps
of `main`, `Boot` included, since a platform restarts what it stopped; and of the
server ending connections that are gone. Crashes are bounded, shutdowns are not.

**What the violated runs show.** Each states a sentence of the repository that
the code does not keep; the quotations are in `PROJECT.json`.

- `delete_sighting` removes notifications by sighting id alone. An id that
  belongs to another duck leaves the sighting and deletes its notifications.
- `delete_flock` returns the photo keys that it listed before its deletes; a
  photo committed in between stays in the store for ever.
- A hard-deleted flock frees its prefix: drawn again, it mints codes that are
  already printed on ducks.

Four more observations without a run of their own. `originate` drops the result
of `stage` although its doc says the caller re-reads, so the loser of two
originations that asked to set sail sends the winner's details off. The caps are
counted in statements of their own: concurrent creates exceed the flock cap, by
less than the number of requests in flight (`CapOvershoot`); concurrent mints
exceed the cap of unoriginated ducks, and so do restores, which count nothing.
The lists of the activity page keep deleted ducks, whose links are then 404s.
A comment admitted before a lock is inserted after it; nothing in the code
promises otherwise, so it is a hazard and not a finding.

Two comments of the code describe another mechanism than the one that is there,
without a run, since nothing they promise fails. `handlers/flock.rs:43-44` says of
minting that "the UNIQUE constraint catches a concurrent mint and the user just
retries": the advisory lock makes the second mint wait and succeed, and
`MintedOnce` holds with the constraint left out. `domain/codec.rs:24` calls old
generations "decode-only": only `create` takes the current one, and `mint` goes
on encoding under the generation of the flock, however old.

## 4. Proofs

All theorems hold for every value of the constants that satisfies the named
assumptions (`DatabaseAssumption`, `MaxKeysAssumption`, `BoundsAssumption`,
`MintAssumption`, `LoginAssumption`, `CodecAssumption`, `StartupAssumption`,
`ListingsAssumption`, `PagesAssumption`), which say no more than types, that admins are users, that
requests are finitely many where they are counted, and that the cipher is
injective.

- **DuckVoyageProofs, types.** `TypeCorrect`: `Spec => []TypeOK`, one step per
  action.
- **DuckVoyageProofs, photos.** `PhotoInvariant`, `PhotosNeverDangle`. `NoDanglingPhoto` is not
  inductive: a cleanup could hold a key that a row still has. `PhotoInv` says why
  it cannot. Every key in use was drawn before `nextKey` (`KeysDrawn`). A request
  that has drawn a key and not written its row is its only holder
  (`CarriedKeysPrivate`) and has stored the object when it gets to the write
  (`CarriedKeysStored`). The rows whose keys a delete has listed are rows its
  deletes remove, and a key being cleaned up has no row (`CollectedRowsDoomed`).
  So a key passes from a request to a row to a cleanup and never back.
- **DuckVoyageProofs, rows.** `RowInvariant`, `RowsConsistent`, `LifecycleNeverBack`. `RowInv`
  adds that a duck resolved as sailing is sailing or gone (`ResolvedStaysSailing`,
  which is where the forward lifecycle is used), that the rows an open log
  transaction refers to exist and its id is its own (`OpenLogsLock`), and the
  shape of duck rows.
- **DuckVoyageProofs, refinement.** `VoyageImplementsLogbook`. It rests on all of
  the above. No picture dangles before or after a step, so what can be seen is
  exactly what rows refer to (`PicturesAreRowKeys`), and since a photo belongs to
  one row, deleting rows takes exactly their pictures (`KeysLost`). A carried key
  is private, so what `stage` or the log transaction attaches is fresh. An
  unfollow puts into `left` only pairs it has just deleted, and a pair inserted
  by an open log transaction is in nobody's way (`LeavingStep`). A write that the
  foreign keys or the row locks let through finds its duck sailing
  (`StillSailing`), although that was checked an await or more before. Removing a
  find whose id no row has touches no news either, by `ReferentialIntegrity`, and
  stutters. `BookInv` adds what is left: comment ids are drawn once, so one
  comment goes at a time, and an origination always carries a photo. `lifecycle`
  checks the refinement for the writes it has; the theorem covers comments,
  follows and the feed as well.
- **FlockMintProofs.** `MintTypeCorrect`, `MintInvariant`, `MintsAreSound`,
  `BatchesWhole`, `MintImplementsRegistry`, `CapsBounded`. `MintInv` adds that
  the lock has one holder per flock (`LockExclusive`) and that what a holder is
  about to insert is still the next run of presentable seqs (`EntriesComeNext`):
  nobody else inserts under the lock, and deletes of the whole flock make the
  insert fail. A flock id read before the lock still names the same flock or none
  (`MintsNameFlocks`). A batch has as many seqs as were asked for (`BatchIsFull`:
  ranking the candidates is a bijection). For the refinement, `EntriesComeNext`
  makes the insert a `Hand` of the lowest free codes, `DucksInFlocks` makes the
  hard delete a `Close`, an insert that meets a taken prefix or is cut off is at
  most a `SkipId`, and everything else stutters. `CapOvershoot` is inductive as
  it stands: a create is admitted below the cap, and each flock it adds is a
  create less in flight.
- **LoginProofs.** `LoginInvariant`, `LoginsAreSound`, `FlowsCompleteOnce`,
  `FlowsLeave`, `NamesKept`. A flow completes once because its state token is in
  one place at a time: drawn, parked, taken or used up (`StatesDrawn`). A session
  is sound when it is stored because the callback has had the code of its own
  flow since the exchange (`CallbacksVouched`), and stays so because what backs
  it (`Backed`) is never taken away: codes stay issued, an id in use or once used
  is not drawn again, rows keep their identity, and admin rows cannot be deleted
  (`UserKeys`). `AdminSessionsBacked` needs that nobody clears the flag by hand.
- **CodecProofs.** `CodecTypeCorrect`, `ScansAreSound`: for every injective cipher,
  `OwnDuckOrNone` and `KeptKeyFinds`, from the invariant that codes are unique
  and each payload is its seq under the key used.
- **ChecksumProofs.** `ChecksumInvariant`, `OneErrorIsCaught`, `CheckDigitIsUnique`,
  for codes of any length. The table is `sigma(x) + y` in Z6 x Z6. Rows cancel, so
  a substitution shows; `sigma` is injective, so two readings that have parted do
  not meet again; and `sigma(x) - x` is injective too (`Orthomorphism`, by its
  components modulo 2 and 3), so swapped neighbours show.
- **ListingsProofs.** `ListingsInvariant`, `ListedDucksDoOpen`, `MissingAreAdrift`,
  `FindsKeepAfloat`, `FindsNeverDemote`, for any page size and window. `ListingsInv`
  adds that the finds are finitely many and all of ducks that sailed, which is why
  queries that never ask for the lifecycle list no early duck. A duck has a latest
  find (`LatestExists`, by a least counterexample), later finds only move it up
  (`LastSeenGrows`), so the missing and the longest adrift are cuts of one order.
  For the rankings, a cut that leaves a duck out after a find of it was possible
  before the find (`CutStays`): its own counts only grew and nobody else's changed.
- **StartupProofs.** `StartupTypeCorrect`, `StartupInvariant`, `StartsAreSafe`, for any
  number of instances, pools, migrations and crashes. `StartupInv` says whose
  connection holds each lock past it (`LockHolders`), that an uncommitted table
  belongs to a process about to commit it or to a ghost, which takes a crash
  (`CreatorKnown`), and what is there past each step (`SchemaReady`).
- **PagesProofs.** `PagesWriteNothing`: with pages being read the system still
  behaves as DuckVoyage says, so everything above holds beside Pages.
  `OffersInvariant`, `OffersStand`: what a handler checks of a duck is in the
  duck's row, so an offer stands until the row changes, or the visitor's account
  goes; `OffersInv` adds that a history is read of a duck that sailed and a flock
  only once, by its owner. `BadgeInvariant`, `BadgesExplained`.
  `PagesTypeCorrect`.

**Only model-checked.** `RequestsAnswered`, `MintsAnswered` and
`EveryInstanceServes` (liveness under fairness is outside the proof system used). The three violated
properties, which do not hold.

## 5. Not modelled

- Of logins: where the browser is sent afterwards, the email address, rate limits,
  and the client secret that is signed for Apple.
- The lists of finds and followed ducks on the activity page, and the admin page:
  plain reads that offer nothing but links and the hard deletes.
- The photo pipeline, QR images and page layout: computation without state.
- Configuration is read once at startup: the caps, keys, pool sizes and thresholds
  are constants here. A batch cap of 65536 and more is truncated to 16 bits
  before it gets there, which no sequence of requests reaches.
- FF1 itself (a library; assumed to be a permutation) and the normalisation of
  typed codes (case and separators).
- Validation of single fields (ship numbers, coordinates, text).
- Hard deletes in Listings: they take a duck and its finds in one transaction.
- Postgres deadlock detection: a victim fails as a whole, which is `Abandon`.

## 6. What could follow

1. The normalisation of typed codes in front of the check character.
2. Where the browser is sent after a login.

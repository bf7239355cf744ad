# Verification of pass-core

TLA+ models of pass-core, the server of the Public Access Submission System
(PASS), with TLC runs on small instances and TLAPS proofs.  Paths are relative
to `src/`; Java files are named without their package directories, and the
`map` of `PROJECT.json` gives the lines each definition stands for.

    tlc -workers 2 -config ObjectStore.cfg MCObjectStore   # one run
    tlapm ObjectStoreProofs.tla                            # proofs

## 1. The system

pass-core is one Spring Boot service.  Users reach it through a browser client
(SAML login), backend services (deposit services, notification services,
journal and grant loaders) with HTTP Basic and the role BACKEND.  Everything
that lasts is in a relational database behind Elide (a JSON API over Hibernate),
in an OCFL file repository, and in the queues of a JMS broker (SQS or Artemis).

| Component | Source | State it keeps | Operations | Hard part |
|---|---|---|---|---|
| Object service | `ElidePassClient`, `PassClient`, model classes, `JmsConfiguration`, `OptimisticLockExceptionMapper` | rows; a version on Submission and Deposit; messages in queues | create, get, update, delete | optimistic locking by a hook that runs in the middle of the flush; messages after the commit |
| File service | `PassFileServiceController`, `FileStorageService`, `StorageConfiguration` | OCFL objects; a shared temporary directory | upload, get, delete | concurrent handlers in one temporary directory; several stores, no transaction |
| User login | `PassAuthenticationFilter` | pass_user rows; a lock | parse, find, create, update on every request | concurrent first logins; identities that change |
| DOI service: journals | `PassDoiServiceController`, `ElideConnector`, `ExternalDoiServiceConnector` | pass_journal rows | resolve a DOI to a journal | search and write in separate transactions, no version |
| DOI service: manuscripts | `PassDoiServiceController`, `UnpaywallDoiService` | none | list manuscripts of a DOI | - |
| User service, invitations | `UserServiceController` | submitter of a Submission | whoami, enact an invitation token | read, compare, write back; the token can be used by anyone and again |
| User tokens | `TokenFactory`, `Token`, `Codec`, `Key` | none | encrypt and decrypt a (submission, e-mail) pair | - |
| Searches and streams | `PassClient.streamObjects`, `PassClientSelector`, `ElidePassClient.selectObjects` | the offset in a selector, the page of a stream | select, stream | paging over objects that others change |
| Policy service | `PassPolicyServiceController`, `SimplePolicyService` | none | policies and repositories of a submission | three transactions over data that others edit; set algebra over grants, funders, affiliations |
| Permissions | `PartOfSubmissionCheck`, `SubmitterCheck`, `BackendCheck`, `package-info` | none | may this user create, change, delete this entity | checks across entities, evaluated at different times |
| Entities, serializers, converters | `model/*`, `serde/*`, `converter/*` | data | - | - |
| Swagger UI | `swagger-ui-*.js` | none | static files | third-party browser code |
| Configuration | `Main`, `SecurityConfiguration`, `WebMvcConfiguration`, `StorageProperties` | none | wiring | - |

How they interact:

- Every endpoint request first passes `PassAuthenticationFilter`, which finds or
  creates the PASS user through `PassClient`.
- User, policy and DOI services call `PassClient`, whose implementation
  `ElidePassClient` runs each call as a JSON API request in a transaction of its
  own.  Nothing spans two calls: a read followed by a write is two transactions.
- `JmsConfiguration` binds hooks to the Elide life cycle: UPDATE/PREFLUSH of
  Submission and Deposit checks the version the client sent; CREATE and UPDATE
  /POSTCOMMIT of Submission (if submitted), Deposit and SubmissionEvent send a
  message that names the object.
- The external deposit services read those messages, get the object and update
  it through the same JSON API, concurrently with the submitter.
- The file service keeps the bytes; `File` entities of the object service only
  hold a URI.  The two are not kept consistent by any transaction.

What makes each component correct:

- *Object service*: no update is lost, no up-to-date client is refused, each
  change that has to be announced is announced, and not before it is visible.
- *File service*: an answer tells the truth about the repository, only owners and
  backend users delete, temporary files do not leak or disturb other requests.
- *User login*: one user per person, never locked out, never taken over.
- *Journals*: the best match is found and completed, nothing is created twice,
  nothing that PASS knows is lost.
- *Invitations*: only the invited e-mail's token makes a user submitter, once,
  and never against a concurrent change.
- *Searches and streams*: what matches throughout is delivered, once.
- *Policies*: institutional and funder policies are all found, and the
  repositories offered are exactly the ones the policies allow.

## 2. Modules

| Module | Contents |
|---|---|
| `AtomicObjects` | abstract specification: objects change in one step, and only for a client that holds the current version |
| `ObjectStore` | detailed specification: clients, transactions, hooks, messages, failures |
| `Invitation` | `/user/whoami` with an invitation token, and edits of the submission; over `AtomicObjects` |
| `FileService` | upload, get, delete over the repository and the temporary directory |
| `UserLogin` | the authentication filter |
| `JournalResolver` | `/doi/journal` and the journal loader |
| `StreamPager` | `streamObjects` over `selectObjects`, while objects change |
| `PolicyService` | `/policy/policies` and `/policy/repositories`, while what they read is edited |
| `MC...` | instances of the module of that name for TLC |
| `...Proofs` | theorems about the module of that name and their proofs |

Operators under a comment "Mutant" are not part of any specification.  Each is a
plausible bug in the definition that follows it; substituted for it, it makes
one property of a run fail, which shows that the property depends on that code.

### ObjectStore

A row of `row` is a Submission or a Deposit: its version and its content, which
stands for all attributes and relationships.  A deleted row keeps its version
(`Gone`), because clients that hold the object still know it.  Each client has
one in-memory object (`copy`, only its id and version matter) and one request.

| Action | Code |
|---|---|
| `Fetch` | `ElidePassClient.getObject` |
| `BeginCreate` | `createObject`: the INSERT of a new id, version 0 |
| `BeginUpdate` | `updateObject`: Elide loads the row and applies the request |
| `AnswerUnchanged` | no attribute differs, so no UPDATE event, no hook, no change |
| `FlushUpdate` | the PREFLUSH hook: its query makes Hibernate flush, `UPDATE ... WHERE version = ?`, which takes the row lock, then `validateEntityVersions` compares |
| `CheckUnchanged` | the same hook when only the version attribute differs and nothing is written |
| `BeginDelete`, `FlushDelete` | `deleteObject`: no hook, but `DELETE ... WHERE version = ?` |
| `Commit`, `CommitFails`, `Crash` | transaction end, rollback, restart |
| `Respond`, `SendFails` | the POSTCOMMIT hook, `jms.send`, the answer and `setVersionIfNeeded` |
| `Receive` | the consumer takes a message and reads the object; delivery at least once |

Points that are easy to get wrong: `validateEntityVersions` compares
`asked + 1 >= stored`, where `stored` is *already incremented* by the flush the
hook's own query causes; a client that sends no version is refused as soon as
anything is written; an update that changes nothing is answered without looking
at the version, and changes nothing.  Clients send either no version or the one
they hold (`AskedVersions`); a client that makes up a future version is not
modelled.  A failed optimistic check of Hibernate and a refusal by the hook are
both the answer `conflict` (which may reach an HTTP client as 409 or as 500).

`unsent` is a history variable: versions whose message was lost to a failure.

### FileService

One action is one call on the repository (each atomic: it is OCFL with a lock
per object) or on the temporary directory.  `stored` is the owner of each
object, `staged`, `parents` and `loads` are the three kinds of entries in the
temporary directory.  A sweep (`FileSystemUtils.deleteRecursively`) is a walk:
`StartSweep` lists, `SweepEntry` deletes one entry in any order that removes
directories last, `SweepEnds` removes the root, `SweepFails` is the exception
when another walk was faster or a new entry appeared.  File ids are fresh UUIDs,
so a file's content is its id.  The output directory of a download is named by
the current instant; two downloads never get the same instant here.

`Fail` is any call of a request throwing for a reason of its own (disk, rights,
storage of the repository).  No handler cleans up after an exception, so the two
stores stay as the calls before it left them.  `Fail` at one stage also stands for
a call at the stage before that threw when it had had its effect or half of it: a
`transferTo` that wrote half of the file is a failure at `put`, a
`describeVersion` that throws after `putObject` is one at `unstage`.  `putObject`
itself is atomic, and a `purgeObject` that throws is taken to have done nothing.

### UserLogin

One service instance, as its lock is the monitor of one filter object.  Stages
of a thread are the statements of `create_or_update_pass_user`: `Enter` takes
the lock, `FindOne`, `FindMany`, `FindNone` are one turn of the loop of
`find_pass_user` each (a transaction each), then `Create` or `Update`.
`BackendEdit` is a backend service that changes roles or ORCID in between.
`IdentityAssumption` states what the code relies on: identity providers give no
two people a common EPPN, unique id or employee id within a domain, also not one
after the other.  If one is given to a second person, the filter makes the user of
the first that of the second; nothing here says it does not.  `BelongsTo`
and `PreloadedAssumption` say what users loaded before the first login may look
like: each has the name and locators of one person, and no two have one durable
id.  Names, e-mail and affiliations are one value (`profile`);
`SetToStringConverter` stores affiliations separated by commas, so that one with
a comma would come back as two: scoped affiliations have none.  Only
durable (`unique-id`) locators are claimed to be unique in the table: a row
loaded by its employee id can end up sharing that locator with a user found by
another one.

### JournalResolver

A Crossref record is a title and a set of ISSNs, some of them typed.  `find` is
one transaction for the name and one per ISSN; `hits` is the bag of row images
those returned, so that the score of an image is the number of searches that
returned it.  A row image has an id and the row as read: like `Journal.equals`,
two readings of a row that changed in between are two different hits.  `Best`
keeps the images with the highest score and the choice among equals is open, as
the iteration order of a hash map is.  `JournalLoader` is the external client
that sets `nlmta` or `pmcParticipation`.  `PATCH` of a journal is one atomic
write of the full image.  Searches are limited to 100 results in the code; no
instance comes near.

### Invitation

`ObjectStore` shows that versioned objects behave as `AtomicObjects`; `Invitation`
uses only that: `Put` is possible for a `Current` copy and refused otherwise
(property `ImplementsObjects`).  A submission is its submitter and the e-mail of
the person it waits for; `submitterName` goes with the e-mail.  A session of
`Threads` is a `/user/whoami` request or somebody's open editor.

| Action | Code |
|---|---|
| `Create`, `Open`, `Save`, `Close`, `Delete` | the JSON API as its clients use it, under the permissions of `Submission` |
| `Invite` | a SubmissionEvent APPROVAL_REQUESTED_NEWUSER and `getInvitationLink` |
| `WhoamiOnly` | requests without a token, with an undecodable one or one of another type, and of principals without a user |
| `Whoami`, `GetSubmission` | the token is decoded; the submission is read and compared (`Outcome`) |
| `Enact` | `updateObject` with the version that was read |

Preparers do not change in the model.  A save that changes nothing changes
nothing in the model either and is left out.  A read and a `PATCH` are separate
steps, and any content may be saved: the code puts no condition on the
combination of submitter and e-mail.  `invitees` is a history variable.

### StreamPager

A table of objects that match a selector's filter or do not; an object that does
not exist yet and one that does not match look the same to a stream, a deleted
one does not.  The order of a search is that of ids; an object may appear
anywhere in it, because the transaction that took the smaller id may commit
later.  A page is read by `Query` and `Load`, the two transactions of
`selectObjects`: what was deleted between them makes the stream fail, what was
changed is delivered as it is now.

| Action | Code |
|---|---|
| `Open` | `streamObjects`: the spliterator's constructor, which reads the first page |
| `Query`, `QueryFails`, `Load` | `selectObjects` |
| `Deliver`, `Advance` | `tryAdvance` within a page and at its end, with the offset written into the *caller's* selector |
| `Stop` | a short-circuiting consumer |
| `Change` | other clients |

Streams opened on one selector therefore continue each other, and two that are
read at once skip each other's pages; the code documents neither.  `stayed`,
`left`, `entered`, `twice` and `shared` are history variables that say what
happened to the matching objects since the stream was opened.

### PolicyService

A request is three transactions: the submission with everything reached from it
(grants, funders, policies, effective policies), the user of the principal's
name, and the policy with the institution's title.  What it keeps of them are
images, compared as a whole: `retainAll` in `doGetRepositories` keeps a policy
only if it was not edited between the reads.  An action is one transaction with
the code up to the next; `Edit` is a backend service or the submitter.  The
history variable `during` holds all contents of the database since the request
arrived: an answer has to contain what applied in all of them and nothing that
applied in none.  The definition of what applies (`Granted`,
`InstitutionApplies`) is stated apart from the translated code.

## 3. Runs

| Run | Instance | Shows |
|---|---|---|
| `ObjectStore` | 2 clients, 1 object, 2 contents, versions up to 2, 1 failure | no lost update, no unfounded refusal, no forgotten or premature announcement, `ObjectStore` implements `AtomicObjects`; announcements arrive unless lost to the failure, requests are answered |
| `ObjectStoreSendFailure` | versions up to 1, 1 failure | **violation**: a committed submission is never announced |
| `Invitation` | 2 sessions, 2 people (one a preparer), 1 backend service, 2 e-mails, 1 submission, versions up to 2, session and e-mail symmetry | only standing invitations are enacted, one invitee, 200 means submitter, and `AtomicObjects` is all that is relied on |
| `FileServiceConcurrent` | 2 handlers, 2 files, 3 principals, 3 requests, 1 restart, 1 failing call | ownership, no deleted file is served, only the upload's own failing call or a restart leaves a staged file behind, requests are answered |
| `FileServiceSequential` | 1 handler, 6 requests, 1 restart, 2 failing calls | the documented contracts of `storeFile` and `getFile` whatever failures and a restart have left behind before; each failure leaves at most one copy of a file |
| `FileServiceOrphan` | 2 handlers, 3 requests | **violation**: a failed upload leaves its object in the repository |
| `UserLogin` | 2 threads, 4 user ids, 5 assertions, 5 initial tables, 1 edit, 1 failure | one user per durable id, never locked out, users keep their person, a login resets what it owns, the lock is released |
| `JournalSequential` | 1 worker, 3 ids, 6 records, 2 initial tables, 1 loader update, 1 failure | best match, all ISSNs of the record, no duplicates, ISSNs only grow |
| `JournalDuplicate` | 2 workers, 3 records | **violation**: the same journal is created twice |
| `JournalLostIssn` | 2 workers, 3 records | **violation**: a completion takes back ISSNs another one added |
| `StreamPager` | 2 streams on one selector, 3 objects, pages of 2, 2 changes, 1 failure | what matches throughout is delivered unless it was moved, only what was moved back is delivered twice, a stream ends |
| `PolicyService` | 1 request, 1 grant, 2 funders, 2 policies, 2 repositories, 2 users, 4 initial databases, 2 edits | the list and the offer contain what held throughout and nothing that never held; an offer has a required repository |

Bounds.  `MaxVersion` 2 lets an object be replaced twice, so a client can be one
and two versions behind; two clients are enough for every race over a version,
as each step of the protocol involves one request and one row.  Rows do not
interact in `ObjectStore` (a request names one row), so one row is enough; the
proofs cover any number.  `MaxFaults` 1 places one failure anywhere.
`MaxRequests` 3 over two handlers is the smallest number with an
upload that completes and two requests that then race (upload, get and get; or
upload, get and delete; or get and a second upload); 6 in the sequential run is
two complete lives of a file, and its restart and its two failing calls
(`MaxFaults` 2) can fall on any call of any of them.  In `UserLogin` nothing bounds the number of
logins; four user ids are the two people and two more.  In `JournalResolver`
nothing bounds the number of requests.
In `Invitation` nothing bounds the requests; two versions after the first allow an
edit and an enactment in either order, with a second session one or two versions
behind.  In `StreamPager` three objects on pages of two fill one page and begin
another, so that every change can move an object across a page boundary; two
changes move it there and back; selectors start at offset 0 (`MaxOffset`).  In
`PolicyService` two edits (`MaxEdits`) change what was read and undo the change, or
fall before and after a read; requests only read, so one is enough.  Where a
theorem is proved, it holds for all of these.

Deadlock.  Every run checks it, except those of `FileService`, where
`MaxRequests` ends the behaviour, of `StreamPager`, where each stream is opened
once and ends, and of `PolicyService`, where each request is sent once.

Symmetry is used only in `Invitation` (sessions, e-mails), which checks no
liveness.

Fairness.  Weak fairness of the server's own steps: a request that has been
accepted keeps its thread.  In `ObjectStore` this includes the wait for a row
lock (its holder is a server step away from commit) and the consumer's
listening.  Clients are never forced to send anything, and failures never to
happen.  `AnnouncementsArriveOrFail` is what this is enough for: a committed
change is announced or its message was lost to a failure; that the message
arrives in any case is what the finding run refutes.  In `UserLogin` waiting
threads get only weak fairness on entering the lock, since Java monitors do not
promise more; hence `LockIsReleased` is claimed and "every login ends" is not.
In `FileService` `SweepFails` and `SweepEnds` are fair, as a walk ends.  In
`StreamPager` the consumer keeps pulling, as `collect` and `forEach` do; it may
`Stop`, and changes and failures are not forced.  `JournalResolver` and
`PolicyService` state no liveness: their requests are straight lines of steps.

### Known deviations

The four violation runs are the project's findings; `PROJECT.json` quotes the
documentation or the answer each contradicts.  All of them are rare interleavings
or failures:

1. The JMS message is sent after the commit, and nothing sends it again.
2. A download sweeps the *whole* temporary directory.  It can take away a staged
   file between `putObject` and `Files.delete`: the upload answers 500, the
   object stays.
3. Search and creation of a journal are not protected against each other.
4. A completed journal is written back as it was read, without a version.

Behaviours the models have as well, which no run reports separately: two downloads
in flight can sweep each other's copies, so that an existing file is answered with
404 (`SweepEntry`; `ExistingFileIsFound` holds for requests one at a time only); a
`createDirectory` that loses a race fails an upload (`MakeDir`); a resolution
that read a journal before the loader changed it writes the loader's fields back
(`Update`); `update_pass_user` can undo a concurrent edit of a user
(`Update`).  A token for another e-mail than the stored one, on a submission
without a submitter, ends in a `NullPointerException` and a 500 instead of the 400
the next branch prepares (`Outcome`); and of two requests with the same token, as
after a double click, the second may be answered 500 because its version is stale
(`Enact`).  The comment of the authentication filter speaks of a cache; the
code has none.  `PassClient` promises to "Stream all objects in the repository
matching the selector starting from the selector offset"; when an object before
the page boundary stops matching between two pages, one behind it is skipped
(`UnmovedIsDelivered` excludes just that), and a second stream on the same
selector starts where the first one stands (`shared`).  A policy that is edited
between two transactions is listed twice in `/policy/policies` and left out of
`/policy/repositories` (`ListPolicies`, `ReposOf`): the set that is to avoid
duplicates compares images.  The comment of `PolicyServiceTest.noGrantsTest` says that
a submission without grants is offered the institutional repository; the code, and
the test itself, offer nothing, as its effective policies are empty (`ReposOf`).

Failing calls of an upload (`Fail`).  The staged file is deleted only at the end of
the successful path (`FileStorageService.java:151`); neither the `catch` (152-155)
nor a `finally` deletes it.  If `transferTo` fails half way, or `putObject`,
`describeVersion` or `Files.delete` throws, the copy stays in the temporary
directory after the request has ended, until the next download sweeps the
directory.  The models show what can still be relied on: nothing *else* leaves a
staged copy (`StagedOutlivesOnlyFailures`), and while requests come one at a time,
copies are at most as many as failures and restarts (`LeftoversBounded`) and disturb
no later request (`UploadsSucceed`, `ExistingFileIsFound`).  Downloads at once can
leave copies without any failure, when their sweeps make each other throw.  If `describeVersion` or `Files.delete`
throws, the upload is answered 500 and its object stays as well, as in finding 2
(`FileServiceOrphan` allows no failing call, to show that none is needed).

Titles of journals (`Completed`).  The comment of `updateJournalInPass`
(`ElideConnector.java:166-167`) says "Construct the most complete Journal object
possible from the two sources - PASS objects are more authoritative."  The code
(215-218) replaces the title that PASS has by that of Crossref whenever they
differ, also by an empty one: a record without a title that matches "Heart" by ISSN
leaves a journal without a title.  `Completed` does what the code does;
`ResolvedIsComplete` claims only what comment and code agree on, the ISSNs, and
leaves open which title the journal ends with.

## 4. Proofs

Everything below holds for all values of the constants that satisfy the named
assumptions of the modules.

`ObjectStoreProofs` proves, for every set of clients, ids and contents, every
bound and the assumptions `ConstantsAssumption` and `NullAssumption` (values that
stand for "none" are none of the things they are told from):

| Theorem | States |
|---|---|
| `InductiveInvariant` | `Spec => []IInv` |
| `TypeCorrect` | `Spec => []TypeOK` |
| `LostUpdateFree` | `Spec => NoLostUpdate` |
| `ConflictsAreReal` | `Spec => NoSpuriousConflict` |
| `AnnouncementsAccounted` | `Spec => []NothingUnannounced` |
| `Refinement` | `Spec => ImplementsAtomicObjects` |
| `MessagesNameObjects` | `Spec => []NoPhantomMessage` |
| `VersionsNameContents` | `Spec => VersionNamesContent` |
| `ConsumerMovesForward` | `Spec => ConsumerNeverGoesBack` |

The argument.  `NoLostUpdate` is not a property of one step: the version is
checked at the flush, the row changes at the commit.  What carries the check
across is the row lock (`LockInv`: a flushed request holds the lock of its row,
and whoever holds it is flushed), under which `BaseIsCurrent` stays true
(`FlushInv`).  For the check itself one needs that the version a client sent is
the one its in-memory object has and no later than the loaded one (`AskedInv`),
so that `asked + 1 >= base + 1` leaves `asked = base` (lemma `AcceptedVersion`).
`BaseInv` says that a loaded row is an earlier state of the row and, if the
version is the same, the very same row, which needs that versions only grow and
that a content is never replaced without a new version.  `CopyInv` and
`CommittedInv` are what the refinement needs for `Respond`: the version a client
takes over is one the row has had.  `IdleInv`, `LoadedInv` and `ValueInv` tie the
stage of a client to its request.  There is one lemma per conjunct, each with one
step per action.

`NothingUnannounced` is inductive together with `IInv`: at a commit the request
becomes `committed` and covers its version (`Announcing`), `Respond` passes this
on to the queue, `Receive` to `seen` and `SendFails` and `Crash` to `unsent`.

The last two need no run: they say why versions are enough.
`VersionNamesContent`: a row's version only grows, and its content does not change
under the same version (a deletion, which keeps it, excepted).
`ConsumerNeverGoesBack`: since a message names the object and the consumer reads
what is stored, repeated, late and reordered messages never show it an older
version than it has seen (`SeenInv`).

`InvitationProofs` proves, from `InvitationAssumption` (values that stand for
"none" are not people, addresses or objects; backend services are not users):

| Theorem | States |
|---|---|
| `InductiveInvariant`, `TypeCorrect` | `Spec => []IInv`, `Spec => []TypeOK` |
| `OnlyOneInvitee` | `Spec => []OneInvitee` |
| `InvitationsStand` | `Spec => EnactsStandingInvitation` |
| `AcceptedIsRight` | `Spec => AcceptedIsSubmitter` |
| `Refinement` | `Spec => ImplementsObjects` |

Here the check (`GetSubmission`) and the write (`Enact`) are two transactions and
no lock spans them.  `HeldInv` is what the version gives instead: a copy with the
stored version has the stored content (lemma `RowGrows`: versions only grow, and
no content is replaced under the same version).  With it, what was compared
(`EnactInv`) is true of the row that is replaced.  `InviteeInv`, that the only
invitee since the last edit is the present submitter, then makes a second,
different invitee impossible.

`FileServiceProofs`, from `UsersAssumption` (backend services are users, "nobody" is
none) and `BoundsAssumption`:

| Theorem | States |
|---|---|
| `TypeCorrect` | `Spec => []TypeOK` |
| `StagedIsInProgress` | `Spec => StagedOutlivesOnlyFailures` |
| `OwnersDelete` | `Spec => OnlyOwnerDeletes` |
| `ServesExisting` | `Spec => ServedFileExisted` |
| `CreatedFilesAreStored` | `Spec => CreatedIsStored` |
| `AloneUploadsSucceed` | `Alone => (Spec => UploadsSucceed)` |
| `AloneLeftoversBounded` | `Alone => (Spec => []LeftoversBounded)` |
| `AloneFindsFiles` | `Alone => (Spec => ExistingFileIsFound)` |

Permission check and purge are two calls, and no lock covers both.  What makes
them safe is that a file id is stored once and for one user: ids are fresh, and
no other request works on the file of an upload in progress (`Distinct`).
`HandlerInv` keeps what each earlier call of a handler has found, as far as others
cannot undo it; `Unanswered` says that a handler at work has not answered yet.
`CreatedIsStored` is the half of the contract of `storeFile` that survives
concurrency: an upload that is answered "created" has its file in the repository
as its user's (`PutInv`).  The other half, that an upload which fails stores
nothing, is what `FileServiceOrphan` refutes.

`StagedIsInProgress` is about one step: an upload whose file is staged goes on to
the next call or deletes the file, and what a sweep takes away under it only makes
it fail with nothing left (`Unstage` and `PutObject` fail exactly if the file is
gone).  What remains are `Fail` and `Crash`.

The last three are for one handler, `Alone == \A h, g \in Handlers : h = g`, and
any number of requests, failures and restarts.  `SoloInv` says that the temporary
directory has what the handler's own last call left there, and what failures and
restarts left; so no call it makes can fail because of them (`NoCallFails`):
directories exist when they are used, and nobody removes an entry of a sweep
first.  The sweep lists what is there when it begins, and with one handler that is
all there is to remove.  `LeftInv` counts: the copies in the directory are at most
the failures, the restarts and the one copy (`Held`) of a request between staging
or loading and cleaning up.  Two handlers break all three, as under "Known
deviations".

`UserLoginProofs`, from `IdentityAssumption` (identity providers give no two people a
common identifier), `PreloadedAssumption`, `UsersAssumption`, `ProfileAssumption`
and `BoundsAssumption`:

| Theorem | States |
|---|---|
| `TypeCorrect` | `Spec => []TypeOK` |
| `OneUser` | `Spec => []OneUserPerDurableId` |
| `LoginsReset` | `Spec => LoginResetsUser` |
| `KeepPerson` | `Spec => UsersKeepTheirPerson` |
| `NobodyLockedOut` | `Spec => NotLockedOut` |
| `LockIsBrief` | `Spec => LockHeldBriefly` |

`OneUser` needs that what the look-ups found still holds when the thread writes
(`Searched`: past the first locator, nobody has the durable id; after a hit, nobody
but the user found has it), which is so because whoever writes locators holds the
lock.  For the last two, every user is of one person, its locators are those it
was loaded with or those of one login, and the user a look-up found shares a locator with the
login (`PersonInv`).  Locators of logins come together: whoever shares
one with a well-formed assertion shares the durable one (`SharedLocator`), which
the look-up has already asked for.  So two matches of a locator that is looked up
later can only be loaded users.

`LockHeldBriefly` is the safety part of `LockIsReleased`: the thread inside the
method has at most four steps to go (`StepsLeft`: three look-ups and a write),
and each step it makes leaves fewer or gives the lock back, whatever others do.
That it makes them is fairness, and stays with TLC.

`JournalResolverProofs`, from `JournalAssumption` ("none" is no journal and no
record, ids are no answers, the tables to start from are typed, a Crossref record
lists finitely many ISSNs).  With
`Alone == \A v, w \in Workers : v = w`:

| Theorem | States |
|---|---|
| `TypeCorrect` | `Spec => []TypeOK` |
| `NoDuplicates` | `Alone => (Spec => NoDuplicateCreated)` |
| `IssnsGrow` | `Alone => (Spec => IssnsOnlyGrow)` |
| `Complete` | `Alone => (Spec => ResolvedIsComplete)` |
| `BestMatch` | `Alone => (Spec => ResolvedIsBestMatch)` |

`Alone` is not a convenience: `JournalDuplicate` and `JournalLostIssn` show that two
workers break the first two.  What one worker has read stays so, but for the
fields the loader sets (`StillSo` in `HitsInv`), and what its searches did not find
is not there (`SearchInv`, `CreateInv`).  `BestMatch` is about the points of the bag
of hits, and needs no sum over it: as long as the loader has not changed a journal
(`loads = 0`, the property's own condition), all hits of a journal are the same
image, and its number of copies is one for the name, if it
is the same, and one for each ISSN that has been searched for and is
among the journal's (`RankInv`).  When no search is left that number is `Score`,
so an image with the most copies is a journal with the best score.

`StreamPagerProofs`, from `PagerAssumption` (ids are numbers, finitely many; pages are
not empty), for any page size, number of streams and changes:

| Theorem | States |
|---|---|
| `TypeCorrect` | `Spec => []TypeOK` |
| `DeliversOnce` | `Spec => []NothingTwice` |
| `DeliversTheUnmoved` | `Spec => []UnmovedIsDelivered` |
| `DeliversTheInvited` | `Spec => []NothingUninvited` |
| `QuietStreamIsExact` | `Spec => []QuietIsExact` |

The argument is about ranks: an object a stream has delivered ranks below its
offset unless something entered before it (`Behind`); one it still owes ranks
above unless something before it left (`Ahead`); ranks have no gaps, so an empty
page is the last (`EmptyPageIsLast`).  The last two bound a stream from above and
close the gap: what it delivers matched from its offset on when it was opened, or
was brought in by a later change (`Invited`); so a stream that ends undisturbed
has delivered exactly what one query for everything would have returned.

`PolicyServiceProofs`, from `PolicyAssumption`, for any databases to start from and any
number of requests and edits:

| Theorem | States |
|---|---|
| `TypeCorrect` | `Spec => []TypeOK` |
| `ListIsRight` | `Spec => []PoliciesFit` |
| `OfferIsRight` | `Spec => []RepositoriesFit` |
| `OneIsRequired` | `Spec => []SomethingRequired` |
| `QuietIsExact` | `Spec => [](ListExact /\ OfferExact)` |

What a request has read, it has read of a database of its history (`ReadInv`), and
the present database belongs to that (`DuringInv`); the rest is about one set of
databases (`FoundFits`).  If that set has one element, nothing was edited, and the
bounds of `PoliciesFit` and `RepositoriesFit` meet (`QuietIsExact`).

Only model-checked: liveness (`AnnouncementsArriveOrFail`, the two
`RequestsAreAnswered`, `LockIsReleased`, `StreamEnds`), as fairness and ENABLED are
outside the prover.  Every other property of a passing run is stated by a theorem;
those of the violation runs are false of the code (`NoDuplicateCreated` and
`IssnsOnlyGrow` hold for one worker, and are proved for it).

## 5. Not modelled

- SubmissionEvent messages: the same hook as Deposit without a version.
- The JSON API query language: what a filter matches is external (Elide).
- Manuscript lookup: no state, a pass-through of Unpaywall's answer.
- Permissions of File and SubmissionEvent: the check is `PartOfSubmissionCheck` of
  their submission, which `Invitation` has; when in a request Elide evaluates
  it cannot be read from this repository.
- Encryption of tokens, OCFL internals, Hibernate, Elide, the broker: external;
  the models use what `src/` expects of them.
- The other converters and serializers: data definitions without state.
- The Swagger UI bundle (`swagger-ui-bundle.js`,
  `swagger-ui-standalone-preset.js`): vendored, minified browser code that is
  served as static files.  No definition is mapped to it, so a count of mapped
  lines that looks at JavaScript only finds none; the program is the Java code,
  and the `map` names its lines.
- Configuration, CSRF cookies, static content, database schema.
- Several instances of the service: the lock of the filter and the temporary
  directory belong to one; no document describes another deployment.

## 6. Plan

Order by importance; all are done but the last.

1. `ObjectStore` over `AtomicObjects`, with proofs.
2. `FileService`, with proofs.
3. `UserLogin`, with proofs.
4. `JournalResolver`, with proofs for one worker.
5. `Invitation` over `AtomicObjects`, with proofs.
6. `PolicyService`, with proofs.
7. `StreamPager`, with proofs.
8. `SubmissionLifecycle`: who may create, change and delete File and
   SubmissionEvent, composed with `ObjectStore`, once the point at which Elide
   evaluates a check is pinned down by a test in the repository.

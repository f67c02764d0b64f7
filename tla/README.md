# libpkgexec verification

TLA+ specifications of libpkgexec, the configurations that check them with TLC
on small instances, and proofs of their main invariants for TLAPS.

libpkgexec seals what a package program may do (an *execution request*), hands
it to an *execution backend* that lives elsewhere, lets the caller cancel it
while it runs, and seals what the backend reports (*execution evidence*). The
library executes nothing itself. Its worth is that whatever callers ask and
backends claim, a sealed value means what it says. That is what is checked
here.

## The system

| Part | Code | State | Operations |
|---|---|---|---|
| Cancellation control | `control.cpp`, `control.h` | one `cancellation_state` (atomic flag, mutex, condition variable) shared by a source and copies of its token | `for_request`, `token`, `request_cancellation`, `cancellation_requested`, `wait`, `wait_for`, `applies_to` |
| Request sealing | `request.cpp` | none; a request is immutable | `execution_request::seal`: derives the required guarantees and refuses contradictions |
| Execution evidence | `result.cpp` | none; evidence and profiles are immutable | `backend_capability_profile::seal`, the five factories of `execution_result` |
| Backend dispatch | `backend.cpp` | none; a backend has its own | two `execute` paths, before a backend sees the call |
| Resource layout and admission | `model.cpp`, `backend.cpp` | sorted vectors in immutable values | `resource_layout::seal`, `binding`, `execution_resources::admit`, `materialization` |
| Policy values | `model.cpp` | none | validating constructors: logical paths, slots, environment, credentials, limits, cancellation policies, captures |
| Result codec | `result_codec.cpp` | none; the record is its caller's | `encode_execution_result`, `decode_execution_result` |
| Profile codec | `profile_codec.cpp` | none; the record is its caller's | `encode_backend_capability_profile`, `decode_backend_capability_profile` |
| Identities | `identity_support.cpp`, `identity.cpp` | an OpenSSL context behind a raw pointer, while a builder lives | `identity_builder`: constructor, `add_*`, `finish`, destructor; `require_sha256_hex` |
| Errors and vocabulary text | `error.cpp`, headers | none | error codes, enumerator names |

How they interact. A request and a backend's profile are sealed independently.
A source is created for a request, its tokens are copied to whoever observes
it. `execute` compares token and request, then calls the backend, which looks
up the admitted host paths of the request's resources, polls or waits on the
token from its own threads, and ends by calling one factory with what it
observed. The factory looks at the request, the profile and, for cancelled
evidence, at the token. A result and a profile can each become a record; to
decode a result record one has to have the request and the profile again, and
the decoder goes through the same factories.

What is hard here:

- threads: any number may cancel, query and wait on one state, with spurious
  wake-ups, timeouts and handles destroyed on the way, and the flag is read
  without the lock under weak memory orders;
- ordering: cancellation races with the program's own end, and the evidence has
  to name what happened;
- two tables of `request.cpp` and a long list of checks in `result.cpp` have to
  agree with one another for every combination of policies and claims;
- partial failure: a backend can fail at each step, and in more than one way;
- sorting that later binary searches and duplicate checks rely on;
- crashes within and between the writes of two records that belong together;
- bytes: records come from anybody, sizes in them are compared by subtraction of
  unsigned numbers, and an identity is worth as much as the framing of what it
  is a digest of;
- no check ties admitted resources to the request they are executed with.

What makes each part correct:

- *cancellation*: one transition and one `true`, no lost wake-up, no answer
  "no" after the transition was seen, publication to whoever is told "yes", no
  use of the state after its destruction, waits that end;
- *request sealing*: a policy determines its required guarantees;
- *evidence*: nothing beyond request and profile; success only for the whole
  contract; cancelled only with the signal; failed cleanup never hidden;
- *dispatch*: backend code runs only under the control its request demands, a
  call ends by its own source's signal alone;
- *resources*: unique slots and mount points, one identity per layout, exactly
  the required host paths, lookups that succeed, and no program that runs with
  less than its own request binds;
- *policy values and identities*: one identity per meaning and one meaning per
  identity, texts with one spelling, an identity of everything or none at all;
- *codecs*: unspoiled records give back what was stored, nothing else decodes,
  the error names the cause, reader and writer stay within their limits and
  agree on them.

## Modules

| Module | Models |
|---|---|
| `CancelLatch` | abstract: what `control.h` promises of a source and its tokens |
| `Cancellation` | `control.cpp` at the grain of one access to the flag, the mutex or the condition variable; refines `CancelLatch` |
| `Requests` | the guarantee tables of `request.cpp` |
| `Evidence` | the factories of `result.cpp`, each as the ordered list of its checks; `Sound` is what evidence may say |
| `Sealing` | one request, profile and result sealed from arbitrary claims |
| `ExecutionContract` | abstract: what the owner of a request is promised of its calls |
| `Execution` | dispatch, sources, an honest backend and the factories together; refines `ExecutionContract` |
| `Layouts` | the operators of layouts, admission and lookups, with the order of the comparisons |
| `Resources` | one layout declared, sealed, offered host paths, admitted and mounted |
| `Provision` | `Execution` with resources admitted for the same request or another, and a backend that mounts them |
| `Checks` | a list of checks with error codes, as the constructors of policy values have it |
| `Identities` | the bytes each identity is a digest of |
| `Policies` | the constructors of policy values and of their texts, their normalisation and their identities |
| `IdentityBuilder` | the life of an `identity_builder`, with every failure of OpenSSL |
| `Texts` | the operators of paths, slot names, variables and identities, character by character |
| `Codecs` | both record formats and their decoders, field by field |
| `EvidenceStore` | two records through crashes, damage and other writers |
| `Wire` | writer and reader of the records on bytes, with sizes and offsets |
| `CancellationProofs`, `EvidenceProofs` (requests and factories), `SealingProofs`, `ExecutionProofs` (with `Provision`), `ResourcesProofs`, `EvidenceStoreProofs`, `PolicyProofs` (with `IdentityBuilder`), `WireProofs` | theorems |
| `MC*` | instances for TLC |

### How state and actions correspond to the code

**Cancellation.** `requested` and `mutex` are the members of
`cancellation_state`; the condition variable is the set of threads at
`"blocked"`. `pc` says where a thread is inside a member function, `source`,
`tokens` and `freed` are the `shared_ptr` owners. `request_cancellation()` is
`CallRequest`, `Acquire`, `Check`, then `Decline`, or `Store`, `Release` and
`NotifyAll`; `wait()` and `wait_for()` are `CallWait`, `Acquire`, `Test`, then
`Return`, or `Park` and a wake-up (`NotifyAll`, `Spurious`, `Timeout`) back to
`Acquire`. `wait_for()` with a timeout that is not positive is `Query`, as in
the code. The flag is written once, so the C++ memory model is captured by two
sets: `sees` (a load there must return true) and `synced` (the store happens
before). A load elsewhere may return either value, which is how stale relaxed
and acquire loads appear; the orders are operators, and weakening one is a
mutant.

**Requests, Evidence, Sealing.** `Derived` and `Consistent` are the two tables
of `request.cpp`. A factory is a sequence of pairs (condition under which it
throws, code) in the order of the code, so `Passes` says whether it seals and
`Code` which error comes first. A capture is present or absent; diagnostics are
left out. Equality of records stands for equality of identities; `Policies` shows
it may. The factories keep no state: in `Sealing` a
behaviour makes one claim, which is no restriction, as a refused claim leaves
nothing behind.

**Execution.** `bound` and `raised` are the sources, `stage` is where a call is.
`ExecuteOrdinary` and `ExecuteControlled` are the two `execute` functions of
`controlled_execution_backend` with their guards. The rest of a call is the
backend, which is outside the repository: it is modelled from the contract of
`backend.h` and the factories, and is *honest*: it claims what it established,
and reports what happened, kept in `truth`. It may fail at every step. What a
dishonest one can do is the subject of `Sealing`.

**Resources.** `Declare` and `SealLayout` are `resource_binding` and
`resource_layout::seal`, `Offer` and `Admit` are `resource_materialization` and
`execution_resources::admit`, `Mount` is a backend that resolves a slot with
`binding` and `materialization`. Values are compared as tuples of numbers in
the order of the C++ comparison operators, since sorting by one key and
searching by another is what can go wrong. `Order` sorts by rank: the n-th element
is the one with n-1 before it. `std::sort` leaves open how equal keys are ordered;
here they stay as they were. Layouts with equal slots are refused, and so are two
materializations of one resource, so nothing that is kept depends on it.

**Provision.** `AdmitResources` admits for a request the caller names and
forgets which, as `execution_resources` does; `Dispatch` passes the result to
either `execute` with any request. `MountRoot` and `MountNext` are a backend that
compares root views and resolves each binding of the request it executes by
`materialization`. It gives up with `resource_admission_failed` when that throws.
The remaining actions are those of `Execution`; isolation is claimed of a mounted
call only.

**Identities, Policies.** The operators of `Identities` follow `add_u8` to
`add_optional_i64` and the `identify_*` functions field by field; a text is its
bytes, an optional value a sequence of at most one, numbers are cut to their
width. `Shifted` is the value that `encode_u64` shifts; `Unsigned` and `Signed` are the
integers that are nothing but their bytes, and a list or a text has a size of eight
bytes. `IdentityBytes` is the domain of the kind and its fields (`FieldBytes`). A step of `Policies` is a constructor that answers: its checks with their
codes, in order, after the sort where there is one. `Declarable` has the types of
the constructors' parameters. Lists of any elements are sorted as `Layouts` sorts
bindings: an order is the set of pairs of places whose elements compare less. `Meaning`
is the declaration with what is not semantic taken out, in words of pkgexec_request(3).

**IdentityBuilder.** One action per step of the constructor and per member
function. `held` is what the raw pointer owns. `lost` is an exception that leaves
the constructor after it acquired everything; other exceptions unwind through
the destructor.

**Texts.** Operators only: the answer of each constructor to a text whose
characters are numbers. `Letters` are those the C locale of the process adds to
ASCII for `std::isalpha` and `std::isalnum`, which is how `model.cpp` asks. In
`Policies`, `EnvironmentChecks` asks them about each variable, and `DeclareText`
declares one text by itself.

**Codecs, EvidenceStore.** A record is its fields in place of its bytes, a
digest is what it digests. `Decode` follows the decoder: size, checksum,
version and whether the identities are there at all, then the authorities, then
the fields, the factory of the record's
shape with a fresh signalled source for cancelled evidence, the identity and
the canonical form. Sizes are kept as numbers, because encoder and decoder
bound different things. The processes and the store are the library's callers,
who are told to keep the records themselves.

**Wire.** `Grammar`, a constant, lists the fields of a format with their limits and the
boolean that says whether a field is there. `WriteField` appends one field or
refuses it: `raw` compares with what is left beforehand, `byte` looks at the size
afterwards. `ReadField` takes one field with `require`, the limit of its size and
the range of its value; `Minus` is the subtraction of `size_t`, and what lies
beyond the input may be read, so an offset that wraps around has consequences.
`ResultGrammar` is the record of a result; the profile codec has a copy of the
same writer and reader for a header, two identities and the guarantees, fields
the result has as well. The header is the magic and the version; the rest of what a decoder does with
the fields is in `Codecs`.

## Runs

No run enables the deadlock check: callers need not call, a waiter whose source
is never signalled blocks for ever by design, and a sealed or refused value ends
a behaviour.

| Run | Shows |
|---|---|
| `cancellation` | Two cancelling and two observing threads, two calls each, one spurious wake-up: the mutex is held exactly in critical sections on every path, no waiter sleeps past the notification, "yes" is published, nobody is inside a destroyed state, a timeout answers from the flag. Under fairness the state implements the latch, liveness included: waits end after the transition, bounded waits end, the call that made the transition returns. |
| `sealing` | Three policies (everything, some, nothing optional), five profiles and claims at the edge of each: what may be sealed. Each factory's verdict decides; the properties do not mention the checks. |
| `execution` | Two concurrent calls, two sources and four requests: dispatch, whose signal ends a call, whether evidence is what happened, and the contract's safety. |
| `resources` | Up to three bindings over three slots (read-only, writable, either), two resources, three mount points; up to three host paths: duplicates, admission and lookups. |
| `provision` | One call, resources admitted for any of four requests, of which two need the same identities under another root view: each slot shows the path offered for what the executed request binds; foreign resources are noticed unless they have the root view and every identity needed. With two sources and fairness: a call whose own source is signalled ends although its program would not. |
| `policies` | Pairs of several hundred declarations of the seven kinds, with texts that are prefixes of one another, empty lists, absent fields and numbers that differ beyond one byte: equal identities exactly for equal meanings, whatever the order of declaration; the environment is a function; groups are unique. And one text at a time, up to six characters (paths) or three (the others) over the characters the checks tell apart and those beside the ranges they test: paths are canonical, what is put together comes apart, identities survive their bytes. |
| `identity_builder` | Up to four pieces after the domain, every call of OpenSSL failing at every point. |
| `wire` | 108 result records: three outcomes, kept, observed and absent streams, lists and diagnostics at and beyond their limits, whole records at and beyond theirs; each stored record cut off anywhere, or rewritten in any byte, shortened or lengthened with a right checksum. |
| `evidence_store` | Two executions of two requests, twelve results including those at the size limits, both records torn, damaged, edited with a right checksum, or written by somebody who claims too much. |
| `sealing_limit_termination`, `sealing_capture_failure`, `resources_alias` | findings, below |

Why the bounds are enough. Two cancellers show the race for the single `true`,
two observers show notify-all against notify-one and handles outliving each
other; a second call per thread shows what a first leaves behind (a held mutex,
a stale answer). The proofs remove these bounds. In `sealing` every check of
every factory is met both ways by some claim; the proofs cover all policies,
profiles and claims. In `execution` two calls and two sources suffice for a
signal to reach the wrong call, of the same request or another. Three bindings
are the least with a duplicate that is not adjacent before sorting. Two
executions are the least for records that do not belong together. In `policies`
two declarations are what an identity can confuse; lists of two show their order
and one more element running into the next field. In `wire` the largest
record is 53 bytes with digests of one byte: full records meet it exactly, two
kept streams or a diagnostic pass it, and a byte of 40 makes sizes that lead far
beyond the record. Six characters are three components of a path, enough for
`/a/..` and `/./a`. Identities of one byte show both digits. Symmetry of calls
and of sources is used in `execution` only, which checks no liveness.

Fairness. Only weak fairness is assumed. In `Cancellation`: a thread inside a
member function keeps running, takes a mutex that stays free, and deadlines
pass. The code never blocks elsewhere. Nobody is assumed to cancel, to call, or
to wake spuriously. In `Provision`, and so for the calls of `Execution`: a
backend keeps mounting and working on a call, and keeps looking at its token
while the program runs. That is an assumption about backends, not about this
repository: pkgexec_backend(3) has them not degrade the cancellation guarantee,
which a request that can be cancelled requires. Programs are not assumed to end,
nor callers to have resources admitted, to dispatch or to cancel.

Mutants. Each property of each passing run has a mutant, an operator next to
the definition it replaces, that is a plausible mistake in that code and makes
TLC find the property violated.

## Findings

- *Limit terminations* (`sealing_limit_termination`). DESIGN.md says evidence of
  a resource-limit termination names a requested limit whose guarantee was
  established. `failed_after_start` checks this only for the failure kind
  `resource_limit_exceeded`; with `cleanup_failed` or `log_capture_failed` any
  limit is accepted. (The same branches take `process_termination::cancelled()`
  without a token; `CancelledMeansRaised` is therefore about the failure kind,
  not about the termination.)
- *Capture failures* (`sealing_capture_failure`). The check whose message is
  "log-capture failure requires missing requested stream evidence" fires only
  when both streams are requested and present; with one or none requested,
  `log_capture_failed` seals although nothing is missing.
- *Aliased inputs* (`resources_alias`). Access is fixed per slot, not per
  resource: the trace seals one resource read-only in a source slot and writable
  in the build workspace of the same layout.

Two more remarks. A lost stream together with a failed cleanup fits no factory,
so an honest backend has no evidence to return; `OneFaultIsReportable` shows that
this is the only such case. And "canonical ASCII tokens", as the message of
`resource_slot::named` calls slot names, are what the locale of the process calls
alphanumeric; the properties of texts do not depend on it.

## Proofs

`CancellationProofs` proves, for any sets of threads and any bounds, `TypeOK`
(with it: `true` is returned at most once), `LockDiscipline`, `NoLostWakeup`,
`YesIsPublished`, `NoUseAfterFree`, `ExpiryIsDecidedUnderLock`, and that
`Cancellation` refines the safety part of `CancelLatch`. Assumptions: cancelling
and observing threads are different and are neither the mutex nor "no thread".
None of the properties is inductive alone. The invariant adds that a thread
that has the mutex after the store sees it and so does the mutex afterwards
(`FlagInv`), which makes the relaxed check under the lock decisive; that
`granted` counts with the one thread between store and return (`GrantInv`); that
an answer "yes" was seen (`AnswerInv`); and that threads inside a call have
their handle (`HandleInv`). `NoLostWakeup` needs `FlagInv`: a waiter parks under
the mutex after seeing the flag down, so the store, under the same mutex, comes
later, and the notification later still.

`EvidenceProofs` proves `SealableIsDerived`: for every policy whose limits are
limit kinds, a request seals with additional guarantees exactly when the policy
derives them. It compares the two tables guarantee by guarantee. It also holds
the lemmas about the factories that three other modules cite. For each factory
one lemma turns "no check throws" into the facts checked (`SucceededSeals`), and
one says from which facts on it does not throw (`SucceededAccepts`).

`SealingProofs` proves `TypeOK`, `PolicyDecidesRequest`,
`EvidenceWithinAuthority`, `SuccessIsExact`, `StartedMeansIsolated`,
`CancelledMeansRaised` and `AfterStartIsAccounted` for all policies, profiles,
claims and interpreters. Assumption: policies are policies. The invariant is that the
request is what its policy derives (`Genuine`), the profile is within the
vocabulary, signals are of requests that allow them, and the evidence is
`Sound`. `Genuine` is needed because the factories look at the policy in some
checks and at the required guarantees in others.

`ExecutionProofs` proves, for any calls, sources, requests and profile,
`TypeOK`, `DispatchIsAdmitted`, `CancelledByOwnSource` and that `Execution` refines the
safety part of `ExecutionContract`. No assumption is made beyond those of the
constants. The invariant adds to the types (`Shape`) that a call that was not made has no
token and no cancelled program, and that every other call has a request
(`Fresh`); that a program ended as cancelled only if the token of its call is
raised (`EndedByOwnSource`); and that a call past its program has an end to
report (`ProgramsEnded`). `EndedByOwnSource` links the moment the backend acts on the
token with the later report: signals are never reset, so it is stable. One lemma
per action shows both that the invariant is kept and that the step is one of
the contract or a stutter.

A second invariant, `Honest`, gives `EvidenceIsTrue` and `OneFaultIsReportable`. Of each
call it says what the backend has found out so far (`RanWell`): the guarantees of a started
program were supported, its end is one of the ends there are and a limit it met
was requested, streams were captured only where wanted. `OneFaultIsReportable`
asks that a report *can* be made, so its proof needs the other direction of the
factories: from `RanWell` and at most one fault, the claims `FailureFor` makes of it
pass every check.

About `Provision` the module proves that it implements `Execution`, step by step and
with it the contract (`ProvisionImplementsExecution`), so every theorem about
`Execution` holds with resources as well; and `MountsShowWhatIsBound` and
`ForeignResourcesAreNoticed`, for any calls, requests, layouts and host paths.
Assumption: the layouts of requests were sealed, and the host paths offered are
absolute and none of them is the mark of a failed lookup. The invariant `Equip` says that a mounted root has the view of
the executed request, that the mounts so far are those of the first bindings in order,
each with a path offered for its resource, and that a call which claims isolation has
mounted all of them. What `materialization` finds is what was
offered (`FoundIsOffered`) even where the search runs over the materials of
another request.

`ResourcesProofs` proves `LayoutsAreUnique`, `AdmissionIsExact` and
`MountsFindTheirResource` for any slots, identities, mount points and paths and for
lists of any length. Assumptions: slots are as `resource_slot` makes them, and a
lookup that threw is no value. Most of it is about the operators: `Less` is a strict
total order of keys, so that ranks are a permutation (`OrderSorts`, by counting what
stands before an element), equal slots become neighbours (`SlotsDecideFirst`,
`DuplicatesAreNeighbours`), the comparison of required with
offered identities position by position is equality of sets
(`AdmissionOfExactlyTheRequired`), and the search stops at a key that is there
(`KeysAreFound`). The invariant is what sealing and admission leave behind for later
lookups: `WellLaid`, `Furnished`, and that every mount shows the path of the material
its slot is bound to (`Shows`).

`EvidenceStoreProofs` proves `TypeOK`, `RecoveryIsExact`, `OnlyEncodingsDecode` and
`RecoveredIsSound`, for any results and requests, any number of executions, any
damage and any foreign records. Assumptions: requests are what `seal` makes of
their policies, executed results passed a factory (`SealedEvidence`), a capture has
its count and digest and, if kept, its bytes (`Captured`), and "no value" is none of
the values. `RecoveredIsSound` follows from the lemmas of `EvidenceProofs`: whoever
wrote the record, the decoder asks the same factory (`RebuiltIsSound`).
`RecoveryIsExact` needs their other direction: the claims in a genuine record are
accepted again, under the requests and profile they were made for
(`SealedRebuilds`). The invariant remembers what an unspoiled record was encoded
from and where an answer was read.

`PolicyProofs` proves the six properties of `Policies` for declarations of any size, any
texts and any locale: `DuplicatesAreRefused`, `OneIdentityPerMeaning`,
`OneMeaningPerIdentity`, `TextsComeApart`, `PathsAreCanonical` and
`IdentitiesRoundTrip`. Assumptions: declarations have the types
of the constructors' parameters, with the widths of their integers and sizes, and
the numbers in a layout stand for texts (`PoliciesAssumption`); the domains of the seven
kinds differ, as do the texts of the actions, and the numbers that stand for texts
are ordered as these are (`IdentitiesAssumption`); the letters of a locale are
beyond ASCII, and an identity has an even number of digits. The invariant says of every answer that it
is the one its declaration gets (`Answered`); what remains is about the operators. Texts,
variables, bindings and groups have total orders (`TextsAreOrdered`: texts differ first
at one place, or one of them ends). Where a list is in order, equal elements are
neighbours (`EqualOnesAreNeighbours`); with `RearrangedValues` of `ResourcesProofs` the
check of neighbours after the sort finds every repetition of the list as declared. For
variables the order is that of name and value, and the check that of names alone:
names are in order too (`RepeatedNamesAreFound`). A set has one strictly ascending
list (`OneOrderOfASet`), so two declarations of one meaning, in which nothing is repeated, are one
list once sorted (`SortedOfASet`); that nothing is repeated is what `seal`, `hermetic` and
`fixed` have checked before. Guarantees, which may be repeated, are sorted from their
set.

The converse, `OneMeaningPerIdentity`, is that what a digest is fed can be read in one
way. Two pieces are `Readable` if, whatever follows them, equal bytes begin with equal
pieces. That holds of pieces of one length, of a length and as many bytes
(`StringsTell`), of a flag and what it announces (`OptionsTell`), of a count and as many
pieces that are `Readable` (`ListsTell`), and of one such piece after another
(`HeadsTogether`). Integers are told by their bytes as far as their width goes
(`BytesTellNumbers`), so each field tells its value, the fields of a kind tell what
they mean (`FieldsTell`), and the domain, a text with its length in front, tells the
kind. Two facts come from the constructors: an epoch that is fed as unsigned is not
negative, and an action is one of four, which have different texts (`SealedIsTellable`).

`PathsAreCanonical` is proved by walking a path. While no component is refused, the
characters read are the place reached, as it is written, a slash, and the component
being read (`Reached`); at the end that is the whole text. Conversely, whatever
is walked, only proper components are entered (`Entered`), and in what is written of
those every slash is followed by one (`WellWritten`), so `parse` refuses none.

It also proves the three properties of `IdentityBuilder`, for any pieces and any
number of them: while a builder is usable, it holds both resources and has
digested exactly what it was given, or has finished and digested it all.

`WireProofs` proves all of `Wire`'s properties for *any* grammar, records, digest size
and limits, with any bytes found in place of those written: `TypeOK`,
`EncodingsAreBounded`, `ReadsStayInside`, `RefusalIsExact`, `ReadIsWritten` and
`WrittenIsRead`. Assumptions: each record has the values its grammar allows; the
header comes first and fits a record with a checksum; sizes fit `size_t`, the size of a
record fits four bytes and the number of guarantees two; a field has the limit the
format gives its kind (`LimitFits`); and whether a field is there depends on an
earlier one. The invariant begins with: nothing was read before the record is
opened. `ReadsStayInside` is its own
induction: as long as the offset is at most the limit the subtraction in
`require` does not wrap around, so what it lets through leaves the offset at most
the limit. The test `offset_ > limit_` that the profile reader has in addition
is therefore never true, and the result reader does not miss it.

That reader and writer agree is a second invariant, `Agreement`. `Upto(r, n)` is what
the first n fields of a record are written as. The writer has written its record
up to the field it is at (`WrittenSoFar`); the reader has taken fitting values
whose `Upto` is the input up to the offset, whatever the input is (`ReadSoFar`); and
if the input is what was stored, these are the first fields of the record and the reader
has not given up (`ReadsBack`). A step adds one piece: a size that was read is written
as the same bytes, a size within the limits is read as the same number
(`SizesReadAreWritten`, `SizesWrittenAreRead`), and whether the next field is there
is known from the values before it (`PresentAlike`).

Data of any length, such as a payload put together field by field, is reasoned about
without the induction theorems of the library: if a statement fails for some number
there is a least one (`LeastNat`, from the well-foundedness of `<`), and it holds below.

The types, and `EncodingsAreBounded`, are proved and not repeated in a run, but
for `Cancellation` and `EvidenceStore`, where a mistake in the code shows in them.

Only model-checked: liveness of `Cancellation` and of `Execution` in `Provision`
(fairness and `ENABLED` are out of the prover's reach). Every safety property that a
passing run checks is also a theorem. `FlattenSeq` and `PlaceOf` are recursive
functions: the proofs use their equations (`JoinedAt`, `WalkedStepByStep`), with a
proof that functions with such equations exist (`JoinedExists`, `WalkExists`).

## Not modelled

- SHA-256: digests are taken to differ where their preimages do. `Policies` shows that preimages differ where meanings
  do.
- Diagnostics, beyond their size: no check and no identity looks at them.
- The normalisation of host paths, which the standard library does, and what an
  execution does to the host. Backends are external.
- Errors as exceptions, with messages: codes are kept where a caller can tell
  them apart. `to_string` of the enumerators.
- Plain `execution_backend`, an interface without code.
- Sizes beyond 32 bits in `writer::text`: a record is smaller by its own limit.
- Build, tests, packaging.

## Plan

Done, in this order: `CancelLatch` and `Cancellation`, `Requests`, `Evidence`
and `Sealing`, `ExecutionContract` and `Execution`, `Resources`, `Codecs` and
`EvidenceStore` with the proofs of the first five; then `Layouts` and `Provision`,
`Identities` and `Policies`, `IdentityBuilder`, `Wire`, `Texts`, and the proofs
about `Execution`, `IdentityBuilder` and `Wire`; then the rest of the safety
properties proved: honest evidence, `Provision`, `Resources`, `EvidenceStore`, the
agreement of reader and writer in `Wire`, and the six properties of `Policies`.

What the plan leaves is liveness, which stays with TLC, and the hazards for which
`PROJECT.json` gives a reason why no property covers them.

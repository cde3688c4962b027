# TLA+ verification of aws-kms-demo

The program generates one Ed25519 key inside an AWS Nitro Enclave, seals it
under two KMS keys, commits it to S3, and restores it from either key on later
starts. Bucket contents outlive every process, so the questions worth a model
are about runs that overlap, fail half-way, are retried, or act on settings and
credentials that changed since.

## 1. The system

| Part | State | Operations | Talks to |
| --- | --- | --- | --- |
| `decrypt-server-tee init-key` (`key_material.rs:243-367`, `bin_support.rs:29-58`) | local variables of one run: key pair, slot, recovery references | check manifest; per KMS key: GenerateDataKey, save package, load it back, restore from it; save and check the public key document; save the manifest | broker (settings, credentials, objects), KMS |
| `decrypt-server-tee serve` (`key_material.rs:369-496`) | manifest, expected public key, slot | load manifest and public document; per configured KMS key: load package, check its digest, Decrypt, compare public keys; then gRPC | broker, KMS |
| `enclave-broker` (`lib.rs:631-799`) | settings and credential providers, read once at start; one thread per connection | GetSettings, GetAwsCredentials(slot), LoadObject, SaveObjectIfAbsent (init-key mode only) | S3, AWS credential chain |
| S3 requests of the broker (`key_material.rs:705-793`) | attempt counter of a retry loop | GetObject and conditional PutObject, four attempts each, comparison after 412 | S3 |
| S3 prefix | objects | PutObject with `If-None-Match: *`, GetObject | everybody |
| `scripts/init-key-in-enclave.sh` | `broker_pid`, `enclave_id`, deadline | start broker, run enclave, poll, clean up on EXIT | broker process, nitro-cli |
| Nitro KMS client and C shim (`nitro_kms.rs`, `native/`) | SDK objects and buffers of one call | GenerateDataKey, Decrypt with attestation | KMS |
| Framing and endpoints (`lib.rs:233-531`, `739-799`) | none | one JSON request and one response per connection, both below a size limit | |
| Settings (`lib.rs:139-205`, `875-988`, `bin_support.rs:7-27`) | none | exports and `.env` to `ParentSettings` | the script, the operator |
| gRPC service (`lib.rs:533-629`) | none | `hello` | |

Nothing is shared between two processes but the S3 prefix. What is hard is
therefore: put-if-absent writes whose outcome the writer does not learn, or that
take effect after it gave up; several runs at once; a broker restarted with other
settings in the middle of a run; credentials, KMS keys or objects that fail one
at a time; and cleaning up in a script that can be stopped anywhere.

What makes each part correct:

* provisioning: the manifest is the commit record. Whatever happened before, a
  manifest in the bucket names two packages under two KMS keys and a public key
  document, all of one key pair, and each package alone opens it;
* identity: the key is chosen once, never replaced, and whoever announces a
  public key announces that one;
* recovery: a run gives up only when no configured key could have worked, and
  uses the first one that does;
* the broker's S3 calls: "saved" is answered only if the object is the caller's,
  a refusal only if it is somebody else's; every request is answered;
* the broker as a server: a caller that keeps to the settings it was told is
  served, what was stored can be read back, and every caller that sent a request
  comes back, whatever its peers do;
* the native client: a call returns everything or an error, and leaves nothing
  behind in either case;
* the settings: the same exports and the same `.env` file mean the same place in
  S3, with the script or without;
* the script: it ends, and leaves neither broker nor enclave behind.

## 2. Modules

| Module | Models | |
| --- | --- | --- |
| `ObjectStore` | S3 as the broker uses it: put-if-absent, writes that are under way | external |
| `KeyMaterial` | init-key and serve runs of several tees, one broker, two KMS keys, the environment | detailed |
| `OneTimeKey` | what provisioning promises, nothing said of how | abstract |
| `BrokerS3` | the two retry loops of the broker, one thread per connection | detailed |
| `ConditionalStore` | what the broker's S3 calls promise to the enclave | abstract |
| `InitScript` | the initialization script | detailed |
| `KmsOptions` | the options of the KMS requests, in both KMS clients | detailed |
| `EnclaveBroker` | the broker as a server: accept loop, threads, checks of a request, frames | detailed |
| `NitroShim` | the C shim and the Rust code that calls it | detailed |
| `NativeCall` | what a native call promises to the Rust code | abstract |
| `BrokerEnvironment` | where `S3_PREFIX` and the mode come from, and the object names they lead to | detailed |
| `MCKeyMaterial`, `MCBrokerS3`, `MCEnclaveBroker`, `MCBrokerEnvironment` | constants for TLC | |
| `KeyMaterialProofs`, `KeyMaterialRecoveryProofs`, `BrokerS3Proofs`, `EnclaveBrokerProofs`, `NitroShimProofs`, `BrokerEnvironmentProofs`, `KmsOptionsProofs`, `InitScriptProofs` | the theorems about these modules, with their inductive invariants | |

Three modules look at the broker from different sides: `KeyMaterial` sees one
that works or does not, `EnclaveBroker` its connections and checks with S3 left
open, `BrokerS3` its S3 calls. `BrokerEnvironment` ends where the others begin,
at the settings of a broker that was started.

`KeyMaterial` and `BrokerS3` both extend `ObjectStore`. They fit together through
`ConditionalStore`: `BrokerS3` implements it, and the steps of `KeyMaterial` on a
write (`SendObject`, then `S3Write` whenever the name is free, then `Saved` only
if the object is there, or `SaveError` at any time) take no more from it than it
promises. That last step is an argument, not yet a checked refinement (see the
plan). `ConditionalStore` has no deletions; `KeyMaterial` has them, and a write
that was sent may then land once more.

### KeyMaterial

`run[t]` holds the local variables of the functions, `pc[t]` the next call. One
action is one call to the broker or to KMS with the local computation up to the
next call, its failure included:

| `pc` | Action | Code |
| --- | --- | --- |
| idle, failed, initialized | `Start` | `decrypt_server_tee_main`, `validate_kms_configuration` |
| checking | `CheckManifest` | `key_material.rs:248-278` |
| generating | `GenerateDataKey` | `281-308` |
| sending, saving | `SendObject`, `Saved`, `SaveError` | `BrokerS3Client::save_object_if_absent` |
| verifying | `VerifyUpload` | `verify_uploaded_object` |
| unsealing | `CheckPackage` | `319-324` |
| loading, reading | `LoadManifest`, `LoadPublic` | `379-406` |
| fetching, opening | `FetchPackage`, `OpenPackage`, both with `NextKey` | `409-452` |

A save is used three times (package, public document, manifest); which one it is
shows in the kind of `run[t].put`. The manifest is not read back, as in the code.

The environment (`Environment`) terminates enclaves, starts and stops the broker
with any configuration, breaks and repairs identities, KMS keys and S3, and
deletes or overwrites any object but the manifest. A configuration gives each
slot a KMS key and an AWS identity; identity `default` is the default credential
chain, which the S3 client always uses and which stands in for the primary
identity when `KMS_PRIMARY_*` is not set (`lib.rs:636-647`).

`steady` holds the tees during whose run the environment broke, changed and
brought back nothing; it is history that `NoSpuriousRefusal` and
`FirstHealthyKeyServes` need to speak of a whole run, and no guard and no other
variable depends on it.

Abstractions. Cryptography is symbolic: a key pair is a constant, a digest is an
injective record, a package records the KMS key that wraps its data key and the
private key it seals. Two runs draw different key pairs. All configurations share
one bucket and prefix. The credentials of a slot are granted the key that the
broker's own configuration has in that slot. A load is one step, because the
answer is what S3 held at one moment of it. The four attempts the broker makes of
one write (`BrokerS3` has them) are one element of `inflight`, which stays: while
the name is taken a further attempt changes nothing, and when the object was
deleted meanwhile a late attempt brings it back (`S3Write`). How many attempts
are left is not counted, so the model has at least the behaviours of four.
The deletion of the manifest by an operator is left out: after it, init-key is
meant to create another key.

### BrokerS3

`task[h]` is the request of one connection thread: which loop it is in, the
attempt, and where its request to S3 is. S3 handles a request and the answer
arrives in two steps. A connection that fails in between leaves a write that was
handled, will be (`inflight`, `S3Late`), or never is. Only `DispatchFailure` is
retried; every other error is answered. The sleep before a retry is left out,
since a thread may be slow anywhere.

### EnclaveBroker

`started` lists the configurations of all brokers so far, of which the last may
run; a connection carries the number of the broker that accepted it, so that the
settings a thread uses are those of its own process (`lib.rs:655` clones them
from the start). A connection goes through `thread`:

| `thread` | Action | Code |
| --- | --- | --- |
| (none) | `Connect`: only to a broker that runs, one connection per caller at a time | `connect_broker` |
| queued | `Accept` | `lib.rs:651-660` |
| reading | `SendRequest`, or a caller that never sends; then `Refuse`, `GiveSettings`, `GiveCredentials`, `Load`, `Save`, `Fail`, or `PeerGone` | `write_json_frame`, `read_json_frame`, `handle_broker_request` |
| replying | `Reply` | `lib.rs:739-751` |
| done | `Receive` | `request_broker` |

`HangUp` is a caller that ends: its thread carries the request out all the same.
`BrokerEnds` is every way the process ends, the failure of one `accept` included
(`lib.rs:652`); an answer that was already written stays readable.

Frames are known by their size. Only bodies of objects can be large, and the
same body costs more in a save (with bucket and key) than in an answer to a load:
`SaveOverhead` and `ObjectOverhead` are what is around it. An answer above the
limit is not written and its error is dropped (`lib.rs:750`), so the caller sees
the connection close. What S3 and the credential chain answer is left open
(`Fail`, and the failing half of `Save`), since `BrokerS3` has it; several objects
under one prefix are one.

### NitroShim

One call of `nkms_generate_data_key` or `nkms_decrypt_data_key` from `CString`
conversion to the Rust result. `points` are the pointers that are not NULL, which
is what the code tests before it releases; `live` counts what was acquired and not
released, which the code cannot see. Every acquisition and every SDK call may
fail, an SDK call may fill a buffer and fail all the same, and KMS may answer
empty buffers, for which `copy_buffer` allocates nothing.

`NativeCall` has neither steps nor pointers: while a call runs it owns each object
at most once, and SDK objects only while the SDK is initialized; at its end it
owns nothing, and its result is all that KMS answered, or an error.

### BrokerEnvironment

The operator's exports, the `.env` file (`dotenvy`: the first assignment counts,
exports win, and a line that cannot be read ends the file, silently unless
`APP_ENV_FILE` names it), the defaults, and what the script adds. In the script an
exported `S3_PREFIX` is assigned to and stays exported, one that was not exported
stays the script's own: `ScriptExports`. Prefixes are sequences of characters,
because trimming, `validate_s3_target` and the script's `${S3_PREFIX%/}` are about
single slashes; `Components` cuts a name at them as `str::split` does, one
character at a time. The fall-back to a second file (`/app/.env`) inside the enclave is
left out; it does not exist where brokers run.

### InitScript

The script's own steps, in order, with the EXIT trap as the two steps "stop
broker" and "stop enclave" that every way out takes. The broker and the enclave
end by themselves at any time. Up to `MaxFailures` calls of nitro-cli fail for
reasons of their own. An interrupt of `run-enclave` is one of its failures.
`EnclaveExits` is the enclave of any outcome: the script cannot tell them apart.

### KmsOptions

The options `KMS_KEY_SPEC`, `KMS_NUMBER_OF_BYTES`, `KMS_ENCRYPTION_CONTEXT`,
`KMS_GRANT_TOKENS` and `KMS_DRY_RUN` from the environment to the requests.
`KeyMaterial` has KMS calls that fail because of a key or an identity; here all
of these work, and a call fails because of an option. One process runs at a
time: the operator sets the options and picks the client (`Configure`), the
broker accepts or refuses them (`StartBroker`, `ParentSettings::from_env`), and
the tee initializes the bucket (`GenerateDataKey`, `CheckPackage`) or recovers
(`OpenPackage`); then the operator may choose other options and the other client,
and the bucket stays. `committed` holds the data keys of the packages that the
manifest names.

The two clients differ in what they refuse: the local one parses the key spec
before every request, the Nitro one accepts no grant tokens, no dry run and, to
generate, no encryption context (`Local...`, `Nitro...`). What KMS does is
external: it wants exactly one of key spec and number of bytes (`KmsKeySize`),
takes an empty context for none (`Effective`), decrypts only under the context it
encrypted with, and answers a dry run with an error. The value of a grant token
is left out.

## 3. Runs

| Run | Bounds | States | Shows |
| --- | --- | --- | --- |
| provision | 2 tees, 3 runs, 3 key pairs, empty bucket, 1 harm, a valid configuration and one with the same key twice | 1.9 M | `TypeOK`, `EveryPathOpens`, refinement `OneIdentity`, `NoSpuriousRefusal` next to init-key runs |
| serve | 1 tee, 2 runs, empty or provisioned bucket, 5 configurations, 2 harms | 691 k | `NoSpuriousRefusal`, `FirstHealthyKeyServes`, liveness `RunsEnd` |
| primary_loss | 1 tee, default identity for the primary | | finding 1 |
| s3_promise | 2 threads, 3 requests, 1 key, 2 bodies | 140 k | `TypeOK`, refinement `StorePromise`, liveness `Answered` |
| options | 2 encryption contexts, every combination of option values, both clients | 23.6 k | `TypeOK`, `OptionsFailEarly`, `OnlyContextBinds` |
| options_key_size | 1 encryption context | | finding 3 |
| script_cleanup | deadline of 4 polls, 2 failing calls | 166 | `TypeOK`, `NothingLeftBehind`, `ScriptEnds` |
| script_report | 1 failing call | | finding 2 |
| broker | 2 callers, 2 connections, 2 starts out of 3 configurations, bodies above and below the limit of 5 | 683 k | `TypeOK`, `ToldHolds`, `SavedIsLoadable`, liveness `CallersReturn` |
| nitro_calls | both kinds of calls, any number of them | 153 | `TypeOK`, refinement `KeepsCallPromise` |
| environment | 8 spellings of a prefix, all files of at most 2 out of 5 lines | 34 k | `AllowedIsBelow`, `SameSettingsSamePlace`, `ScriptInitializes` |
| environment_named | the same | | finding 4 |

Why the bounds are enough. Runs interact through object names only; a name
belongs to one key pair (packages, public document) or is the manifest, so two
concurrent runs show every conflict, and a third run meets what two left behind.
One harm is enough to lose any single answer of any run, and the theorems carry
the safety properties to all bounds. In `serve`, two harms can take away both
paths, or one path of a run under other settings than those of the provisioning; the five configurations are: shared identity,
explicit identity, no backup identity, keys in the other order, and twice the
same key. In `BrokerS3` a conflict on one key needs two bodies; a third request
overlaps the retries of two others or reads what they left. In
`InitScript` the counter passes its deadline. `KmsOptions` is finite but for the
contexts, and two differ from each other and from none. In `EnclaveBroker` two
connections are one that is asked about and one that stalls, fails or is left
behind; one caller is on the allowed CID and one is not; the second broker has
another prefix and mode; a body of 3 can be saved at a limit of 5, a body of 5
can neither be saved nor answered, and is there only when somebody else put it
there. `NitroShim` has no bound. In `BrokerEnvironment` two lines are enough for
each to come first, and for a setting before or behind an unreadable one; the
spellings have slashes at both ends, a component in common, `..` as a component
and inside one.

All runs but `options` and `nitro_calls` let the processes stop at their bounds,
or at their end, so deadlock is checked in these two only.
The tees in the safety run `provision` are symmetric; no run with a liveness
property uses symmetry.

Fairness. `KeyMaterial!FairSpec`: weak fairness of one tee's own steps. A tee
waits only for answers; a request is answered because the broker has at most four
attempts of an S3 call, or the connection closes. `SaveError` is always possible
while a write is awaited, so the assumption does not say that writes succeed.
Not covered: a broker host that hangs without closing the connection
(`request_broker` has no timeout). `BrokerS3!FairSpec`: a thread runs on, and S3
answers or the connection fails (the SDK's own timeouts). `InitScript!FairSpec`:
the script runs on, which assumes that a nitro-cli call returns.
`EnclaveBroker!FairSpec`: for each connection, the accept loop and its thread run
on while the broker lives, and a caller reads what has arrived. Each thread is a
thread of the operating system (`lib.rs:659`), so it does not wait for another
one. Nothing is assumed of sending a request, hanging up, and starting or ending
a broker: `CallersReturn` holds next to a peer that connects and stays silent.

### Findings

1. `PrimaryLossTolerated`. README.md:12 and docs/STARTUP.md:54 promise that
   recovery goes on with the backup when the primary credentials fail. Without
   `KMS_PRIMARY_*`, the default chain is both the primary and the S3 identity:
   when it fails the manifest cannot be loaded and the run ends before any key is
   tried. With explicit primary credentials the promise holds (run `serve`,
   `NoSpuriousRefusal`).
2. `ExitReportTrue`. Under `pipefail` a failing `describe-enclaves` ends the
   polling loop like the exit of the enclave. The script forgets the enclave's
   ID, stops the broker under it and reports success.
3. `EitherKeySizeProvisions`. .env.example:29 lets the operator choose between
   `KMS_KEY_SPEC` and `KMS_NUMBER_OF_BYTES`. `lib.rs:166` sets a key spec also when
   the number of bytes is chosen, and KMS as well as `nitro_kms.rs:206` refuse
   both together: init-key fails with every number of bytes.

4. `NamedObjectIsManifest`. At its end the script names the object to verify
   (`init-key-in-enclave.sh:85-86`) from its own `S3_PREFIX`. The broker may have
   had the prefix from `.env`, where docs/STARTUP.md:222 allows it, and trims more
   slashes: the named object is then not the one that was written. The place
   itself is right (run `environment`, `SameSettingsSamePlace`).

## 4. Proofs

`KeyMaterialProofs` proves, for all values of the constants that satisfy the four
named assumptions of `KeyMaterial` (configurations are well formed, bounds are
naturals, `None` is not a key pair, the initial key is a key pair or `None`):

| Theorem | Statement |
| --- | --- |
| `Invariance` | `Spec => []IndInv` |
| `TypeCorrect` | `Spec => []TypeOK` |
| `CommittedPathsOpen` | `Spec => []EveryPathOpens` |
| `ImplementsOneTimeKey` | `Spec => OneIdentity` |

`EveryPathOpens` is not inductive: it does not say why the manifest that is about
to be written is complete. `IndInv` adds, for every `pc`, what the run has already
put in the bucket (`RunInv`: at slot 2 the first package is kept, at the manifest
both packages and the public document are), and the same for every manifest that
is under way with nobody waiting for it any more (`ManifestInv`, `Backed`).

The argument is monotonicity. Lemma `StepGrows`: no step takes a leaf away, "kept"
meaning stored or known to be damaged, and no step changes a manifest. So whatever
a run has checked stays true however long its write is under way, and the case
analysis over the actions (`StepInv`) has only to look at the acting tee
(`LocalStep`, one lemma per action). `EveryPathOpens` follows from `Backed`; the
refinement from `Identified`, the part of `RunInv` that ties what a tee announces
to the manifest.

`KeyMaterialRecoveryProofs` goes on from there, under the same assumptions:

| Theorem | Statement |
| --- | --- |
| `RecoveryInvariance` | `Spec => []RecoveryIndInv` |
| `NoRunGivesUpEarly` | `Spec => NoSpuriousRefusal` |
| `ServesFirstHealthy` | `Spec => FirstHealthyKeyServes` |

Both properties speak of the moment a run ends, but what the run knows of the
first slot it learnt some steps earlier. `RecoveryInv` carries this along
(`Searching`): while a run is steady, S3 works, the public key document is intact,
and every slot before the present one is useless. Monotonicity does not help
here, since a slot could become healthy behind the run's back: an object may
appear. That it does not (`UselessStays`) rests on `ManifestInv`, and is why this
module needs the invariant of the other one: whatever a manifest names was stored
before the manifest was sent, so a missing one is damaged, and a write that
revives it ends the quiet (`LateWrite`). `FetchTells`, `OpenTells` and
`NextKeyTells` then compare, call by call, the errors that the code meets with
`HealthySlots`.

`KmsOptionsProofs` proves, for any set of encryption contexts (assumptions: the
contexts and `None` are not the other option values):

| Theorem | Statement |
| --- | --- |
| `TypeCorrect` | `Spec => []TypeOK` |
| `FailsEarly` | `Spec => []OptionsFailEarly` |
| `ContextBinds` | `Spec => []OnlyContextBinds` |

Its lemma `GeneratedOpens` compares the checks of GenerateDataKey with those of
Decrypt, client by client: what a client generates under some settings, it opens
under them. `IndInv` carries this along (`PackagesInv`: all packages of a run were
generated under its settings) and says of the manifest that both its packages
have the same context (`RecoveryInv`).

`InitScriptProofs` proves, for any deadline and number of failing calls:

| Theorem | Statement |
| --- | --- |
| `TypeCorrect` | `Spec => []TypeOK` (with it, no more polls than the deadline allows) |
| `CleansUp` | `Spec => []NothingLeftBehind` |

`NothingLeftBehind` speaks of the end only. `CleanupInv` adds what leads there:
while no call has failed, the script knows the ID of a running enclave, and
once the trap has passed the broker, no broker runs.

`BrokerS3Proofs` proves, for any threads, keys, bodies and number of requests
(assumption: `None` is no body, request or result, and the bound is a natural):

| Theorem | Statement |
| --- | --- |
| `Invariance` | `Spec => []IndInv` |
| `TypeCorrect` | `Spec => []TypeOK` (with it, no fifth attempt) |
| `KeepsStorePromise` | `Spec => StorePromise` |

`TypeOK` does not say that a thread acts on answers that are still true. `JobInv`
does, for one thread: "created" means that the key holds the thread's body, a 412
that it holds something, a read before a comparison what it holds. This stays true
whatever the others do, because the bucket only grows (`Grows`, `JobStays`), so a
step has to be looked at for the acting thread only (`OneJob`). For the refinement,
`OneSeen` says what `ConditionalStore` sees of a step of one thread, and each
action is then one of its steps (`Ask`, `Land`, `Decide`, `Lose`, `Answer`) or
nothing.

`EnclaveBrokerProofs` proves, for any callers, CIDs, configurations, prefixes,
sizes, limit, connections and starts (assumptions: sizes are naturals, an answer
adds no more to a body than a save, `None` is nothing else):

| Theorem | Statement |
| --- | --- |
| `TypeCorrect` | `Spec => []TypeOK` |
| `SettingsHold` | `Spec => []ToldHolds` |
| `SavedLoadable` | `Spec => SavedIsLoadable` |

`IndInv` says of an answer on its way why it was given (`AnswerInv`: a rejection
was justified, settings were given to a permitted CID, an object is the one in the
bucket), that whoever was told settings passes the CID check, and that a stored
object came in a frame within the limit. It is stable when brokers are started and
free names are written (`ConnStays`).

`NitroShimProofs` proves, with `None` no kind of call, answer or `Error`:

| Theorem | Statement |
| --- | --- |
| `TypeCorrect` | `Spec => []TypeOK` (nothing owned twice, nothing released twice) |
| `KeepsPromise` | `Spec => KeepsCallPromise` |

Its invariant says what each place in the code may own (`Held`), that what is
owned is what is pointed to (`Counted`), and that the copies are those of the
answer (`Carried`).

`BrokerEnvironmentProofs` proves, for any characters, spellings, files and default
(assumptions: spellings, values of `S3_PREFIX` in files and the default are
sequences of characters, the default is not `None`, the slash and `manifest` are
characters):

| Theorem | Statement |
| --- | --- |
| `AllowedBelow` | `Spec => []AllowedIsBelow` |
| `SamePlace` | `Spec => []SameSettingsSamePlace` |
| `ScriptModeHolds` | `Spec => []ScriptInitializes` |

The lemma `SamePrefix` is the point of the last two: the script exports a prefix
only over one that was exported, and then one with the same meaning.

`AllowedBelow` is about names only (`BelowIsComponents`): a key begins with a
prefix and a slash if and only if the components of the prefix are the first ones
of the key, and there are more. `Components` is a recursive function, and in
place of an induction the lemmas take the least number for which their claim
fails (`Least`, from the library's `WFMin`) and show that it fails for a smaller
one: that the function exists (`CutExists`), that cutting on only lets the last
component grow or adds further ones (`CutGrows`), that equal beginnings are cut
alike (`CutAgrees`). Where a prefix and a key part, their components part
(`Parted`). `NamesInv` says that all prefixes and keys that occur are sequences of
characters, `FileHoldsNames` and `TrimIsName` that reading and trimming keep them
so.

Every safety property of every passing run is a theorem. Only model-checked:
liveness (`RunsEnd`, `Answered`, `ScriptEnds`, `CallersReturn`), which is out of
the prover's reach.

## 5. Not modelled

* A broker host that hangs without closing the connection: `request_broker` has no
  timeout (`lib.rs:527`), and a tee that waits then waits for ever.
* The socket calls and the bytes of a frame: a frame is read or written in one
  step. vsock and TCP endpoints differ in the CID only.
* Of the settings: the formats of endpoints, ARNs, numbers, lists and encryption
  contexts. They are checked once, at the start, and a value that fails ends the
  process.
* Error messages, of the broker as of the shim.
* Cryptography, certificates and attestation: symbolic, as section 2 says.
* The gRPC service: `hello` has no state. That it listens only after a successful
  recovery is the `pc` "serving" of `KeyMaterial`.
* The build and installation scripts and `build.rs`: they run once, one command
  after the other, and keep no state that a later run reads.

## 6. Plan

Done: `KeyMaterial`, the S3 layer, the broker as a server, the native client, the
settings, the script and the KMS options, each with its proofs.

Left, extending the model:

1. `ProvisioningStore`: `KeyMaterial` over `ConditionalStore` in place of
   `inflight`, to turn the argument of section 2 into a refinement.
2. `InitSystem`: `InitScript` composed with one run of `KeyMaterial`, to say what
   the operator may conclude from the script's report.

Left, proving more: the theorems that go with these two modules. The liveness
properties stay with TLC.

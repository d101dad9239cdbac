# Formal model of the Gear sandbox syscall layer

This directory holds a TLA+ model of `src/core-backend/sandbox/src/funcs.rs`.
That file contains the host functions ("syscalls") a Gear program running in the
sandbox calls. One user of that layer is modelled too:
`src/gstd/src/prog/mod.rs`, the program-side `create_program` wrappers.
`src/utils/node-loader/src/batch_pool/context.rs` is not modelled (see
"Not modelled").

The directory also has TLC configurations that model-check the models on small
instances. TLAPS proofs cover every invariant and action property of the
passing runs, and the refinement of an abstract per-call specification.

## The system

A guest call runs one Wasm export of a program in the sandbox. While it runs,
the guest issues syscalls. Each syscall is a `FuncsHandler::<name>` function.
Every handler follows the same steps, and each step can end the call:

1. **Argument codec.** `pop_i32` / `pop_i64` convert each raw `Value` with
   `TryFrom` into the type the handler needs: `u32` pointers, `usize` indexes,
   `u64` gas. `return_i32` / `return_i64` convert a host value back. A failed
   conversion is `Err(HostError)`, and **no reason is recorded**.
2. **Guest-memory reads.** `read_memory` / `read_memory_as` run in code order.
   The first one out of bounds, or a payload above the maximum size, fails the
   call with `FuncError::Memory` or `FuncError::PayloadSize`.
3. **The Ext call.** Examples are `send`, `reply`, `send_init`, `send_push`,
   `create_program` and `exit`. `process_error()` turns a fatal error into
   `FuncError::Core`. A domain error becomes a status code: the length of the
   error, which Ext also keeps as `last_error`.
4. **The output write.** `error_len_on_success` writes the new message id or
   handle to guest memory. It runs after the Ext call has taken effect.
5. **The result.** `Ok(code as i32)`, or `ctx.err = err; Err(HostError)`.
   The control-flow syscalls (`exit`, `leave`, `wait*`, `forbidden`) always
   return `Err(HostError)` with a `Terminated` reason in `ctx.err`.

After a trap, the host reads `ctx.err` with `into_termination_reason`. A
`Terminated(r)` reason becomes `r`. Any other error becomes `Trap(Other(..))`.

Runtime (guest memory, the page allocator, `write_validated_output`) and Ext
(the message queue, builder handles, the reply buffer and `last_error`) are
not under `src/`. They are modelled from the spec, as the least state the
handlers observe, and are marked `spec_modelled` in `PROJECT.json`.

### Inventory

| component | state | operations | modelled in |
|---|---|---|---|
| argument codec | none | pop_i32, pop_i64, return_i32, return_i64, `as i32` | `ArgCodec` |
| syscall handlers | guest call phase, `ctx.err`, return value | the 38 handlers | `Syscalls` |
| trap context / termination | `ctx.err` | `into_termination_reason` | `Syscalls` (`err`, `Termination`) |
| Runtime (spec) | guest memory, allocated pages | read/write memory, alloc, free | `Syscalls` (`mem`, `allocated`) |
| Ext (spec) | outbox, handles, reply buffer, replied flag, last error | send*, reply*, *_push, send_init, create_program*, exit, gas | `Syscalls` (`extVars`) |
| abstract call outcome (spec) | phase, trap reason, queued messages | queue, return, trap | `CallOutcome` |
| gstd `prog` | the `Result<ActorId>` returned | `create_program*` through `gcore::prog` | `GstdProg` |
| node-loader `batch_pool::Context` | two `BTreeSet`s | `From<Report>`, `update` (set union) | not modelled |

The hard behaviours of this code are these:
- A step can fail after another step has already taken effect. For example,
  a message is queued and then the id write fails.
- A trap can leave no reason at all.
- Integer conversions fail at their boundaries: `i32` to `u32` or `usize`,
  `u64` to `i64`, and `u32 as i32`.
- Builder protocols: `send_init`, then `send_push`, then `send_commit`.
- `error` only makes sense after an earlier failure.

There is no concurrency inside a guest call, because handlers run one at a
time on the guest's thread. The interleaving that matters is therefore the
order of syscalls, and the model checks every order up to `MaxCalls`.

## Modules

- **`ArgCodec`** holds the integer types and conversions. The widths are given
  by the moduli `Mod32`, `Mod64` and `ModUsize` (2^32, 2^64, 2^usize-bits).
  `CodecAssumption` says that each modulus is a power of two, and that `usize`
  holds every `u32`, as it does on the 32- and 64-bit targets Gear builds for.
  `Fits(v, T)` is the `TryFrom`/`TryInto` check. `AsI32` is the
  two's-complement cast. `CheckedAdd` is `usize::checked_add`. The module
  also proves lemmas about these operators (see Proofs).
- **`Syscalls`** models one guest call. Its variables:
  - `phase`: Running, Trapped or Returned;
  - `err`: `ctx.err`;
  - `ret`: the value returned to the guest;
  - `sys`: the last syscall;
  - `calls`: the number of syscalls so far, bounded by `MaxCalls`;
  - `mem`: guest memory;
  - the Ext state.

  Each handler is one action with the handler's name. It models the whole
  handler:
  - the pops (`PopFailed`: HostError, nothing else changes);
  - the reads in code order (`CheckFailed` with `FirstFailure`);
  - the Ext outcome, which is fatal (`ExtFatal`), a domain error, or success
    (`ExtStatus`, `PushStatus`);
  - the write of the id;
  - the status code.

  The `*_wgas` variants share an operator with the plain handler
  (`SendMsg`, `SendCommit`, `ReplyMsg`, `ReplyCommit`, `CreateProgram`).
  `GuestReturn` is the guest finishing normally. `Finished` is the host
  reading the result, which `Termination` maps as `into_termination_reason`
  does.
- **`MC_Syscalls`** is the TLC instance. It gives the sets with negative
  numbers and the per-family specifications `SpecControl`, `SpecMessages`
  and `SpecCreate`.
- **`SyscallsProofs`** holds the TLAPS proofs about `ctx.err`
  (`NoErrorPending`, `ReadNeverOverflows`).
- **`SyscallsTypes`** holds the TLAPS proof of type correctness
  (`TypeCorrect`).
- **`SyscallsActions`** holds the TLAPS proofs of the two action
  properties (`ControlFlow`, `StatusContract`).
- **`CallOutcome`** is the abstract specification of one guest call, as
  the host sees it. Its variables are `phase`, `err` (the trap reason) and
  `outbox` (the queued messages). Its actions:
  - `Queue` appends one message, and no second reply;
  - `Return` ends the call normally;
  - `Trap` ends it with a reason, having queued at most one message.
  `Syscalls` instantiates it with the identity mapping (`Outcome`).
  No run checks `OutcomeSpec`: on the control family it says no more than
  `NoErrorPendingWhileRunning`, and its one-reply clause rests on the
  `~replied` guard of the spec-modelled Ext, which `funcs.rs` only
  forwards to. It stays as the target of the refinement theorem.
- **`SyscallsRefinement`** proves that refinement with TLAPS (see Proofs).
- **`GstdProg`** composes gstd's `create_program` and
  `create_program_with_gas` with the syscall layer. `gcore` is not under
  `src/`, so the part between them is spec-modelled (`GstdCreate`,
  `GcoreResult`):
  - gcore passes pointers into its own stack, so every range lies in
    guest memory;
  - status 0 reads the id back from the out-buffer, which gives `Ok(id)`;
  - any other status becomes `Err(len)`. gcore's own `gr_error` fetch of
    the error on a nonzero status is left out; `len` stands for that error.
  The `_delayed` variants differ only in a delay that goes to Ext unread,
  so they are the same actions. `result` is the value returned to the
  program.
- **`GstdProgProofs`** proves `GstdResultContract` for the composed gstd
  program (`GstdResult`).

The data is abstracted:
- A byte is one of two model values `a`, `b`, or a small id.
- An id is the position of its message in the outbox.
- The error passed to `ctx.err` is its `FuncError` variant plus the numbers
  `read` puts in it.
- Error text is left out.

## Runs

| run | cfg | checks | expect |
|---|---|---|---|
| control | `MC_control.cfg` | `TypeOK`, `NoErrorPendingWhileRunning`, `NoReadLenOverflow`, `ControlFlowTerminates` | pass |
| messages | `MC_messages.cfg` | `TypeOK`, `NoErrorPendingWhileRunning`, `StatusCodeContract` | pass |
| create | `MC_create.cfg` | `StatusCodeContract` | pass |
| trap_unexplained | `MC_trap_unexplained.cfg` | `TrapAlwaysExplained` | violation |
| exit_discards | `MC_exit_discards.cfg` | `ExitAlwaysExits` | violation |
| dispatch_then_trap | `MC_dispatch_then_trap.cfg` | `NoDispatchOnTrap` | violation |
| gstd | `MC_gstd.cfg` | `GstdResultContract` | pass |

What the properties say:
- **`NoErrorPendingWhileRunning`:** `ctx.err` holds an error only after the
  call trapped. A reason is never recorded on a path that then returns to
  the guest.
- **`StatusCodeContract`:** a status-returning handler that returns to the
  guest does one of two things:
  - it returns 0, leaves `last_error` alone, and has written the new id if
    it dispatched;
  - it returns exactly the recorded error length, and changed neither memory
    nor the Ext state.
- **`ControlFlowTerminates`:** `exit`, `leave`, `wait*` and `forbidden` never
  return to the guest, and the reason they record is their own.
- **`NoReadLenOverflow`:** the `checked_add` in `read` never fails.
- **`GstdResultContract`:** a gstd `create_program*` call that returns to
  the program does one of two things:
  - it returns `Ok(id)` after queuing exactly one init message, and `id`
    is that message's id;
  - it returns `Err(len)` after queuing nothing, and `len` is what a later
    `error` call reports.
- **`TrapAlwaysExplained`** (violation run): a handler that fails after
  its arguments decoded has stored a reason before it traps. The spec
  sanctions two exceptions, and the run leaves both out:
  - a codec failure aborts with no payload (spec 4.1), so the instance
    uses only arguments and host values that convert (`Args32 = {0,1}`,
    in-range heights, timestamps and gas);
  - `gas_available`'s reasonless trap is the spec's open question (9), so
    the property exempts it.

**Bounds.**
- `Mod32 = 16` and `Mod64 = 32` scale the `i32`/`i64` boundaries down.
- `Args32 = {-1,0,1,2}` (or `{-1,0,1}`) and `Args64 = {-1,3}` put the negative
  values, zero, the in-range values and the out-of-memory pointers into every
  argument position.
- `MemSize` is 1 or 2 bytes, so some pointer is always out of bounds.
- `ErrLens = {1,2}` gives two domain-error lengths.
- `MaxPages = 2` lets `alloc` run out of pages.
- `MaxPayload = 1` makes a 2-byte payload too long.
- `MaxCalls` is 2 or 3 calls. That is enough for the sequences the
  properties are about:
  - `send_init` / `send_push` / `send_commit`;
  - a failure followed by `error`;
  - two replies;
  - alloc, then free, then alloc.

The runs are split by syscall family because one step of the full `Next`
enumerates every argument tuple of every handler.

The gstd run uses `MemSize = 2`, so an id fits the out-buffer and
salt/payload ranges can be empty or one byte. It uses `MaxCalls = 2`, so a
second create follows a first.

**Fairness.** None is assumed, and no liveness property is claimed. A guest
call is a bounded sequence of syscalls chosen by the guest, and nothing in
the code forces it to make progress. `Finished` lets a finished call stutter,
so deadlock checking stays on.

## Findings

1. **`gas` traps without a reason** (`trap_unexplained`). funcs.rs:444-452
   records a reason only for `GasAllowanceExceeded`. Any other Ext error
   becomes `HostError` with `ctx.err` left empty. The counterexample is a
   single `gas(0)` call whose Ext error is not the allowance. The spec's
   handler template (4.3) says the structured error is stored first, and
   7 says an unmatched error becomes `Trap(Other)`. The spec sanctions the
   codec's reasonless aborts (4.1) and flags `gas_available` (9), but says
   nothing of `gas`. The host finds `ctx.err` empty, never a stale reason:
   `NoErrorPending` proves none is recorded while the call runs.
2. **`exit` does not discard the Ext error** (`exit_discards`).
   funcs.rs:409 propagates `ext.exit()`'s error with `?`, so the call ends
   with `Core` instead of `Exit(beneficiary)`.
3. **A message is dispatched before a trap** (`dispatch_then_trap`).
   `error_len_on_success` writes the id after `ext.send` has queued the
   message. A bad `message_id_ptr` traps with the message still queued.

## Proofs

Every theorem holds for every value of the constants that satisfies
`CodecAssumption` and `SyscallsAssumption`. The assumptions a proof needs are
these:
- `Mod32` is a positive even power of two;
- `ModUsize >= Mod32`, so `usize` holds every `u32`;
- `MaxPages` is a `u32`;
- `MaxCalls` is a natural number;
- the argument sets lie in `i32` / `i64`;
- for `StatusContract` only, `ErrLensAssumption`: an Ext error length is
  below `Mod32 / 2`.

`ErrLensAssumption` is about the `code as i32` cast with which every status
handler returns the error length (for example funcs.rs:195). A length of
`2^31` or more would come back to the guest as a negative number, not as the
length. The length is that of the encoded `ExtError`, a few bytes, so the
assumption holds in the code. Without it, `ArgCodec`'s `AsI32Zero` still
shows that a nonzero length never becomes status 0.

**`ArgCodec`** (lemmas about the codec, for every width):
- `AsI32Bijection`: `as i32` maps `u32` onto `i32`, one to one.
- `AsI32Zero`: the cast of a `u32` is 0 only for 0, so a failed call is
  never reported as a success.
- `Widening`: every `u32` fits `u64` and `usize`, and `pop_i32::<u32>`
  fails exactly on negative arguments.

**`SyscallsProofs`**:
- `THEOREM NoErrorPending == Spec => []NoErrorPendingWhileRunning`. The
  invariant is inductive on its own. The argument:
  - The lemmas `EndsOfHandler`, `StatusEnds` and the per-shape lemmas
    (`SendMsgEnds` ...) show that every handler ends in `HandlerEnd`. A
    handler either sets `phase' = "Trapped"` or leaves both `phase` and
    `err` unchanged.
  - The family lemmas (`MessageEnds`, `ControlEnds`, `QueryEnds`,
    `MemoryEnds`) lift this to `Next`.
  - `GuestReturn` leaves `err` alone.
- `THEOREM ReadNeverOverflows == Spec => []NoReadLenOverflow`. It uses the
  same handler-end structure, with `HandlerEnd` also saying that the
  recorded reason is never `ReadLenOverflow`. The one handler that can
  record it is `read`. `ReadSumFits` shows that `checked_add(at, len)`
  succeeds, because both arguments passed `pop_i32::<u32>` from an `i32`,
  so each is below `Mod32 / 2`. Their sum is therefore below
  `Mod32 <= ModUsize`.

**`SyscallsTypes`**: `THEOREM TypeCorrect == Spec => []TypeOK`.
- `TypeOK` is not inductive. A status handler writes the id of the message
  it dispatched, `Len(outbox) + 1`, or of the handle it opened,
  `Len(handles)`, into guest memory. That value is a memory cell only if it
  is at most `MaxCalls`.
- The strengthening is therefore
  `TypeInv == TypeOK /\ Len(outbox) <= calls /\ Len(handles) <= calls`.
  It holds because a syscall dispatches or opens at most one entry. Before
  the proof, TLC checked it as an invariant of the three passing runs'
  models.
- `InitType`, `NextType` and `TypeInv => TypeOK` give the theorem by PTL.
- `NextType` has one lemma per handler shape, for example `SendMsgType`,
  `StatusType` (`error_len_on_success`) and `HandleUpdate` (the builder
  `EXCEPT`s). Family lemmas combine them.

The proofs are split by handler shape because one obligation for all 38
handlers is too large for the provers.

**`SyscallsRefinement`**: `THEOREM Refinement == Spec => Outcome!Spec`,
for every value of the constants. No run checks `OutcomeSpec` (see
Modules). The argument:
- `InitRefines`: the initial state maps to `CallOutcome`'s initial state.
- `StepRefines`: every step maps to a `CallOutcome` step or a stutter. It
  has one case per syscall family, one for `GuestReturn` (`Return`) and one
  for `Finished` (a stutter). Each family case needs three facts:
  - `HandlersRun`: a handler runs only while the call runs;
  - `HandlerEnd`, reused from `SyscallsProofs`;
  - `OutStep`: the handler leaves `outbox` and `replied` alone, or appends
    one message, and a reply only when `replied` was false, setting it.
    The `*Keeps` lemmas prove this for the families that queue nothing.
    `MessageOut` proves it for the message family, from `ExtStatus` /
    `PushStatus` (`StatusOut`).
  `HandlerStep` turns these three facts into a `CallOutcome` step.
- The invariant needed is `RInv == TypeInv /\ RepliedMatches`.
  `RepliedMatches` says Ext's `replied` flag is set exactly when the outbox
  holds a reply. Without it, `reply_commit`'s guard on `replied` does not
  imply `CallOutcome`'s guard on the outbox. `TypeInv` gives that a queued
  message is a `Msg` and a reason an `ErrType`. TLC checked
  `RepliedMatches` on the messages model before the proof.

**`SyscallsActions`**: the two action properties, each proved as
`Spec => [][Step]_vars` from `TypeInv` (see `SyscallsTypes`) by PTL.
- `THEOREM ControlFlow == Spec => ControlFlowTerminates`. Two facts go into
  `ControlFlowStepHolds`:
  - `ControlReasons`: `exit`, `leave`, `wait*` and `forbidden` trap, and
    `gas` records `GasAllowanceExceeded` when it records a `Terminated`
    reason. Each handler records its own reason.
  - The `*Plain` lemmas: every other handler leaves `err` alone or records
    a kind outside `TerminatedKinds`.

  The lemma also needs the invariant `NoErrorPendingWhileRunning`. A step
  that leaves `err` alone keeps a reason that is already recorded, and a
  running call has none. `NotIssued` covers `GuestReturn` and `Finished`.
- `THEOREM StatusContract == Spec => StatusCodeContract`. `StatusCasts`
  gives `AsI32(0) = 0` and `AsI32(l) = l # 0` for each error length.
  `ExtStatusReturns` and `PushStatusReturns` show that
  `error_len_on_success` / `error_len` return `StatusReturn`. The message
  shapes (`SendMsgStatus` ... `CreateProgramStatus`) combine this with
  `DispatchId`, which says the id written is `Len(outbox')`, and with
  `FailuresTrap`, which says a failed pop or read never returns.

**`GstdProgProofs`**: `THEOREM GstdResult == GSpec => GstdResultContract`.
- `TypeInv` does not carry over to the gstd program. gcore's pointers range
  over all of guest memory, not over `Args32`. Its memory holds ids up to
  `MaxCalls` and error bytes.
- The proof uses its own inductive invariant `GTypeInv`: memory maps
  `Addr` to cells or naturals, and the outbox is a sequence of messages
  over them. TLC checked it on the gstd model before the proof.
- `GCreateType` and `GErrorType` show that `GTypeInv` is preserved.
  `InitMsgType` shows the queued `InitPacket` is well formed, because
  gcore's payload range lies in memory.
- `GCreateResult` follows each branch of `CreateProgram`:
  - a failed pop or read, a fatal Ext error and a bad id pointer trap;
  - a domain error returns `AsI32(l) # AsI32(0)`, so gcore yields
    `Err(l)` and nothing is queued;
  - success writes `NextId = Len(outbox')` at `prp` and returns 0, so gcore
    reads the new message's id back.
- `GNextResult` adds `error` (another syscall) and the steps that issue
  none.

**Only model-checked:** the properties of the violation runs
(`TrapAlwaysExplained`, `ExitAlwaysExits`, `NoDispatchOnTrap`). They state
what the code does not do, and TLC's counterexamples show that. Every
property of a passing run has a theorem.

The conversions at the real 32/64-bit widths are covered by the
width-generic proofs. TLC itself runs at 2^4/2^5. Liveness and `ENABLED` are
out of TLAPS's reach, and no liveness is claimed. No recursive operator is
used, so every module is open to the prover.

## Not modelled

- `src/utils/node-loader/src/batch_pool/context.rs`: `Context::update`
  appends two `BTreeSet`s whose element types are fixed by `ProgramId` and
  `CodeId`. It has no control flow, ordering or failure, so a model could
  only restate the union.
- The `Value` tag check of `pop_i32`/`pop_i64`: arity and widths are fixed
  by the host binding (spec 4.1), so only argument values are up to the
  guest.

## Plan for later work

- Refine `CallOutcome` further so it also states the status code returned
  to the guest.
- Add a history of the handle protocol, so the model can state
  "send_commit dispatches exactly the pushed payload" end to end.

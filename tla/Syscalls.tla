------------------------------ MODULE Syscalls ------------------------------
(***************************************************************************)
(* One guest call of the sandbox backend: the guest issues syscalls one    *)
(* after another, each served by a handler of FuncsHandler                 *)
(* (src/core-backend/sandbox/src/funcs.rs).  A handler either returns a    *)
(* value to the guest or returns HostError, which traps the sandbox and    *)
(* ends the call; the structured reason of a trap travels in the trap      *)
(* context ctx.err, which the host reads after the call.                   *)
(*                                                                         *)
(* The handlers call two collaborators that are not in src/: the          *)
(* bounds-checked guest memory of Runtime and the extension Ext.  They are *)
(* modelled from the spec, at the level of detail the handlers' control    *)
(* needs: a fixed-size value (an id, a u128, a u32) occupies one memory   *)
(* cell, and an Ext operation either succeeds, fails with a guest-visible  *)
(* error (recorded as the last error, with the length of its encoding), or *)
(* fails fatally.                                                          *)
(***************************************************************************)
EXTENDS Integers, Sequences, FiniteSets, ArgCodec

CONSTANTS
    MemSize,     \* number of cells of guest linear memory
    Data,        \* values a memory cell or an Ext accessor may hold
    BadUtf8,     \* the cells of Data that are not valid UTF-8
    Args32,      \* raw Value::I32 arguments the guest passes
    Args64,      \* raw Value::I64 gas-limit arguments the guest passes
    Payload,     \* payload of the message being handled (ext.read())
    MaxPayload,  \* largest payload a Payload (PayloadSizeError) accepts
    MaxBuffer,   \* largest RuntimeBuffer (RuntimeBufferSizeError)
    ErrLens,     \* lengths of the encodings of guest-visible Ext errors
    Heights,     \* block heights ext.block_height() may return (u32)
    Stamps,      \* timestamps ext.block_timestamp() may return (u64)
    GasLeft,     \* amounts ext.gas_available() may return (u64)
    ExitCodes,   \* exit codes of a reply ext.exit_code() may return (i32)
    MaxPages,    \* pages of memory ext.alloc may hand out
    ErrByte,     \* a byte of the encoding of an Ext error
    MaxCalls     \* bound on the syscalls of one guest call

ASSUME SyscallsAssumption ==
    /\ MemSize \in Nat \ {0}
    /\ BadUtf8 \subseteq Data /\ ErrByte \notin Data
    /\ Args32 \subseteq I32 /\ Args64 \subseteq I64
    /\ MaxPayload \in Nat /\ MaxBuffer \in Nat
    /\ Payload \in Seq(Data) /\ Len(Payload) <= MaxPayload
    /\ ErrLens \subseteq U32 \ {0}
    /\ Heights \subseteq U32 /\ Stamps \subseteq U64
    /\ GasLeft \subseteq U64 /\ ExitCodes \subseteq I32
    /\ MaxPages \in U32 /\ MaxCalls \in Nat

\* The encoding of an Ext error is a few bytes long, so its length keeps
\* its value through the `code as i32' cast of the status handlers.
ASSUME ErrLensAssumption == ErrLens \subseteq 1 .. Mod32 \div 2 - 1

Addr == 0 .. MemSize - 1
Ids == 0 .. MaxCalls                 \* message, program and handle ids
Cells == Data \cup Ids \cup {ErrByte}
NoGas == 0                           \* stands for the absent gas limit
Unit == << >>                        \* ReturnValue::Unit
Val(v) == <<v>>                      \* Value::I32(v) / Value::I64(v)

\* FuncError: kind is the variant, arg the tuple of its payload.  Exit,
\* Leave, Wait and GasAllowanceExceeded are the Terminated(reason) variants.
ErrKinds == {"None", "Core", "RuntimeCtx", "Memory", "PayloadSize",
             "RuntimeBufferSize", "NonReplyExitCode", "NoReplyContext",
             "DebugString", "SyscallErrorExpected", "ReadWrongRange",
             "ReadLenOverflow", "Exit", "Leave", "Wait",
             "GasAllowanceExceeded"}
TerminatedKinds == {"Exit", "Leave", "Wait", "GasAllowanceExceeded"}
Err(kind, arg) == [kind |-> kind, arg |-> arg]
E(kind) == Err(kind, << >>)
NoErr == E("None")                   \* the trap context before any trap

\* FuncError::into_termination_reason: a Terminated reason as it is, any
\* other error as a generic Trap naming it.
into_termination_reason(e) ==
    IF e.kind \in TerminatedKinds THEN e ELSE Err("Trap", <<e.kind>>)

Syscall == {"send", "send_wgas", "send_commit", "send_commit_wgas",
            "send_init", "send_push", "read", "size", "exit", "exit_code",
            "gas", "alloc", "free", "block_height", "block_timestamp",
            "origin", "reply", "reply_wgas", "reply_commit",
            "reply_commit_wgas", "reply_to", "reply_push", "debug",
            "gas_available", "msg_id", "program_id", "source", "value",
            "value_available", "leave", "wait", "wait_for", "wait_up_to",
            "wake", "create_program", "create_program_wgas", "error",
            "forbidden"}

VARIABLES
    phase,      \* "Running", "Trapped" (a handler returned HostError) or
                \* "Returned" (the guest's entry point returned)
    err,        \* ctx.err, the trap context
    ret,        \* the value the last syscall returned to the guest
    sys,        \* the last syscall the guest issued
    calls,      \* number of syscalls issued so far
    mem,        \* guest memory
    outbox,     \* Ext: messages dispatched so far, in order
    handles,    \* Ext: message builders opened by send_init
    replyBuf,   \* Ext: payload pushed by reply_push
    replied,    \* Ext: a reply has been sent
    lastError,  \* Ext: length of the last guest-visible error, 0 if none
    allocated   \* Ext: pages allocated by alloc

ctlVars == <<phase, err, ret>>
extVars == <<outbox, handles, replyBuf, replied, lastError, allocated>>
vars == <<phase, err, ret, sys, calls, mem, outbox, handles, replyBuf,
          replied, lastError, allocated>>

Msg == [kind : {"send", "reply", "init"}, to : Cells, payload : Seq(Cells)]
Handle == [open : BOOLEAN, payload : Seq(Cells)]

\* A trap reason carries nothing, a cell, or read's three indexes.
ErrType == [kind : ErrKinds,
            arg : {<< >>} \cup {<<c>> : c \in Cells} \cup (Nat \X Nat \X Nat)]
RetType == {Unit} \cup {Val(v) : v \in I32 \cup I64}

TypeOK ==
    /\ phase \in {"Running", "Trapped", "Returned"}
    /\ err \in ErrType
    /\ ret \in RetType
    /\ sys \in Syscall \cup {"none"}
    /\ calls \in 0 .. MaxCalls
    /\ mem \in [Addr -> Cells]
    /\ outbox \in Seq(Msg)
    /\ handles \in Seq(Handle)
    /\ replyBuf \in Seq(Cells)
    /\ replied \in BOOLEAN
    /\ lastError \in {0} \cup ErrLens
    /\ allocated \in SUBSET (0 .. MaxPages - 1)

Init ==
    /\ phase = "Running"
    /\ err = NoErr
    /\ ret = Unit
    /\ sys = "none"
    /\ calls = 0
    /\ mem \in [Addr -> Data]
    /\ outbox = << >>
    /\ handles = << >>
    /\ replyBuf = << >>
    /\ replied = FALSE
    /\ lastError = 0
    /\ allocated = {}

-----------------------------------------------------------------------------
(* Guest memory (Runtime, spec-modelled): bounds-checked reads and writes. *)

\* read_memory(p, n), read_memory_as(p) (n = 1), write_output(p, bytes):
\* the range [p, p + n) must lie in memory.
InMem(p, n) == p + n <= MemSize
ReadBytes(p, n) == [i \in 1 .. n |-> mem[p + i - 1]]
WriteBytes(p, s) ==
    [a \in Addr |-> IF p <= a /\ a < p + Len(s) THEN s[a - p + 1] ELSE mem[a]]

\* The reads a handler makes before it calls Ext, as <<ok, error>> pairs in
\* the order of the code; the first that fails is the error of the call.
FirstFailure(checks, i) ==
    /\ ~checks[i][1]
    /\ \A j \in 1 .. i - 1 : checks[j][1]
AllPass(checks) == \A i \in DOMAIN checks : checks[i][1]
ReadPtr(p) == <<InMem(p, 1), E("Memory")>>
ReadRange(p, n) == <<InMem(p, n), E("Memory")>>
ToPayload(n) == <<n <= MaxPayload, E("PayloadSize")>>

-----------------------------------------------------------------------------
(* The ends of a handler.                                                  *)

\* `ctx.err = e; Err(HostError)'.
Trap(e) == phase' = "Trapped" /\ err' = e /\ UNCHANGED ret
\* `Err(HostError)' with ctx.err left as it is (a failed pop_i32,
\* return_i32 or ...).
HostError == phase' = "Trapped" /\ UNCHANGED <<err, ret>>
\* `Ok(v)'.
Return(v) == ret' = v /\ UNCHANGED <<phase, err>>

\* Every handler: the guest is running and issues syscall s.
Issue(s) ==
    /\ phase = "Running"
    /\ calls < MaxCalls
    /\ calls' = calls + 1
    /\ sys' = s

\* A syscall whose argument conversion failed: HostError, nothing touched.
PopFailed(args) ==
    /\ \E i \in DOMAIN args : ~Fits(args[i], U32)
    /\ HostError
    /\ UNCHANGED <<mem, extVars>>
PopsOk(args) == \A i \in DOMAIN args : Fits(args[i], U32)

\* One of the pre-checks failed: trap with its error, nothing touched.
CheckFailed(checks) ==
    /\ \E i \in DOMAIN checks : FirstFailure(checks, i) /\ Trap(checks[i][2])
    /\ UNCHANGED <<mem, extVars>>

\* An Ext call failed fatally (process_error() = Err): FuncError::Core.
ExtFatal == Trap(E("Core")) /\ UNCHANGED <<mem, extVars>>

-----------------------------------------------------------------------------
(* Control-flow family: these handlers never return a value.               *)

\* exit: read the beneficiary, call ext.exit(), then Terminated(Exit).  An
\* error of ext.exit() is propagated with `?', not discarded.
exit ==
    /\ Issue("exit")
    /\ \E p \in Args32 :
        \/ PopFailed(<<p>>)
        \/ /\ PopsOk(<<p>>)
           /\ CheckFailed(<<ReadPtr(p)>>)
        \/ /\ PopsOk(<<p>>) /\ InMem(p, 1)
           /\ \/ ExtFatal
              \/ Trap(Err("Exit", <<mem[p]>>)) /\ UNCHANGED <<mem, extVars>>

\* leave / wait: the hook's own error, or else Terminated(Leave | Wait(None)).
leave ==
    /\ Issue("leave")
    /\ \/ ExtFatal
       \/ Trap(E("Leave")) /\ UNCHANGED <<mem, extVars>>

wait ==
    /\ Issue("wait")
    /\ \/ ExtFatal
       \/ Trap(E("Wait")) /\ UNCHANGED <<mem, extVars>>

\* Fault variant: the duration is dropped, Wait(None) is recorded.
WaitDropsDuration(s) ==
    /\ Issue(s)
    /\ \E p \in Args32 :
        \/ PopFailed(<<p>>)
        \/ /\ PopsOk(<<p>>) /\ InMem(p, 1)
           /\ Trap(E("Wait")) /\ UNCHANGED <<mem, extVars>>

\* wait_for / wait_up_to: read the duration, call the hook, then
\* Terminated(Wait(Some(duration))).
WaitWithDuration(s) ==
    /\ Issue(s)
    /\ \E p \in Args32 :
        \/ PopFailed(<<p>>)
        \/ /\ PopsOk(<<p>>)
           /\ CheckFailed(<<ReadPtr(p)>>)
        \/ /\ PopsOk(<<p>>) /\ InMem(p, 1)
           /\ \/ ExtFatal
              \/ Trap(Err("Wait", <<mem[p]>>)) /\ UNCHANGED <<mem, extVars>>

wait_for == WaitWithDuration("wait_for")

wait_up_to == WaitWithDuration("wait_up_to")

\* forbidden: FuncError::Core(forbidden_function()).
forbidden ==
    /\ Issue("forbidden")
    /\ Trap(E("Core"))
    /\ UNCHANGED <<mem, extVars>>

\* wake: read the message id and the delay, then ext.wake; it returns.
wake ==
    /\ Issue("wake")
    /\ \E wp, dp \in Args32 :
        \/ PopFailed(<<wp, dp>>)
        \/ /\ PopsOk(<<wp, dp>>)
           /\ CheckFailed(<<ReadPtr(wp), ReadPtr(dp)>>)
        \/ /\ PopsOk(<<wp, dp>>) /\ InMem(wp, 1) /\ InMem(dp, 1)
           /\ \/ ExtFatal
              \/ Return(Unit) /\ UNCHANGED <<mem, extVars>>

-----------------------------------------------------------------------------
(* Query family.                                                           *)

\* size: ext.size(), then return_i32.
size ==
    /\ Issue("size")
    /\ UNCHANGED <<mem, extVars>>
    /\ \/ Trap(E("Core"))
       \/ Fits(Len(Payload), I32) /\ Return(Val(Len(Payload)))
       \/ ~Fits(Len(Payload), I32) /\ HostError

\* Fault variant: the u64 timestamp is returned without return_i64.
block_timestamp_unchecked ==
    /\ Issue("block_timestamp")
    /\ UNCHANGED <<mem, extVars>>
    /\ \/ Trap(E("Core"))
       \/ \E t \in Stamps : Return(Val(t))

\* block_height (u32 -> i32) and block_timestamp (u64 -> i64): the Ext
\* error is recorded, a failed return_i32/return_i64 is not.
block_height ==
    /\ Issue("block_height")
    /\ UNCHANGED <<mem, extVars>>
    /\ \/ Trap(E("Core"))
       \/ \E h \in Heights :
            \/ Fits(h, I32) /\ Return(Val(h))
            \/ ~Fits(h, I32) /\ HostError

block_timestamp ==
    /\ Issue("block_timestamp")
    /\ UNCHANGED <<mem, extVars>>
    /\ \/ Trap(E("Core"))
       \/ \E t \in Stamps :
            \/ Fits(t, I64) /\ Return(Val(t))
            \/ ~Fits(t, I64) /\ HostError

\* gas_available: neither its Ext error nor a failed return_i64 is
\* recorded in the trap context.
gas_available ==
    /\ Issue("gas_available")
    /\ UNCHANGED <<mem, extVars>>
    /\ \/ HostError
       \/ \E g \in GasLeft :
            \/ Fits(g, I64) /\ Return(Val(g))
            \/ ~Fits(g, I64) /\ HostError

\* exit_code: outside a reply ext.exit_code() is None: NonReplyExitCode.
exit_code ==
    /\ Issue("exit_code")
    /\ UNCHANGED <<mem, extVars>>
    /\ \/ Trap(E("Core"))
       \/ Trap(E("NonReplyExitCode"))
       \/ \E c \in ExitCodes : Return(Val(c))

\* origin, msg_id, program_id, source, value, value_available: ask Ext
\* for a fixed-size value and write it to the guest's pointer.
WriteQueried(s) ==
    /\ Issue(s)
    /\ \E p \in Args32 :
        \/ PopFailed(<<p>>)
        \/ /\ PopsOk(<<p>>)
           /\ \/ ExtFatal
              \/ /\ ~InMem(p, 1)
                 /\ Trap(E("Memory")) /\ UNCHANGED <<mem, extVars>>
              \/ /\ InMem(p, 1)
                 /\ \E v \in Data : mem' = [mem EXCEPT ![p] = v]
                 /\ Return(Unit) /\ UNCHANGED extVars

origin == WriteQueried("origin")

msg_id == WriteQueried("msg_id")

program_id == WriteQueried("program_id")

source == WriteQueried("source")

value == WriteQueried("value")

value_available == WriteQueried("value_available")

\* Fault variant: NoReplyContext is recorded but the handler returns Ok.
reply_to_returns ==
    /\ Issue("reply_to")
    /\ \E p \in Args32 :
        \/ PopFailed(<<p>>)
        \/ /\ PopsOk(<<p>>)
           /\ \/ ExtFatal
              \/ /\ err' = E("NoReplyContext") /\ UNCHANGED <<phase, ret>>
                 /\ UNCHANGED <<mem, extVars>>

\* reply_to: None outside a reply (NoReplyContext), else write the id.
reply_to ==
    /\ Issue("reply_to")
    /\ \E p \in Args32 :
        \/ PopFailed(<<p>>)
        \/ /\ PopsOk(<<p>>)
           /\ \/ ExtFatal
              \/ Trap(E("NoReplyContext")) /\ UNCHANGED <<mem, extVars>>
              \/ /\ ~InMem(p, 1)
                 /\ Trap(E("Memory")) /\ UNCHANGED <<mem, extVars>>
              \/ /\ InMem(p, 1)
                 /\ \E v \in Data : mem' = [mem EXCEPT ![p] = v]
                 /\ Return(Unit) /\ UNCHANGED extVars

-----------------------------------------------------------------------------
(* Memory and diagnostic families.                                         *)

\* Fault variant: at and len converted with a wrapping `as usize'.
read_wrapping ==
    /\ Issue("read")
    /\ \E at0, len0, dest \in Args32 :
        LET at == IF at0 < 0 THEN at0 + ModUsize ELSE at0
            len == IF len0 < 0 THEN len0 + ModUsize ELSE len0
            last == CheckedAdd(at, len)
        IN \/ ~Fits(dest, U32) /\ HostError /\ UNCHANGED <<mem, extVars>>
           \/ /\ Fits(dest, U32) /\ UNCHANGED <<mem, extVars>>
              /\ last = -1
              /\ Trap(Err("ReadLenOverflow", <<at, len, 0>>))

\* read(at, len, dest): write_validated_output runs the producer (ext.read,
\* checked_add, range check) and writes the slice it returns to dest.
read ==
    /\ Issue("read")
    /\ \E at, len, dest \in Args32 :
        \/ PopFailed(<<at, len, dest>>)
        \/ /\ PopsOk(<<at, len, dest>>)
           /\ UNCHANGED extVars
           /\ LET last == CheckedAdd(at, len) IN
              \/ Trap(E("Core")) /\ UNCHANGED mem
              \/ /\ last = -1
                 /\ Trap(Err("ReadLenOverflow", <<at, len, 0>>))
                 /\ UNCHANGED mem
              \/ /\ last # -1 /\ last > Len(Payload)
                 /\ Trap(Err("ReadWrongRange", <<at, last, Len(Payload)>>))
                 /\ UNCHANGED mem
              \/ /\ last # -1 /\ last <= Len(Payload)
                 /\ \/ /\ ~InMem(dest, len)
                       /\ Trap(E("Memory")) /\ UNCHANGED mem
                    \/ /\ InMem(dest, len)
                       /\ mem' = WriteBytes(dest, SubSeq(Payload, at + 1, last))
                       /\ Return(Unit)

\* gas(val): only GasAllowanceExceeded is recorded; any other Ext error
\* leaves the trap context as it is.
gas ==
    /\ Issue("gas")
    /\ UNCHANGED <<mem, extVars>>
    /\ \E v \in Args32 :
        \/ ~Fits(v, U32) /\ HostError
        \/ /\ Fits(v, U32)
           /\ \/ Return(Unit)
              \/ Trap(E("GasAllowanceExceeded"))
              \/ HostError

\* Ext's page allocator (spec-modelled): the first run of n free pages.
FreeRun(p, n) ==
    /\ p + n <= MaxPages
    /\ \A q \in p .. p + n - 1 : q \notin allocated

\* alloc(pages): the page index, cast `as i32', or the RuntimeCtx error.
alloc ==
    /\ Issue("alloc")
    /\ UNCHANGED <<mem, outbox, handles, replyBuf, replied, lastError>>
    /\ \E n \in Args32 :
        \/ ~Fits(n, U32) /\ HostError /\ UNCHANGED allocated
        \/ /\ Fits(n, U32)
           /\ \/ /\ \E p \in 0 .. MaxPages :
                      /\ FreeRun(p, n)
                      /\ \A q \in 0 .. p - 1 : ~FreeRun(q, n)
                      /\ allocated' = allocated \cup (p .. p + n - 1)
                      /\ Return(Val(AsI32(p)))
              \/ /\ \A p \in 0 .. MaxPages : ~FreeRun(p, n)
                 /\ Trap(E("RuntimeCtx")) /\ UNCHANGED allocated

\* free(page): ext.free fails on a page that is not allocated.
free ==
    /\ Issue("free")
    /\ UNCHANGED <<mem, outbox, handles, replyBuf, replied, lastError>>
    /\ \E n \in Args32 :
        \/ ~Fits(n, U32) /\ HostError /\ UNCHANGED allocated
        \/ /\ Fits(n, U32) /\ n \in allocated
           /\ allocated' = allocated \ {n} /\ Return(Unit)
        \/ /\ Fits(n, U32) /\ n \notin allocated
           /\ Trap(E("Core")) /\ UNCHANGED allocated

\* debug(ptr, len): buffer size, memory, UTF-8, then ext.debug.
debug ==
    /\ Issue("debug")
    /\ \E p, n \in Args32 :
        \/ PopFailed(<<p, n>>)
        \/ /\ PopsOk(<<p, n>>)
           /\ LET checks == << <<n <= MaxBuffer, E("RuntimeBufferSize")>>,
                               ReadRange(p, n),
                               <<InMem(p, n) =>
                                   \A i \in 1 .. n : mem[p + i - 1] \notin BadUtf8,
                                 E("DebugString")>> >>
              IN \/ CheckFailed(checks)
                 \/ AllPass(checks) /\ ExtFatal
                 \/ AllPass(checks) /\ Return(Unit) /\ UNCHANGED <<mem, extVars>>

\* error(ptr): the encoding of Ext's last error, or SyscallErrorExpected.
error ==
    /\ Issue("error")
    /\ UNCHANGED extVars
    /\ \E p \in Args32 :
        \/ PopFailed(<<p>>)
        \/ /\ PopsOk(<<p>>) /\ lastError = 0
           /\ Trap(E("SyscallErrorExpected")) /\ UNCHANGED mem
        \/ /\ PopsOk(<<p>>) /\ lastError # 0 /\ ~InMem(p, lastError)
           /\ Trap(E("Memory")) /\ UNCHANGED mem
        \/ /\ PopsOk(<<p>>) /\ lastError # 0 /\ InMem(p, lastError)
           /\ mem' = WriteBytes(p, [i \in 1 .. lastError |-> ErrByte])
           /\ Return(Unit)

-----------------------------------------------------------------------------
(* Outgoing-message family: a domain failure of Ext is returned to the     *)
(* guest as the length of the error's encoding, not trapped.               *)

\* Fault variant: the id is written before the Ext outcome is looked at.
ExtStatusEarlyWrite(valid, effect, outPtr, id) ==
    /\ InMem(outPtr, 1)
    /\ mem' = [mem EXCEPT ![outPtr] = id]
    /\ \/ /\ \E l \in ErrLens : lastError' = l /\ Return(Val(AsI32(l)))
          /\ UNCHANGED <<outbox, handles, replyBuf, replied, allocated>>
       \/ /\ valid /\ effect /\ UNCHANGED <<lastError, allocated>>
          /\ Return(Val(AsI32(0)))

\* Fault variant: a guest-visible Ext error is also put in the trap context.
ExtStatusRecordsDomainError(valid, effect, outPtr, id) ==
    \/ ExtFatal
    \/ /\ \E l \in ErrLens : lastError' = l /\ ret' = Val(AsI32(l))
       /\ err' = E("Core") /\ UNCHANGED phase
       /\ UNCHANGED <<mem, outbox, handles, replyBuf, replied, allocated>>

\* .process_error() and .error_len_on_success(write id): Ext fails fatally
\* (trap, Core), fails with a guest-visible error (recorded, its length
\* returned, nothing written), or, when the operation is valid, performs
\* effect; only then is the id written to outPtr, and status 0 returned.
ExtStatus(valid, effect, outPtr, id) ==
    \/ ExtFatal
    \/ /\ \E l \in ErrLens : lastError' = l /\ Return(Val(AsI32(l)))
       /\ UNCHANGED <<mem, outbox, handles, replyBuf, replied, allocated>>
    \/ /\ valid /\ effect
       /\ UNCHANGED <<lastError, allocated>>
       /\ \/ /\ InMem(outPtr, 1)
             /\ mem' = [mem EXCEPT ![outPtr] = id] /\ Return(Val(AsI32(0)))
          \/ /\ ~InMem(outPtr, 1)
             /\ Trap(E("Memory")) /\ UNCHANGED mem

\* .process_error() and .error_len() of send_push / reply_push.
PushStatus(valid, effect) ==
    \/ ExtFatal
    \/ /\ \E l \in ErrLens : lastError' = l /\ Return(Val(AsI32(l)))
       /\ UNCHANGED <<mem, outbox, handles, replyBuf, replied, allocated>>
    \/ /\ valid /\ effect
       /\ UNCHANGED <<mem, lastError, allocated>>
       /\ Return(Val(AsI32(0)))

\* The gas limit of a _wgas variant, popped as u64 (a non-wgas variant
\* passes NoGas, which always converts).
GasOk(g) == Fits(g, U64)
GasPopFailed(g) == ~GasOk(g) /\ HostError /\ UNCHANGED <<mem, extVars>>

\* Fault variant: the message id is off by one.
NextIdOffByOne == Len(outbox) + 2

\* Ext's queue of dispatched messages (spec-modelled).
Dispatch(m) == outbox' = Append(outbox, m)
NextId == Len(outbox) + 1
OpenHandle(h) == h < Len(handles) /\ handles[h + 1].open

\* send / send_wgas.
SendMsg(s, g, pid, pp, pl, vp, mp, dp) ==
    /\ Issue(s)
    /\ \/ PopFailed(<<pid, pp, pl, vp, mp, dp>>)
       \/ GasPopFailed(g)
       \/ /\ PopsOk(<<pid, pp, pl, vp, mp, dp>>) /\ GasOk(g)
          /\ LET checks == <<ReadPtr(pid), ReadRange(pp, pl), ToPayload(pl),
                             ReadPtr(vp), ReadPtr(dp)>>
             IN \/ CheckFailed(checks)
                \/ /\ AllPass(checks)
                   /\ ExtStatus(TRUE,
                        /\ Dispatch([kind |-> "send", to |-> mem[pid],
                                     payload |-> ReadBytes(pp, pl)])
                        /\ UNCHANGED <<handles, replyBuf, replied>>,
                        mp, NextId)

send == \E pid, pp, pl, vp, mp, dp \in Args32 :
            SendMsg("send", NoGas, pid, pp, pl, vp, mp, dp)

send_wgas == \E pid, pp, pl, vp, mp, dp \in Args32, g \in Args64 :
                 SendMsg("send_wgas", g, pid, pp, pl, vp, mp, dp)

\* send_commit / send_commit_wgas: dispatch the payload pushed to handle h.
SendCommit(s, g, h, mp, pid, vp, dp) ==
    /\ Issue(s)
    /\ \/ PopFailed(<<h, mp, pid, vp, dp>>)
       \/ GasPopFailed(g)
       \/ /\ PopsOk(<<h, mp, pid, vp, dp>>) /\ GasOk(g)
          /\ LET checks == <<ReadPtr(pid), ReadPtr(vp), ReadPtr(dp)>>
             IN \/ CheckFailed(checks)
                \/ /\ AllPass(checks)
                   /\ ExtStatus(OpenHandle(h),
                        /\ Dispatch([kind |-> "send", to |-> mem[pid],
                                     payload |-> handles[h + 1].payload])
                        /\ handles' = [handles EXCEPT ![h + 1].open = FALSE]
                        /\ UNCHANGED <<replyBuf, replied>>,
                        mp, NextId)

send_commit == \E h, mp, pid, vp, dp \in Args32 :
                   SendCommit("send_commit", NoGas, h, mp, pid, vp, dp)

send_commit_wgas == \E h, mp, pid, vp, dp \in Args32, g \in Args64 :
                        SendCommit("send_commit_wgas", g, h, mp, pid, vp, dp)

\* send_init: open a builder and write its handle.
send_init ==
    /\ Issue("send_init")
    /\ \E hp \in Args32 :
        \/ PopFailed(<<hp>>)
        \/ /\ PopsOk(<<hp>>)
           /\ ExtStatus(TRUE,
                /\ handles' = Append(handles, [open |-> TRUE, payload |-> << >>])
                /\ UNCHANGED <<outbox, replyBuf, replied>>,
                hp, Len(handles))

\* send_push: append guest bytes to an open builder (no PayloadSize check).
send_push ==
    /\ Issue("send_push")
    /\ \E h, pp, pl \in Args32 :
        \/ PopFailed(<<h, pp, pl>>)
        \/ /\ PopsOk(<<h, pp, pl>>)
           /\ \/ CheckFailed(<<ReadRange(pp, pl)>>)
              \/ /\ InMem(pp, pl)
                 /\ PushStatus(OpenHandle(h),
                      /\ handles' = [handles EXCEPT ![h + 1].payload =
                                                       @ \o ReadBytes(pp, pl)]
                      /\ UNCHANGED <<outbox, replyBuf, replied>>)

\* reply / reply_wgas: at most one reply per message (Ext).
ReplyMsg(s, g, pp, pl, vp, mp, dp) ==
    /\ Issue(s)
    /\ \/ PopFailed(<<pp, pl, vp, mp, dp>>)
       \/ GasPopFailed(g)
       \/ /\ PopsOk(<<pp, pl, vp, mp, dp>>) /\ GasOk(g)
          /\ LET checks == <<ReadRange(pp, pl), ToPayload(pl), ReadPtr(vp),
                             ReadPtr(dp)>>
             IN \/ CheckFailed(checks)
                \/ /\ AllPass(checks)
                   /\ ExtStatus(~replied,
                        /\ Dispatch([kind |-> "reply", to |-> 0,
                                     payload |-> ReadBytes(pp, pl)])
                        /\ replied' = TRUE
                        /\ UNCHANGED <<handles, replyBuf>>,
                        mp, NextId)

reply == \E pp, pl, vp, mp, dp \in Args32 :
             ReplyMsg("reply", NoGas, pp, pl, vp, mp, dp)

reply_wgas == \E pp, pl, vp, mp, dp \in Args32, g \in Args64 :
                  ReplyMsg("reply_wgas", g, pp, pl, vp, mp, dp)

\* reply_commit / reply_commit_wgas: reply with the pushed payload.
ReplyCommit(s, g, vp, mp, dp) ==
    /\ Issue(s)
    /\ \/ PopFailed(<<vp, mp, dp>>)
       \/ GasPopFailed(g)
       \/ /\ PopsOk(<<vp, mp, dp>>) /\ GasOk(g)
          /\ LET checks == <<ReadPtr(vp), ReadPtr(dp)>>
             IN \/ CheckFailed(checks)
                \/ /\ AllPass(checks)
                   /\ ExtStatus(~replied,
                        /\ Dispatch([kind |-> "reply", to |-> 0,
                                     payload |-> replyBuf])
                        /\ replied' = TRUE
                        /\ UNCHANGED <<handles, replyBuf>>,
                        mp, NextId)

reply_commit == \E vp, mp, dp \in Args32 :
                    ReplyCommit("reply_commit", NoGas, vp, mp, dp)

reply_commit_wgas == \E vp, mp, dp \in Args32, g \in Args64 :
                         ReplyCommit("reply_commit_wgas", g, vp, mp, dp)

\* reply_push: append guest bytes to the reply (no PayloadSize check).
reply_push ==
    /\ Issue("reply_push")
    /\ \E pp, pl \in Args32 :
        \/ PopFailed(<<pp, pl>>)
        \/ /\ PopsOk(<<pp, pl>>)
           /\ \/ CheckFailed(<<ReadRange(pp, pl)>>)
              \/ /\ InMem(pp, pl)
                 /\ PushStatus(~replied,
                      /\ replyBuf' = replyBuf \o ReadBytes(pp, pl)
                      /\ UNCHANGED <<outbox, handles, replied>>)

\* create_program / create_program_wgas: an InitPacket to code hash ch.
CreateProgram(s, g, ch, sp, sl, pp, pl, vp, prp, dp) ==
    /\ Issue(s)
    /\ \/ PopFailed(<<ch, sp, sl, pp, pl, vp, prp, dp>>)
       \/ GasPopFailed(g)
       \/ /\ PopsOk(<<ch, sp, sl, pp, pl, vp, prp, dp>>) /\ GasOk(g)
          /\ LET checks == <<ReadPtr(ch), ReadRange(sp, sl), ReadRange(pp, pl),
                             ToPayload(pl), ReadPtr(vp), ReadPtr(dp)>>
             IN \/ CheckFailed(checks)
                \/ /\ AllPass(checks)
                   /\ ExtStatus(TRUE,
                        /\ Dispatch([kind |-> "init", to |-> mem[ch],
                                     payload |-> ReadBytes(pp, pl)])
                        /\ UNCHANGED <<handles, replyBuf, replied>>,
                        prp, NextId)

create_program ==
    \E ch, sp, sl, pp, pl, vp, prp, dp \in Args32 :
        CreateProgram("create_program", NoGas, ch, sp, sl, pp, pl, vp, prp, dp)

create_program_wgas ==
    \E ch, sp, sl, pp, pl, vp, prp, dp \in Args32, g \in Args64 :
        CreateProgram("create_program_wgas", g, ch, sp, sl, pp, pl, vp, prp, dp)

-----------------------------------------------------------------------------
(* The guest call.                                                         *)

\* The guest's entry point returns normally.
GuestReturn ==
    /\ phase = "Running"
    /\ phase' = "Returned"
    /\ UNCHANGED <<err, ret, sys, calls, mem, extVars>>

\* The call is over: the host reads the trap context (Termination) and
\* nothing changes any more.
Finished == phase # "Running" /\ UNCHANGED vars

Termination ==
    IF phase = "Trapped" THEN into_termination_reason(err) ELSE E("Success")

MessageSyscall ==
    \/ send \/ send_wgas \/ send_commit \/ send_commit_wgas \/ send_init
    \/ send_push \/ reply \/ reply_wgas \/ reply_commit \/ reply_commit_wgas
    \/ reply_push \/ create_program \/ create_program_wgas

ControlSyscall ==
    \/ exit \/ leave \/ wait \/ wait_for \/ wait_up_to \/ forbidden \/ wake

QuerySyscall ==
    \/ size \/ block_height \/ block_timestamp \/ gas_available \/ exit_code
    \/ origin \/ msg_id \/ program_id \/ source \/ value \/ value_available
    \/ reply_to

MemorySyscall == read \/ gas \/ alloc \/ free \/ debug \/ error

Next ==
    \/ MessageSyscall \/ ControlSyscall \/ QuerySyscall \/ MemorySyscall
    \/ GuestReturn \/ Finished

Spec == Init /\ [][Next]_vars

-----------------------------------------------------------------------------
(* Properties.                                                             *)

StatusSyscalls == {"send", "send_wgas", "send_commit", "send_commit_wgas",
                   "send_init", "send_push", "reply", "reply_wgas",
                   "reply_commit", "reply_commit_wgas", "reply_push",
                   "create_program", "create_program_wgas"}
NeverReturn == {"exit", "leave", "wait", "wait_for", "wait_up_to",
                "forbidden"}

\* A step in which the guest issues a syscall.
Issued == calls' > calls

\* The trap context holds no error while the guest still runs or after it
\* returned normally: every handler records an error only on the path that
\* returns HostError, so a recorded error always belongs to the trap that
\* ended the call (spec: set before signaling trap, never after success).
NoErrorPendingWhileRunning == phase # "Trapped" => err = NoErr

\* The status-code contract of the outgoing-message handlers (send*,
\* reply*, *_push, send_init, create_program*): a call that returns to the
\* guest either returns 0, leaves the last error alone and, if it
\* dispatched a message, has written that message's id to guest memory; or
\* returns exactly the length of the error Ext recorded for it, and then
\* has written nothing and dispatched nothing.
StatusCodeStep ==
    (Issued /\ sys' \in StatusSyscalls /\ phase' = "Running") =>
        \/ /\ ret' = Val(0) /\ lastError' = lastError
           /\ Len(outbox') > Len(outbox) =>
                 \E a \in Addr : mem'[a] = Len(outbox')
        \/ /\ lastError' # 0 /\ ret' = Val(lastError')
           /\ UNCHANGED <<mem, outbox, handles, replyBuf, replied>>

\* Every step of the guest call keeps the status-code contract of the
\* outgoing-message handlers.
StatusCodeContract == [][StatusCodeStep]_vars

\* read(at, len, dest) never reports ReadLenOverflow: at and len come from
\* i32 arguments converted to usize, so at + len cannot leave usize and the
\* checked_add in read can never fail.
NoReadLenOverflow == err.kind # "ReadLenOverflow"

\* The reason a control-flow syscall records is the one it stands for.
ReasonOf(s, e) ==
    CASE s = "exit" -> e.kind = "Exit" /\ Len(e.arg) = 1
      [] s = "leave" -> e.kind = "Leave"
      [] s = "wait" -> e.kind = "Wait" /\ e.arg = << >>
      [] s \in {"wait_for", "wait_up_to"} -> e.kind = "Wait" /\ Len(e.arg) = 1
      [] OTHER -> FALSE

\* exit, leave, wait, wait_for, wait_up_to and forbidden never return to
\* the guest; whenever one of them records a Terminated reason it is the
\* reason of that syscall (Exit(beneficiary), Leave, Wait(None),
\* Wait(Some(duration))), and no other syscall records one but gas
\* (GasAllowanceExceeded).
ControlFlowStep ==
    /\ (Issued /\ sys' \in NeverReturn) => phase' = "Trapped"
    /\ (Issued /\ err'.kind \in TerminatedKinds) =>
          IF sys' = "gas" THEN err'.kind = "GasAllowanceExceeded"
                          ELSE ReasonOf(sys', err')

\* Every step of the guest call keeps the control-flow contract: a
\* control-flow syscall never returns, and a Terminated reason is always
\* the reason of the syscall that recorded it.
ControlFlowTerminates == [][ControlFlowStep]_vars

\* Spec 4.3 and 7 (handler template): a handler that fails at any step
\* after its arguments decoded stores the structured error in the trap
\* context before it signals the trap, so the host finds a reason after
\* every trap.  Two exceptions are sanctioned and left out: a codec
\* failure aborts with no payload (spec 4.1), and the reasonless trap of
\* gas_available is spec 9's open question.  The codec exception is left
\* out by the instance (every argument and host value converts), the
\* gas_available one here.
TrapAlwaysExplained == (phase = "Trapped" /\ sys # "gas_available") => err # NoErr

\* Spec (exit): exit discards an error of ext.exit() and always terminates
\* with Exit(beneficiary) once the beneficiary has been read.
ExitAlwaysExits ==
    (phase = "Trapped" /\ sys = "exit" /\ err \notin {NoErr, E("Memory")})
        => err.kind = "Exit"

\* Spec (outgoing-message state machine): a call traps only before the
\* message is dispatched, never after.
NoDispatchOnTrap == [][phase' = "Trapped" => outbox' = outbox]_vars

\* The syscall layer implements the per-call promise of CallOutcome under
\* the identity mapping of phase, err and outbox: no handler writes the
\* trap context except on the step that traps, every handler queues at
\* most one message and only while the call runs, nothing changes the
\* queue after the call has ended (Finished), and the reply handlers
\* (reply*, reply_commit*) queue at most one reply per call.
Outcome == INSTANCE CallOutcome WITH Reason <- ErrType, NoReason <- NoErr

OutcomeSpec == Outcome!Spec

=============================================================================

--------------------------- MODULE SyscallsActions ---------------------------
(***************************************************************************)
(* Proofs of the two action properties of the guest call, for every value  *)
(* of the constants:                                                       *)
(*   - ControlFlowTerminates: exit, leave, wait* and forbidden never       *)
(*     return, and a Terminated reason in ctx.err is the one of the        *)
(*     syscall that recorded it;                                           *)
(*   - StatusCodeContract: a status-returning handler that returns to the  *)
(*     guest returns 0 and the written id, or the recorded error length    *)
(*     and no effect.                                                      *)
(* Both are step properties.  Each follows from an invariant of the call   *)
(* (TypeInv from SyscallsTypes, NoErrorPendingWhileRunning from            *)
(* SyscallsProofs) and from what each handler family can do in one step.   *)
(***************************************************************************)
EXTENDS SyscallsRefinement

-----------------------------------------------------------------------------
(* No handler other than the control family and gas records a Terminated   *)
(* reason.                                                                 *)

\* The reasons that are not Terminated ones.
PlainKinds == ErrKinds \ TerminatedKinds

\* The step leaves ctx.err alone or records a reason that is not Terminated.
Plain == err' = err \/ err'.kind \in PlainKinds

\* The reasons the handlers outside the control family record, gas's
\* GasAllowanceExceeded aside.
LEMMA PlainKindFacts ==
    {"Core", "RuntimeCtx", "Memory", "PayloadSize", "NonReplyExitCode",
     "NoReplyContext", "SyscallErrorExpected", "RuntimeBufferSize",
     "DebugString", "ReadWrongRange", "ReadLenOverflow"} \subseteq PlainKinds
BY DEF PlainKinds, ErrKinds, TerminatedKinds

\* The pre-checks fail with plain reasons.
LEMMA PlainChecks ==
    ASSUME NEW p, NEW n
    PROVE  /\ ReadPtr(p)[2].kind \in PlainKinds
           /\ ReadRange(p, n)[2].kind \in PlainKinds
           /\ ToPayload(n)[2].kind \in PlainKinds
BY PlainKindFacts DEF ReadPtr, ReadRange, ToPayload, E, Err

\* The building blocks of the handlers, and what they record.
LEMMA PlainEnds ==
    /\ \A k \in PlainKinds : \A a : Trap(Err(k, a)) => Plain
    /\ \A k \in PlainKinds : Trap(E(k)) => Plain
    /\ HostError => Plain
    /\ \A v : Return(v) => Plain
    /\ ExtFatal => Plain
    /\ \A a : PopFailed(a) => Plain
    /\ \A c : (\A i \in DOMAIN c : c[i][2].kind \in PlainKinds) =>
                 (CheckFailed(c) => Plain)
    /\ \A g : GasPopFailed(g) => Plain
BY PlainKindFacts
DEF Plain, Trap, HostError, Return, ExtFatal, PopFailed, CheckFailed,
    FirstFailure, GasPopFailed, E, Err

LEMMA StatusPlain ==
    ASSUME NEW STATE valid, NEW ACTION effect, NEW p, NEW STATE id
    PROVE  /\ ExtStatus(valid, effect, p, id) => Plain
           /\ PushStatus(valid, effect) => Plain
BY PlainEnds, PlainKindFacts DEF ExtStatus, PushStatus

LEMMA SendMsgPlain ==
    ASSUME NEW s, NEW g, NEW pid, NEW pp, NEW pl, NEW vp, NEW mp, NEW dp,
           SendMsg(s, g, pid, pp, pl, vp, mp, dp)
    PROVE  Plain
<1>1. \A i \in DOMAIN <<ReadPtr(pid), ReadRange(pp, pl), ToPayload(pl),
                         ReadPtr(vp), ReadPtr(dp)>> :
        <<ReadPtr(pid), ReadRange(pp, pl), ToPayload(pl), ReadPtr(vp),
          ReadPtr(dp)>>[i][2].kind \in PlainKinds
  BY PlainChecks
<1>2. QED BY <1>1, PlainEnds, StatusPlain, Zenon DEF SendMsg

LEMMA SendCommitPlain ==
    ASSUME NEW s, NEW g, NEW h, NEW mp, NEW pid, NEW vp, NEW dp,
           SendCommit(s, g, h, mp, pid, vp, dp)
    PROVE  Plain
<1>1. \A i \in DOMAIN <<ReadPtr(pid), ReadPtr(vp), ReadPtr(dp)>> :
        <<ReadPtr(pid), ReadPtr(vp), ReadPtr(dp)>>[i][2].kind \in PlainKinds
  BY PlainChecks
<1>2. QED BY <1>1, PlainEnds, StatusPlain, Zenon DEF SendCommit

LEMMA ReplyMsgPlain ==
    ASSUME NEW s, NEW g, NEW pp, NEW pl, NEW vp, NEW mp, NEW dp,
           ReplyMsg(s, g, pp, pl, vp, mp, dp)
    PROVE  Plain
<1>1. \A i \in DOMAIN <<ReadRange(pp, pl), ToPayload(pl), ReadPtr(vp),
                         ReadPtr(dp)>> :
        <<ReadRange(pp, pl), ToPayload(pl), ReadPtr(vp),
          ReadPtr(dp)>>[i][2].kind \in PlainKinds
  BY PlainChecks
<1>2. QED BY <1>1, PlainEnds, StatusPlain, Zenon DEF ReplyMsg

LEMMA ReplyCommitPlain ==
    ASSUME NEW s, NEW g, NEW vp, NEW mp, NEW dp, ReplyCommit(s, g, vp, mp, dp)
    PROVE  Plain
<1>1. \A i \in DOMAIN <<ReadPtr(vp), ReadPtr(dp)>> :
        <<ReadPtr(vp), ReadPtr(dp)>>[i][2].kind \in PlainKinds
  BY PlainChecks
<1>2. QED BY <1>1, PlainEnds, StatusPlain, Zenon DEF ReplyCommit

LEMMA CreateProgramPlain ==
    ASSUME NEW s, NEW g, NEW ch, NEW sp, NEW sl, NEW pp, NEW pl, NEW vp,
           NEW prp, NEW dp, CreateProgram(s, g, ch, sp, sl, pp, pl, vp, prp, dp)
    PROVE  Plain
<1>1. \A i \in DOMAIN <<ReadPtr(ch), ReadRange(sp, sl), ReadRange(pp, pl),
                         ToPayload(pl), ReadPtr(vp), ReadPtr(dp)>> :
        <<ReadPtr(ch), ReadRange(sp, sl), ReadRange(pp, pl), ToPayload(pl),
          ReadPtr(vp), ReadPtr(dp)>>[i][2].kind \in PlainKinds
  BY PlainChecks
<1>2. QED BY <1>1, PlainEnds, StatusPlain, Zenon DEF CreateProgram

LEMMA BuilderPlain ==
    /\ send_init => Plain
    /\ send_push => Plain
    /\ reply_push => Plain
<1>1. \A pp, pl : \A i \in DOMAIN <<ReadRange(pp, pl)>> :
                      <<ReadRange(pp, pl)>>[i][2].kind \in PlainKinds
  BY PlainChecks
<1>2. QED BY <1>1, PlainEnds, StatusPlain, Zenon
          DEF send_init, send_push, reply_push

LEMMA MessagePlain == MessageSyscall => Plain
BY SendMsgPlain, SendCommitPlain, ReplyMsgPlain, ReplyCommitPlain,
   CreateProgramPlain, BuilderPlain
DEF MessageSyscall, send, send_wgas, send_commit, send_commit_wgas,
    reply, reply_wgas, reply_commit, reply_commit_wgas, create_program,
    create_program_wgas

LEMMA QueryPlain == QuerySyscall => Plain
BY PlainEnds, PlainKindFacts, Zenon
DEF QuerySyscall, size, block_height, block_timestamp, gas_available,
    exit_code, origin, msg_id, program_id, source, value, value_available,
    WriteQueried, reply_to

\* read may record ReadLenOverflow here: the claim is only that it is not
\* a Terminated reason.
LEMMA MemoryPlain == read \/ alloc \/ free \/ debug \/ error => Plain
<1>1. \A p, n : \A i \in DOMAIN
        << <<n <= MaxBuffer, E("RuntimeBufferSize")>>, ReadRange(p, n),
           <<InMem(p, n) => \A j \in 1 .. n : mem[p + j - 1] \notin BadUtf8,
             E("DebugString")>> >> :
        << <<n <= MaxBuffer, E("RuntimeBufferSize")>>, ReadRange(p, n),
           <<InMem(p, n) => \A j \in 1 .. n : mem[p + j - 1] \notin BadUtf8,
             E("DebugString")>> >>[i][2].kind \in PlainKinds
  BY PlainChecks, PlainKindFacts DEF E, Err
<1>2. QED
  BY <1>1, PlainEnds, PlainKindFacts, Zenon DEF read, alloc, free, debug, error

LEMMA WakePlain == wake => Plain
<1>1. \A wp, dp : \A i \in DOMAIN <<ReadPtr(wp), ReadPtr(dp)>> :
                      <<ReadPtr(wp), ReadPtr(dp)>>[i][2].kind \in PlainKinds
  BY PlainChecks
<1>2. QED BY <1>1, PlainEnds, PlainKindFacts, Zenon DEF wake

-----------------------------------------------------------------------------
(* The control family and gas.                                             *)

\* Every control-flow syscall traps, and the only Terminated reason it can
\* record is its own; gas can only record GasAllowanceExceeded.  The
\* hypothesis is that the trap context held no Terminated reason before.
LEMMA ControlReasons ==
    ASSUME err.kind \notin TerminatedKinds
    PROVE  /\ exit => /\ phase' = "Trapped"
                      /\ err'.kind \in TerminatedKinds => ReasonOf("exit", err')
           /\ leave => /\ phase' = "Trapped"
                       /\ err'.kind \in TerminatedKinds => ReasonOf("leave", err')
           /\ wait => /\ phase' = "Trapped"
                      /\ err'.kind \in TerminatedKinds => ReasonOf("wait", err')
           /\ \A s \in {"wait_for", "wait_up_to"} :
                WaitWithDuration(s) =>
                  /\ phase' = "Trapped"
                  /\ err'.kind \in TerminatedKinds => ReasonOf(s, err')
           /\ forbidden => /\ phase' = "Trapped"
                           /\ err'.kind \notin TerminatedKinds
           /\ gas => (err'.kind \in TerminatedKinds =>
                        err'.kind = "GasAllowanceExceeded")
<1>1. exit => /\ phase' = "Trapped"
              /\ err'.kind \in TerminatedKinds => ReasonOf("exit", err')
  BY DEF exit, PopFailed, HostError, CheckFailed, FirstFailure, ReadPtr,
         ExtFatal, Trap, E, Err, ReasonOf, TerminatedKinds
<1>2. leave => /\ phase' = "Trapped"
               /\ err'.kind \in TerminatedKinds => ReasonOf("leave", err')
  BY DEF leave, ExtFatal, Trap, E, Err, ReasonOf, TerminatedKinds
<1>3. wait => /\ phase' = "Trapped"
              /\ err'.kind \in TerminatedKinds => ReasonOf("wait", err')
  BY DEF wait, ExtFatal, Trap, E, Err, ReasonOf, TerminatedKinds
<1>4. ASSUME NEW s \in {"wait_for", "wait_up_to"}, WaitWithDuration(s)
      PROVE  /\ phase' = "Trapped"
             /\ err'.kind \in TerminatedKinds => ReasonOf(s, err')
  BY <1>4 DEF WaitWithDuration, PopFailed, HostError, CheckFailed,
              FirstFailure, ReadPtr, ExtFatal, Trap, E, Err, ReasonOf,
              TerminatedKinds
<1>5. forbidden => phase' = "Trapped" /\ err'.kind \notin TerminatedKinds
  BY DEF forbidden, Trap, E, Err, TerminatedKinds
<1>6. gas => (err'.kind \in TerminatedKinds =>
                err'.kind = "GasAllowanceExceeded")
  BY DEF gas, HostError, Return, Trap, E, Err, TerminatedKinds
<1>7. QED BY <1>1, <1>2, <1>3, <1>4, <1>5, <1>6

-----------------------------------------------------------------------------
(* The syscall each handler issues.                                        *)

LEMMA MessageSys == MessageSyscall => sys' \in StatusSyscalls
<1>1. ASSUME NEW st, NEW g, NEW a1, NEW a2, NEW a3, NEW a4, NEW a5, NEW a6,
             NEW a7, NEW a8
      PROVE  /\ SendMsg(st, g, a1, a2, a3, a4, a5, a6) => sys' = st
             /\ SendCommit(st, g, a1, a2, a3, a4, a5) => sys' = st
             /\ ReplyMsg(st, g, a1, a2, a3, a4, a5) => sys' = st
             /\ ReplyCommit(st, g, a1, a2, a3) => sys' = st
             /\ CreateProgram(st, g, a1, a2, a3, a4, a5, a6, a7, a8) => sys' = st
  BY DEF SendMsg, SendCommit, ReplyMsg, ReplyCommit, CreateProgram, Issue
<1>2. send_init \/ send_push \/ reply_push =>
        sys' \in {"send_init", "send_push", "reply_push"}
  BY DEF send_init, send_push, reply_push, Issue
<1>3. QED
  BY <1>1, <1>2, Zenon
  DEF MessageSyscall, StatusSyscalls, send, send_wgas, send_commit,
      send_commit_wgas, reply, reply_wgas, reply_commit, reply_commit_wgas,
      create_program, create_program_wgas

\* The syscalls that neither return a status nor end the call, by family.
QueryNames == {"size", "block_height", "block_timestamp", "gas_available",
               "exit_code", "origin", "msg_id", "program_id", "source",
               "value", "value_available", "reply_to"}
MemoryNames == {"read", "alloc", "free", "debug", "error"}

LEMMA OtherSys ==
    /\ QuerySyscall => sys' \in QueryNames
    /\ read \/ alloc \/ free \/ debug \/ error => sys' \in MemoryNames
    /\ gas => sys' = "gas"
    /\ wake => sys' = "wake"
    /\ exit \/ leave \/ wait \/ wait_for \/ wait_up_to \/ forbidden =>
         sys' \in NeverReturn
<1>1. QuerySyscall => sys' \in QueryNames
  BY Zenon
  DEF QuerySyscall, QueryNames, size, block_height, block_timestamp,
      gas_available, exit_code, origin, msg_id, program_id, source, value,
      value_available, WriteQueried, reply_to, Issue
<1>2. read \/ alloc \/ free \/ debug \/ error => sys' \in MemoryNames
  BY DEF MemoryNames, read, alloc, free, debug, error, Issue
<1>3. exit \/ leave \/ wait \/ wait_for \/ wait_up_to \/ forbidden =>
        sys' \in NeverReturn
  BY DEF NeverReturn, exit, leave, wait, wait_for, wait_up_to,
         WaitWithDuration, forbidden, Issue
<1>4. QED BY <1>1, <1>2, <1>3 DEF gas, wake, Issue

-----------------------------------------------------------------------------
(* ControlFlowTerminates.                                                  *)

\* TypeInv holds in every state of the call.
LEMMA TypeInvAlways == Spec => []TypeInv
BY InitType, NextType, PTL DEF Spec

\* The trap context of a running call holds no Terminated reason.
LEMMA RunningNotTerminated ==
    ASSUME NoErrorPendingWhileRunning, phase = "Running"
    PROVE  err.kind \notin TerminatedKinds
BY DEF NoErrorPendingWhileRunning, NoErr, E, Err, TerminatedKinds

\* A step that issues no syscall keeps both step properties.
LEMMA NotIssued ==
    ASSUME TypeInv, UNCHANGED calls
    PROVE  ControlFlowStep /\ StatusCodeStep
BY DEF TypeInv, TypeOK, Issued, ControlFlowStep, StatusCodeStep

LEMMA ControlFlowStepHolds ==
    ASSUME TypeInv, NoErrorPendingWhileRunning, [Next]_vars
    PROVE  [ControlFlowStep]_vars
<1>1. CASE MessageSyscall \/ QuerySyscall \/ read \/ alloc \/ free \/ debug
           \/ error \/ wake
  <2>1. phase = "Running"
    BY <1>1, HandlersRun DEF ControlSyscall, MemorySyscall
  <2>2. err.kind \notin TerminatedKinds
    BY <2>1, RunningNotTerminated
  <2>3. Plain
    BY <1>1, MessagePlain, QueryPlain, MemoryPlain, WakePlain
  <2>4. sys' \notin NeverReturn /\ sys' # "gas"
    BY <1>1, MessageSys, OtherSys
    DEF StatusSyscalls, NeverReturn, QueryNames, MemoryNames
  <2>5. err'.kind \notin TerminatedKinds
    BY <2>2, <2>3 DEF Plain, PlainKinds
  <2>6. QED BY <2>4, <2>5 DEF ControlFlowStep
<1>2. CASE gas
  <2>1. phase = "Running"
    BY <1>2, HandlersRun DEF MemorySyscall
  <2>2. err.kind \notin TerminatedKinds
    BY <2>1, RunningNotTerminated
  <2>3. sys' = "gas" /\ "gas" \notin NeverReturn
    BY <1>2, OtherSys DEF NeverReturn
  <2>4. QED BY <1>2, <2>2, <2>3, ControlReasons DEF ControlFlowStep
<1>3. CASE exit \/ leave \/ wait \/ wait_for \/ wait_up_to \/ forbidden
  <2>1. phase = "Running"
    BY <1>3, HandlersRun DEF ControlSyscall
  <2>2. err.kind \notin TerminatedKinds
    BY <2>1, RunningNotTerminated
  <2>3. CASE exit
    BY <2>2, <2>3, ControlReasons DEF exit, Issue, ControlFlowStep
  <2>4. CASE leave
    BY <2>2, <2>4, ControlReasons DEF leave, Issue, ControlFlowStep
  <2>5. CASE wait
    BY <2>2, <2>5, ControlReasons DEF wait, Issue, ControlFlowStep
  <2>6. CASE wait_for \/ wait_up_to
    <3>1. PICK s \in {"wait_for", "wait_up_to"} : WaitWithDuration(s)
      BY <2>6 DEF wait_for, wait_up_to
    <3>2. sys' = s
      BY <3>1 DEF WaitWithDuration, Issue
    <3>3. QED BY <2>2, <3>1, <3>2, ControlReasons DEF ControlFlowStep
  <2>7. CASE forbidden
    <3>1. phase' = "Trapped" /\ err'.kind \notin TerminatedKinds
      BY <2>2, <2>7, ControlReasons
    <3>2. sys' = "forbidden"
      BY <2>7 DEF forbidden, Issue
    <3>3. QED BY <3>1, <3>2 DEF ControlFlowStep
  <2>8. QED BY <1>3, <2>3, <2>4, <2>5, <2>6, <2>7
<1>4. CASE GuestReturn
  BY <1>4, NotIssued DEF GuestReturn
<1>5. CASE Finished \/ UNCHANGED vars
  BY <1>5 DEF Finished, vars
<1>6. QED
  BY <1>1, <1>2, <1>3, <1>4, <1>5
  DEF Next, ControlSyscall, MemorySyscall

\* exit, leave, wait, wait_for, wait_up_to and forbidden never return to the
\* guest, and every Terminated reason in ctx.err is the one of the syscall
\* that recorded it (gas: GasAllowanceExceeded), for every width and every
\* bound.  It rests on NoErrorPending: a handler that leaves ctx.err alone
\* cannot leave an earlier Terminated reason behind.
THEOREM ControlFlow == Spec => ControlFlowTerminates
<1>1. Spec => []TypeInv
  BY TypeInvAlways
<1>2. Spec => []NoErrorPendingWhileRunning
  BY NoErrorPending
<1>3. TypeInv /\ NoErrorPendingWhileRunning /\ [Next]_vars
        => [ControlFlowStep]_vars
  BY ControlFlowStepHolds
<1>4. QED BY <1>1, <1>2, <1>3, PTL DEF Spec, ControlFlowTerminates

-----------------------------------------------------------------------------
(* StatusCodeContract.                                                     *)

\* What a status handler that returns to the guest has done (the
\* consequent of StatusCodeStep).
StatusReturn ==
    \/ /\ ret' = Val(0) /\ lastError' = lastError
       /\ Len(outbox') > Len(outbox) =>
             \E a \in Addr : mem'[a] = Len(outbox')
    \/ /\ lastError' # 0 /\ ret' = Val(lastError')
       /\ UNCHANGED <<mem, outbox, handles, replyBuf, replied>>

\* The failures before the Ext call all trap.
LEMMA FailuresTrap ==
    /\ \A a : PopFailed(a) => phase' # "Running"
    /\ \A g : GasPopFailed(g) => phase' # "Running"
    /\ \A c : CheckFailed(c) => phase' # "Running"
BY DEF PopFailed, GasPopFailed, HostError, CheckFailed, Trap

\* Status 0 and the lengths of Ext errors keep their values through the
\* `as i32' cast.
LEMMA StatusCasts ==
    /\ AsI32(0) = 0
    /\ \A l \in ErrLens : AsI32(l) = l /\ l # 0
BY CodecAssumption, ErrLensAssumption DEF AsI32

\* error_len_on_success: if the call returns, it returned a domain error's
\* length with no effect, or 0 after the effect and the write of the id;
\* an effect that grows the queue hands out the id of the new message.
LEMMA ExtStatusReturns ==
    ASSUME TypeInv, NEW STATE valid, NEW ACTION effect, NEW p \in Nat,
           NEW STATE id,
           valid /\ effect => (Len(outbox') > Len(outbox) => id = Len(outbox')),
           ExtStatus(valid, effect, p, id), phase' = "Running"
    PROVE  StatusReturn
<1>1. CASE ExtFatal
  BY <1>1 DEF ExtFatal, Trap
<1>2. CASE /\ \E l \in ErrLens : lastError' = l /\ Return(Val(AsI32(l)))
           /\ UNCHANGED <<mem, outbox, handles, replyBuf, replied, allocated>>
  BY <1>2, StatusCasts DEF StatusReturn, Return
<1>3. CASE /\ valid /\ effect
           /\ UNCHANGED <<lastError, allocated>>
           /\ \/ /\ InMem(p, 1)
                 /\ mem' = [mem EXCEPT ![p] = id] /\ Return(Val(AsI32(0)))
              \/ /\ ~InMem(p, 1)
                 /\ Trap(E("Memory")) /\ UNCHANGED mem
  <2>1. InMem(p, 1) /\ mem' = [mem EXCEPT ![p] = id] /\ ret' = Val(0)
    BY <1>3, StatusCasts DEF Trap, Return
  <2>2. p \in Addr /\ mem \in [Addr -> Cells]
    BY <2>1, SyscallsAssumption DEF InMem, Addr, TypeInv, TypeOK
  <2>3. Len(outbox') > Len(outbox) => mem'[p] = Len(outbox')
    BY <1>3, <2>1, <2>2
  <2>4. QED BY <1>3, <2>1, <2>2, <2>3 DEF StatusReturn
<1>4. QED BY <1>1, <1>2, <1>3 DEF ExtStatus

\* The push status: the effect leaves the queue alone.
LEMMA PushStatusReturns ==
    ASSUME TypeInv, NEW STATE valid, NEW ACTION effect,
           valid /\ effect => UNCHANGED outbox,
           PushStatus(valid, effect), phase' = "Running"
    PROVE  StatusReturn
<1>1. outbox \in Seq(Msg)
  BY DEF TypeInv, TypeOK
<1>2. QED BY <1>1, StatusCasts DEF PushStatus, ExtFatal, Trap, Return, StatusReturn

\* Dispatching a message hands out the id NextId of error_len_on_success.
LEMMA DispatchId ==
    ASSUME TypeInv, NEW m, Dispatch(m)
    PROVE  NextId = Len(outbox')
BY DEF Dispatch, NextId, TypeInv, TypeOK

LEMMA SendMsgStatus ==
    ASSUME TypeInv, NEW s, NEW g, NEW pid, NEW pp, NEW pl, NEW vp, NEW mp, NEW dp,
           SendMsg(s, g, pid, pp, pl, vp, mp, dp), phase' = "Running"
    PROVE  StatusReturn
<1> DEFINE m == [kind |-> "send", to |-> mem[pid],
                 payload |-> ReadBytes(pp, pl)]
<1> DEFINE effect == (/\ Dispatch(m)
                      /\ UNCHANGED <<handles, replyBuf, replied>>)
<1>1. TRUE /\ effect => (Len(outbox') > Len(outbox) => NextId = Len(outbox'))
  BY DispatchId DEF effect
<1>2. ASSUME PopsOk(<<pid, pp, pl, vp, mp, dp>>), ExtStatus(TRUE, effect, mp, NextId)
      PROVE  StatusReturn
  <2>1. mp \in Nat
    BY <1>2 DEF PopsOk, Fits, U32
  <2>2. QED BY <1>1, <1>2, <2>1, ExtStatusReturns
<1>3. QED BY <1>2, FailuresTrap, Zenon DEF SendMsg, effect, m

LEMMA SendCommitStatus ==
    ASSUME TypeInv, NEW s, NEW g, NEW h, NEW mp, NEW pid, NEW vp, NEW dp,
           SendCommit(s, g, h, mp, pid, vp, dp), phase' = "Running"
    PROVE  StatusReturn
<1> DEFINE m == [kind |-> "send", to |-> mem[pid],
                 payload |-> handles[h + 1].payload]
<1> DEFINE effect == (/\ Dispatch(m)
                      /\ handles' = [handles EXCEPT ![h + 1].open = FALSE]
                      /\ UNCHANGED <<replyBuf, replied>>)
<1>1. OpenHandle(h) /\ effect => (Len(outbox') > Len(outbox) => NextId = Len(outbox'))
  BY DispatchId DEF effect
<1>2. ASSUME PopsOk(<<h, mp, pid, vp, dp>>), ExtStatus(OpenHandle(h), effect, mp, NextId)
      PROVE  StatusReturn
  <2>1. mp \in Nat
    BY <1>2 DEF PopsOk, Fits, U32
  <2>2. QED BY <1>1, <1>2, <2>1, ExtStatusReturns
<1>3. QED BY <1>2, FailuresTrap, Zenon DEF SendCommit, effect, m

LEMMA ReplyMsgStatus ==
    ASSUME TypeInv, NEW s, NEW g, NEW pp, NEW pl, NEW vp, NEW mp, NEW dp,
           ReplyMsg(s, g, pp, pl, vp, mp, dp), phase' = "Running"
    PROVE  StatusReturn
<1> DEFINE m == [kind |-> "reply", to |-> 0, payload |-> ReadBytes(pp, pl)]
<1> DEFINE effect == (/\ Dispatch(m)
                      /\ replied' = TRUE
                      /\ UNCHANGED <<handles, replyBuf>>)
<1>1. ~replied /\ effect => (Len(outbox') > Len(outbox) => NextId = Len(outbox'))
  BY DispatchId DEF effect
<1>2. ASSUME PopsOk(<<pp, pl, vp, mp, dp>>), ExtStatus(~replied, effect, mp, NextId)
      PROVE  StatusReturn
  <2>1. mp \in Nat
    BY <1>2 DEF PopsOk, Fits, U32
  <2>2. QED BY <1>1, <1>2, <2>1, ExtStatusReturns
<1>3. QED BY <1>2, FailuresTrap, Zenon DEF ReplyMsg, effect, m

LEMMA ReplyCommitStatus ==
    ASSUME TypeInv, NEW s, NEW g, NEW vp, NEW mp, NEW dp,
           ReplyCommit(s, g, vp, mp, dp), phase' = "Running"
    PROVE  StatusReturn
<1> DEFINE m == [kind |-> "reply", to |-> 0, payload |-> replyBuf]
<1> DEFINE effect == (/\ Dispatch(m)
                      /\ replied' = TRUE
                      /\ UNCHANGED <<handles, replyBuf>>)
<1>1. ~replied /\ effect => (Len(outbox') > Len(outbox) => NextId = Len(outbox'))
  BY DispatchId DEF effect
<1>2. ASSUME PopsOk(<<vp, mp, dp>>), ExtStatus(~replied, effect, mp, NextId)
      PROVE  StatusReturn
  <2>1. mp \in Nat
    BY <1>2 DEF PopsOk, Fits, U32
  <2>2. QED BY <1>1, <1>2, <2>1, ExtStatusReturns
<1>3. QED BY <1>2, FailuresTrap, Zenon DEF ReplyCommit, effect, m

LEMMA CreateProgramStatus ==
    ASSUME TypeInv, NEW s, NEW g, NEW ch, NEW sp, NEW sl, NEW pp, NEW pl, NEW vp,
           NEW prp, NEW dp,
           CreateProgram(s, g, ch, sp, sl, pp, pl, vp, prp, dp), phase' = "Running"
    PROVE  StatusReturn
<1> DEFINE m == [kind |-> "init", to |-> mem[ch],
                 payload |-> ReadBytes(pp, pl)]
<1> DEFINE effect == (/\ Dispatch(m)
                      /\ UNCHANGED <<handles, replyBuf, replied>>)
<1>1. TRUE /\ effect => (Len(outbox') > Len(outbox) => NextId = Len(outbox'))
  BY DispatchId DEF effect
<1>2. ASSUME PopsOk(<<ch, sp, sl, pp, pl, vp, prp, dp>>), ExtStatus(TRUE, effect, prp, NextId)
      PROVE  StatusReturn
  <2>1. prp \in Nat
    BY <1>2 DEF PopsOk, Fits, U32
  <2>2. QED BY <1>1, <1>2, <2>1, ExtStatusReturns
<1>3. QED BY <1>2, FailuresTrap, Zenon DEF CreateProgram, effect, m

\* send_init hands out a handle, not a message id; the pushes queue nothing.
LEMMA BuilderStatus ==
    ASSUME TypeInv, phase' = "Running"
    PROVE  /\ send_init => StatusReturn
           /\ send_push => StatusReturn
           /\ reply_push => StatusReturn
<1>0. outbox \in Seq(Msg)
  BY DEF TypeInv, TypeOK
<1>1. send_init => StatusReturn
  <2> SUFFICES ASSUME send_init PROVE StatusReturn
    OBVIOUS
  <2> DEFINE effect == /\ handles' = Append(handles, [open |-> TRUE,
                                                    payload |-> << >>])
                       /\ UNCHANGED <<outbox, replyBuf, replied>>
  <2>1. PICK hp \in Args32 :
          \/ PopFailed(<<hp>>)
          \/ PopsOk(<<hp>>) /\ ExtStatus(TRUE, effect, hp, Len(handles))
    BY DEF send_init
  <2>2. TRUE /\ effect =>
          (Len(outbox') > Len(outbox) => Len(handles) = Len(outbox'))
    BY <1>0
  <2>3. ASSUME PopsOk(<<hp>>), ExtStatus(TRUE, effect, hp, Len(handles))
        PROVE  StatusReturn
    <3>1. hp \in Nat
      BY <2>3 DEF PopsOk, Fits, U32
    <3>2. QED BY <2>2, <2>3, <3>1, ExtStatusReturns
  <2>4. QED BY <2>1, <2>3, FailuresTrap
<1>2. send_push => StatusReturn
  <2> SUFFICES ASSUME send_push PROVE StatusReturn
    OBVIOUS
  <2>1. PICK h, pp, pl \in Args32 :
          \/ PopFailed(<<h, pp, pl>>)
          \/ /\ PopsOk(<<h, pp, pl>>)
             /\ \/ CheckFailed(<<ReadRange(pp, pl)>>)
                \/ /\ InMem(pp, pl)
                   /\ PushStatus(OpenHandle(h),
                        /\ handles' = [handles EXCEPT ![h + 1].payload =
                                                         @ \o ReadBytes(pp, pl)]
                        /\ UNCHANGED <<outbox, replyBuf, replied>>)
    BY DEF send_push
  <2> DEFINE effect == /\ handles' = [handles EXCEPT ![h + 1].payload =
                                                       @ \o ReadBytes(pp, pl)]
                       /\ UNCHANGED <<outbox, replyBuf, replied>>
  <2>2. PushStatus(OpenHandle(h), effect) => StatusReturn
    BY PushStatusReturns
  <2>3. QED BY <2>1, <2>2, FailuresTrap
<1>3. reply_push => StatusReturn
  <2> SUFFICES ASSUME reply_push PROVE StatusReturn
    OBVIOUS
  <2>1. PICK pp, pl \in Args32 :
          \/ PopFailed(<<pp, pl>>)
          \/ /\ PopsOk(<<pp, pl>>)
             /\ \/ CheckFailed(<<ReadRange(pp, pl)>>)
                \/ /\ InMem(pp, pl)
                   /\ PushStatus(~replied,
                        /\ replyBuf' = replyBuf \o ReadBytes(pp, pl)
                        /\ UNCHANGED <<outbox, handles, replied>>)
    BY DEF reply_push
  <2> DEFINE effect == /\ replyBuf' = replyBuf \o ReadBytes(pp, pl)
                       /\ UNCHANGED <<outbox, handles, replied>>
  <2>2. PushStatus(~replied, effect) => StatusReturn
    BY PushStatusReturns
  <2>3. QED BY <2>1, <2>2, FailuresTrap
<1>4. QED BY <1>1, <1>2, <1>3

\* A message handler that returns to the guest keeps the status contract.
LEMMA MessageStatus ==
    ASSUME TypeInv, MessageSyscall, phase' = "Running"
    PROVE  StatusReturn
BY SendMsgStatus, SendCommitStatus, ReplyMsgStatus, ReplyCommitStatus,
   CreateProgramStatus, BuilderStatus
DEF MessageSyscall, send, send_wgas, send_commit, send_commit_wgas,
    reply, reply_wgas, reply_commit, reply_commit_wgas, create_program,
    create_program_wgas

LEMMA StatusCodeStepHolds ==
    ASSUME TypeInv, [Next]_vars
    PROVE  [StatusCodeStep]_vars
<1>1. CASE MessageSyscall
  BY <1>1, MessageStatus DEF StatusCodeStep, StatusReturn
<1>2. CASE ControlSyscall \/ QuerySyscall \/ MemorySyscall
  <2>1. sys' \notin StatusSyscalls
    BY <1>2, OtherSys
    DEF ControlSyscall, MemorySyscall, StatusSyscalls, NeverReturn,
        QueryNames, MemoryNames
  <2>2. QED BY <2>1 DEF StatusCodeStep
<1>3. CASE GuestReturn
  BY <1>3, NotIssued DEF GuestReturn
<1>4. CASE Finished \/ UNCHANGED vars
  BY <1>4 DEF Finished, vars
<1>5. QED BY <1>1, <1>2, <1>3, <1>4 DEF Next

\* The status-code contract of the outgoing-message handlers, for every
\* width and bound: a send*, reply*, *_push, send_init or create_program*
\* call that returns to the guest returns 0, keeps the last error and has
\* written the id of the message it queued (error_len_on_success writes
\* after the effect); or returns exactly the recorded error length and has
\* changed neither memory nor Ext.  It needs ErrLensAssumption: the status
\* reaches the guest through `code as i32'.
THEOREM StatusContract == Spec => StatusCodeContract
<1>1. Spec => []TypeInv
  BY TypeInvAlways
<1>2. TypeInv /\ [Next]_vars => [StatusCodeStep]_vars
  BY StatusCodeStepHolds
<1>3. QED BY <1>1, <1>2, PTL DEF Spec, StatusCodeContract

=============================================================================

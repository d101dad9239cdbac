--------------------------- MODULE SyscallsProofs ---------------------------
(***************************************************************************)
(* Proofs about the guest call of Syscalls, for every value of the         *)
(* constants.                                                              *)
(***************************************************************************)
EXTENDS Syscalls, TLAPS

\* The end of a handler: it traps, or it leaves the phase and the trap
\* context as they are; and whatever it records is not ReadLenOverflow.
HandlerEnd ==
    /\ phase' = "Trapped" \/ UNCHANGED <<phase, err>>
    /\ err' = err \/ err'.kind # "ReadLenOverflow"

\* The reasons the handlers record, other than read's overflow.
OtherKinds == ErrKinds \ {"ReadLenOverflow"}

\* The checks a handler makes before its Ext call all fail with such a
\* reason.
LEMMA CheckKinds ==
    ASSUME NEW p, NEW n
    PROVE  /\ ReadPtr(p)[2].kind \in OtherKinds
           /\ ReadRange(p, n)[2].kind \in OtherKinds
           /\ ToPayload(n)[2].kind \in OtherKinds
BY DEF ReadPtr, ReadRange, ToPayload, E, Err, OtherKinds, ErrKinds

\* The reasons the handlers other than read record.
LEMMA KindFacts ==
    {"Core", "RuntimeCtx", "Memory", "NonReplyExitCode", "NoReplyContext",
     "SyscallErrorExpected", "RuntimeBufferSize", "DebugString", "Exit",
     "Leave", "Wait", "GasAllowanceExceeded"} \subseteq OtherKinds
BY DEF OtherKinds, ErrKinds

\* The building blocks every handler ends in.
LEMMA EndsOfHandler ==
    /\ \A k \in OtherKinds : \A a : Trap(Err(k, a)) => HandlerEnd
    /\ \A k \in OtherKinds : Trap(E(k)) => HandlerEnd
    /\ HostError => HandlerEnd
    /\ \A v : Return(v) => HandlerEnd
    /\ ExtFatal => HandlerEnd
    /\ \A a : PopFailed(a) => HandlerEnd
    /\ \A c : (\A i \in DOMAIN c : c[i][2].kind \in OtherKinds) =>
                 (CheckFailed(c) => HandlerEnd)
    /\ \A g : GasPopFailed(g) => HandlerEnd
BY DEF HandlerEnd, Trap, HostError, Return, ExtFatal, PopFailed, CheckFailed,
       FirstFailure, GasPopFailed, E, Err, OtherKinds

LEMMA StatusEnds ==
    ASSUME NEW STATE valid, NEW ACTION effect, NEW p, NEW STATE id
    PROVE  /\ ExtStatus(valid, effect, p, id) => HandlerEnd
           /\ PushStatus(valid, effect) => HandlerEnd
BY EndsOfHandler, KindFacts DEF ExtStatus, PushStatus

LEMMA SendMsgEnds ==
    ASSUME NEW s, NEW g, NEW pid, NEW pp, NEW pl, NEW vp, NEW mp, NEW dp,
           SendMsg(s, g, pid, pp, pl, vp, mp, dp)
    PROVE  HandlerEnd
<1>1. \A i \in DOMAIN <<ReadPtr(pid), ReadRange(pp, pl), ToPayload(pl), ReadPtr(vp), ReadPtr(dp)>> : <<ReadPtr(pid), ReadRange(pp, pl), ToPayload(pl), ReadPtr(vp), ReadPtr(dp)>>[i][2].kind \in OtherKinds
  BY CheckKinds
<1>2. QED BY <1>1, EndsOfHandler, StatusEnds, Zenon DEF SendMsg

LEMMA SendCommitEnds ==
    ASSUME NEW s, NEW g, NEW h, NEW mp, NEW pid, NEW vp, NEW dp,
           SendCommit(s, g, h, mp, pid, vp, dp)
    PROVE  HandlerEnd
<1>1. \A i \in DOMAIN <<ReadPtr(pid), ReadPtr(vp), ReadPtr(dp)>> : <<ReadPtr(pid), ReadPtr(vp), ReadPtr(dp)>>[i][2].kind \in OtherKinds
  BY CheckKinds
<1>2. QED BY <1>1, EndsOfHandler, StatusEnds, Zenon DEF SendCommit

LEMMA ReplyMsgEnds ==
    ASSUME NEW s, NEW g, NEW pp, NEW pl, NEW vp, NEW mp, NEW dp,
           ReplyMsg(s, g, pp, pl, vp, mp, dp)
    PROVE  HandlerEnd
<1>1. \A i \in DOMAIN <<ReadRange(pp, pl), ToPayload(pl), ReadPtr(vp), ReadPtr(dp)>> : <<ReadRange(pp, pl), ToPayload(pl), ReadPtr(vp), ReadPtr(dp)>>[i][2].kind \in OtherKinds
  BY CheckKinds
<1>2. QED BY <1>1, EndsOfHandler, StatusEnds, Zenon DEF ReplyMsg

LEMMA ReplyCommitEnds ==
    ASSUME NEW s, NEW g, NEW vp, NEW mp, NEW dp, ReplyCommit(s, g, vp, mp, dp)
    PROVE  HandlerEnd
<1>1. \A i \in DOMAIN <<ReadPtr(vp), ReadPtr(dp)>> : <<ReadPtr(vp), ReadPtr(dp)>>[i][2].kind \in OtherKinds
  BY CheckKinds
<1>2. QED BY <1>1, EndsOfHandler, StatusEnds, Zenon DEF ReplyCommit

LEMMA CreateProgramEnds ==
    ASSUME NEW s, NEW g, NEW ch, NEW sp, NEW sl, NEW pp, NEW pl, NEW vp,
           NEW prp, NEW dp, CreateProgram(s, g, ch, sp, sl, pp, pl, vp, prp, dp)
    PROVE  HandlerEnd
<1>1. \A i \in DOMAIN <<ReadPtr(ch), ReadRange(sp, sl), ReadRange(pp, pl), ToPayload(pl), ReadPtr(vp), ReadPtr(dp)>> : <<ReadPtr(ch), ReadRange(sp, sl), ReadRange(pp, pl), ToPayload(pl), ReadPtr(vp), ReadPtr(dp)>>[i][2].kind \in OtherKinds
  BY CheckKinds
<1>2. QED BY <1>1, EndsOfHandler, StatusEnds, Zenon DEF CreateProgram

LEMMA BuilderEnds ==
    /\ send_init => HandlerEnd
    /\ send_push => HandlerEnd
    /\ reply_push => HandlerEnd
<1>1. \A pp, pl : \A i \in DOMAIN <<ReadRange(pp, pl)>> :
                      <<ReadRange(pp, pl)>>[i][2].kind \in OtherKinds
  BY CheckKinds
<1>2. QED BY <1>1, EndsOfHandler, StatusEnds, Zenon
          DEF send_init, send_push, reply_push

LEMMA MessageEnds == MessageSyscall => HandlerEnd
BY SendMsgEnds, SendCommitEnds, ReplyMsgEnds, ReplyCommitEnds,
   CreateProgramEnds, BuilderEnds
   DEF MessageSyscall, send, send_wgas, send_commit, send_commit_wgas,
       reply, reply_wgas, reply_commit, reply_commit_wgas, create_program,
       create_program_wgas

LEMMA ControlEnds == ControlSyscall => HandlerEnd
<1>1. \A p : \A i \in DOMAIN <<ReadPtr(p)>> :
                 <<ReadPtr(p)>>[i][2].kind \in OtherKinds
  BY CheckKinds
<1>2. \A wp, dp : \A i \in DOMAIN <<ReadPtr(wp), ReadPtr(dp)>> :
                      <<ReadPtr(wp), ReadPtr(dp)>>[i][2].kind \in OtherKinds
  BY CheckKinds
<1>3. QED
  BY <1>1, <1>2, EndsOfHandler, KindFacts, Zenon
  DEF ControlSyscall, exit, leave, wait, wait_for, wait_up_to,
      WaitWithDuration, forbidden, wake

LEMMA QueryEnds == QuerySyscall => HandlerEnd
BY EndsOfHandler, KindFacts, Zenon
   DEF QuerySyscall, size, block_height, block_timestamp, gas_available,
       exit_code, origin, msg_id, program_id, source, value, value_available,
       WriteQueried, reply_to

\* read's checked_add cannot fail: at and len are i32 values that
\* converted to u32, so their sum stays below Mod32 <= ModUsize.
LEMMA ReadSumFits ==
    ASSUME NEW at \in Args32, NEW len \in Args32, NEW dest,
           PopsOk(<<at, len, dest>>)
    PROVE  CheckedAdd(at, len) # -1
<1>1. at \in 0 .. Mod32 \div 2 - 1 /\ len \in 0 .. Mod32 \div 2 - 1
  BY CodecAssumption, SyscallsAssumption DEF PopsOk, Fits, U32, I32
<1>2. at + len \in Usize
  BY <1>1, CodecAssumption DEF Usize
<1>3. QED BY <1>2 DEF CheckedAdd, Usize

LEMMA ReadEnds == read => HandlerEnd
<1> SUFFICES ASSUME read PROVE HandlerEnd
  OBVIOUS
<1>1. PICK at, len, dest \in Args32 :
        \/ PopFailed(<<at, len, dest>>)
        \/ /\ PopsOk(<<at, len, dest>>)
           /\ UNCHANGED extVars
           /\ LET last == CheckedAdd(at, len) IN
              \/ Trap(E("Core")) /\ UNCHANGED mem
              \/ /\ last = -1
                 /\ Trap(Err("ReadLenOverflow", <<at, len, 0>>))
                 /\ UNCHANGED mem
              \/ /\ last # -1 /\ last > Len(Payload)
                 /\ Trap(Err("ReadWrongRange", <<at, last, Len(Payload)>>))
                 /\ UNCHANGED mem
              \/ /\ last # -1 /\ last <= Len(Payload)
                 /\ \/ /\ ~InMem(dest, len)
                       /\ Trap(E("Memory")) /\ UNCHANGED mem
                    \/ /\ InMem(dest, len)
                       /\ mem' = WriteBytes(dest, SubSeq(Payload, at + 1, last))
                       /\ Return(Unit)
  BY DEF read
<1>2. CASE PopFailed(<<at, len, dest>>)
  BY <1>2, EndsOfHandler
<1>3. CASE PopsOk(<<at, len, dest>>)
  <2>1. CheckedAdd(at, len) # -1
    BY <1>3, ReadSumFits
  <2>2. "ReadWrongRange" \in OtherKinds
    BY DEF OtherKinds, ErrKinds
  <2>3. QED BY <1>1, <1>3, <2>1, <2>2, EndsOfHandler, KindFacts, Zenon
<1>4. QED BY <1>1, <1>2, <1>3

LEMMA MemoryEnds == MemorySyscall => HandlerEnd
<1>1. \A p, n : \A i \in DOMAIN
        << <<n <= MaxBuffer, E("RuntimeBufferSize")>>, ReadRange(p, n),
           <<InMem(p, n) => \A j \in 1 .. n : mem[p + j - 1] \notin BadUtf8,
             E("DebugString")>> >> :
        << <<n <= MaxBuffer, E("RuntimeBufferSize")>>, ReadRange(p, n),
           <<InMem(p, n) => \A j \in 1 .. n : mem[p + j - 1] \notin BadUtf8,
             E("DebugString")>> >>[i][2].kind \in OtherKinds
  BY CheckKinds, KindFacts DEF E, Err
<1>2. QED
  BY <1>1, ReadEnds, EndsOfHandler, KindFacts, Zenon
  DEF MemorySyscall, gas, alloc, free, debug, error

\* The trap context is empty while the guest runs: NoErrorPendingWhileRunning
\* is inductive on its own, because every handler either traps or leaves
\* ctx.err alone.
THEOREM NoErrorPending == Spec => []NoErrorPendingWhileRunning
<1>1. Init => NoErrorPendingWhileRunning
  BY DEF Init, NoErrorPendingWhileRunning
<1>2. NoErrorPendingWhileRunning /\ [Next]_vars => NoErrorPendingWhileRunning'
  <2> SUFFICES ASSUME NoErrorPendingWhileRunning, [Next]_vars
               PROVE  NoErrorPendingWhileRunning'
    OBVIOUS
  <2>1. CASE MessageSyscall \/ ControlSyscall \/ QuerySyscall \/ MemorySyscall
    BY <2>1, MessageEnds, ControlEnds, QueryEnds, MemoryEnds
       DEF HandlerEnd, NoErrorPendingWhileRunning
  <2>2. CASE GuestReturn
    BY <2>2 DEF GuestReturn, NoErrorPendingWhileRunning
  <2>3. CASE Finished \/ UNCHANGED vars
    BY <2>3 DEF Finished, vars, NoErrorPendingWhileRunning
  <2>4. QED BY <2>1, <2>2, <2>3 DEF Next
<1>3. QED BY <1>1, <1>2, PTL DEF Spec

\* read's checked_add never fails, whatever the widths: every handler
\* either leaves ctx.err alone or records a reason other than
\* ReadLenOverflow, and read itself cannot reach that reason because its
\* u32-converted i32 arguments sum to less than usize::MAX.
THEOREM ReadNeverOverflows == Spec => []NoReadLenOverflow
<1>1. Init => NoReadLenOverflow
  BY DEF Init, NoErr, E, Err, NoReadLenOverflow
<1>2. NoReadLenOverflow /\ [Next]_vars => NoReadLenOverflow'
  <2> SUFFICES ASSUME NoReadLenOverflow, [Next]_vars
               PROVE  NoReadLenOverflow'
    OBVIOUS
  <2>1. CASE MessageSyscall \/ ControlSyscall \/ QuerySyscall \/ MemorySyscall
    BY <2>1, MessageEnds, ControlEnds, QueryEnds, MemoryEnds
       DEF HandlerEnd, NoReadLenOverflow
  <2>2. CASE GuestReturn
    BY <2>2 DEF GuestReturn, NoReadLenOverflow
  <2>3. CASE Finished \/ UNCHANGED vars
    BY <2>3 DEF Finished, vars, NoReadLenOverflow
  <2>4. QED BY <2>1, <2>2, <2>3 DEF Next
<1>3. QED BY <1>1, <1>2, PTL DEF Spec
=============================================================================

---------------------------- MODULE SyscallsTypes ----------------------------
(***************************************************************************)
(* Type correctness of the syscall layer of funcs.rs (THEOREM TypeCorrect). *)
(* TypeOK is not inductive by itself: a handler writes the id of the        *)
(* message it dispatched (NextId, Len(handles)) into guest memory, and that *)
(* id is a cell only because the outbox and the handle table grow by at    *)
(* most one entry per syscall, so never past MaxCalls.  TypeInv adds that. *)
(* The proof has one lemma per handler shape and one per family.           *)
(***************************************************************************)
EXTENDS Syscalls, TLAPS

\* The inductive strengthening of TypeOK.

TypeInv == TypeOK /\ Len(outbox) <= calls /\ Len(handles) <= calls

\* The control variables a handler's ending sets, and the frame of a
\* failure.
CtlOK == phase \in {"Running", "Trapped", "Returned"} /\ err \in ErrType /\ ret \in RetType
Frame == UNCHANGED <<mem, extVars>>

\* Every FuncError the handlers put into ctx.err is a well-formed reason.
LEMMA ErrTypes ==
    /\ \A k \in ErrKinds : E(k) \in ErrType
    /\ \A k \in ErrKinds : \A c \in Cells : Err(k, <<c>>) \in ErrType
    /\ \A k \in ErrKinds : \A x, y, z \in Nat : Err(k, <<x, y, z>>) \in ErrType
BY DEF E, Err, ErrType

\* The ways a handler ends (trap, bare HostError, return to the guest,
\* fatal Ext error, failed pop, failed read) give the control variables
\* values of their types, and the failures leave memory and Ext alone.
LEMMA EndTypes ==
    ASSUME TypeInv
    PROVE  /\ \A e \in ErrType : Trap(e) => CtlOK'
           /\ HostError => CtlOK'
           /\ \A v \in RetType : Return(v) => CtlOK'
           /\ ExtFatal => CtlOK' /\ Frame
           /\ \A a : PopFailed(a) => CtlOK' /\ Frame
           /\ \A c : (\A i \in DOMAIN c : c[i][2] \in ErrType) =>
                        (CheckFailed(c) => CtlOK' /\ Frame)
           /\ \A g : GasPopFailed(g) => CtlOK' /\ Frame
<1>1. \A e \in ErrType : Trap(e) => CtlOK'
  BY DEF Trap, CtlOK, TypeInv, TypeOK
<1>2. HostError => CtlOK'
  BY DEF HostError, CtlOK, TypeInv, TypeOK
<1>3. \A v \in RetType : Return(v) => CtlOK'
  BY DEF Return, CtlOK, TypeInv, TypeOK
<1>4. E("Core") \in ErrType
  BY ErrTypes DEF ErrKinds
<1>5. QED
  BY <1>1, <1>2, <1>3, <1>4 DEF ExtFatal, PopFailed, CheckFailed, GasPopFailed, Frame

\* A syscall step keeps the invariant when it gives every variable a value
\* of its type and dispatches or opens at most one message.
LEMMA StepType ==
    ASSUME TypeInv, NEW s \in Syscall, Issue(s), CtlOK',
           mem' \in [Addr -> Cells],
           outbox' \in Seq(Msg), Len(outbox') <= Len(outbox) + 1,
           handles' \in Seq(Handle), Len(handles') <= Len(handles) + 1,
           replyBuf' \in Seq(Cells), replied' \in BOOLEAN,
           lastError' \in {0} \cup ErrLens,
           allocated' \in SUBSET (0 .. MaxPages - 1)
    PROVE  TypeInv'
BY SyscallsAssumption DEF TypeInv, TypeOK, CtlOK, Issue

\* A step that changes only the control variables.
LEMMA FrameType ==
    ASSUME TypeInv, NEW s \in Syscall, Issue(s), CtlOK', Frame
    PROVE  TypeInv'
BY StepType DEF TypeInv, TypeOK, Frame, extVars

\* exit: the beneficiary read, the Ext call and the Exit trap keep the invariant.
LEMMA ExitType == TypeInv /\ exit => TypeInv'
<1> SUFFICES ASSUME TypeInv, exit PROVE TypeInv'
  OBVIOUS
<1>1. "exit" \in Syscall
  BY DEF Syscall
<1>2. \A p \in Args32 : \A i \in DOMAIN <<ReadPtr(p)>> : <<ReadPtr(p)>>[i][2] \in ErrType
  BY ErrTypes DEF ReadPtr, ErrKinds
<1>3. \A p \in Addr : Err("Exit", <<mem[p]>>) \in ErrType
  BY ErrTypes DEF TypeInv, TypeOK, ErrKinds
<1>4. CtlOK' /\ Frame
  <2>1. PICK p \in Args32 :
          \/ PopFailed(<<p>>)
          \/ PopsOk(<<p>>) /\ CheckFailed(<<ReadPtr(p)>>)
          \/ /\ PopsOk(<<p>>) /\ InMem(p, 1)
             /\ \/ ExtFatal
                \/ Trap(Err("Exit", <<mem[p]>>)) /\ UNCHANGED <<mem, extVars>>
    BY DEF exit
  <2>2. PopsOk(<<p>>) /\ InMem(p, 1) => p \in Addr
    BY SyscallsAssumption DEF PopsOk, Fits, U32, InMem, Addr
  <2>3. QED BY <2>1, <2>2, <1>2, <1>3, EndTypes DEF Frame
<1>5. QED BY <1>1, <1>4, FrameType DEF exit

\* The reasons and values the control and query handlers produce.
LEMMA ConstTypes ==
    /\ {E(k) : k \in ErrKinds} \subseteq ErrType
    /\ "Core" \in ErrKinds /\ "Leave" \in ErrKinds /\ "Wait" \in ErrKinds
    /\ "NonReplyExitCode" \in ErrKinds /\ "NoReplyContext" \in ErrKinds
    /\ "Memory" \in ErrKinds /\ "RuntimeCtx" \in ErrKinds
    /\ "GasAllowanceExceeded" \in ErrKinds /\ "SyscallErrorExpected" \in ErrKinds
    /\ "RuntimeBufferSize" \in ErrKinds /\ "DebugString" \in ErrKinds
    /\ "ReadWrongRange" \in ErrKinds /\ "ReadLenOverflow" \in ErrKinds
    /\ "PayloadSize" \in ErrKinds
    /\ Unit \in RetType
    /\ \A v \in I32 : Val(v) \in RetType
    /\ \A v \in I64 : Val(v) \in RetType
BY ErrTypes DEF ErrKinds, RetType

\* leave, wait and forbidden only trap.
LEMMA LeaveWaitType == TypeInv /\ (leave \/ wait \/ forbidden) => TypeInv'
<1> SUFFICES ASSUME TypeInv, leave \/ wait \/ forbidden PROVE TypeInv'
  OBVIOUS
<1>1. {"leave", "wait", "forbidden"} \subseteq Syscall
  BY DEF Syscall
<1>2. E("Leave") \in ErrType /\ E("Wait") \in ErrType /\ E("Core") \in ErrType
  BY ConstTypes
<1>3. QED BY <1>1, <1>2, EndTypes, FrameType DEF leave, wait, forbidden, Frame

\* wait_for and wait_up_to: the duration pop, the Ext call and the trap.
LEMMA WaitWithDurationType ==
    ASSUME NEW s \in {"wait_for", "wait_up_to"}, TypeInv, WaitWithDuration(s)
    PROVE  TypeInv'
<1>1. s \in Syscall
  BY DEF Syscall
<1>2. \A p \in Args32 : \A i \in DOMAIN <<ReadPtr(p)>> : <<ReadPtr(p)>>[i][2] \in ErrType
  BY ErrTypes DEF ReadPtr, ErrKinds
<1>3. \A p \in Addr : Err("Wait", <<mem[p]>>) \in ErrType
  BY ErrTypes DEF TypeInv, TypeOK, ErrKinds
<1>4. CtlOK' /\ Frame
  <2>1. PICK p \in Args32 :
          \/ PopFailed(<<p>>)
          \/ PopsOk(<<p>>) /\ CheckFailed(<<ReadPtr(p)>>)
          \/ /\ PopsOk(<<p>>) /\ InMem(p, 1)
             /\ \/ ExtFatal
                \/ Trap(Err("Wait", <<mem[p]>>)) /\ UNCHANGED <<mem, extVars>>
    BY DEF WaitWithDuration
  <2>2. PopsOk(<<p>>) /\ InMem(p, 1) => p \in Addr
    BY SyscallsAssumption DEF PopsOk, Fits, U32, InMem, Addr
  <2>3. QED BY <2>1, <2>2, <1>2, <1>3, EndTypes DEF Frame
<1>5. QED BY <1>1, <1>4, FrameType DEF WaitWithDuration

\* wake: the message-id read and the Ext call.
LEMMA WakeType == TypeInv /\ wake => TypeInv'
<1> SUFFICES ASSUME TypeInv, wake PROVE TypeInv'
  OBVIOUS
<1>1. "wake" \in Syscall
  BY DEF Syscall
<1>2. \A wp, dp \in Args32 : \A i \in DOMAIN <<ReadPtr(wp), ReadPtr(dp)>> :
          <<ReadPtr(wp), ReadPtr(dp)>>[i][2] \in ErrType
  BY ErrTypes DEF ReadPtr, ErrKinds
<1>3. CtlOK' /\ Frame
  BY <1>2, EndTypes, ConstTypes DEF wake, Frame
<1>4. QED BY <1>1, <1>3, FrameType DEF wake

\* The control-flow family (exit, leave, wait*, forbidden, wake).
LEMMA ControlType == TypeInv /\ ControlSyscall => TypeInv'
BY ExitType, LeaveWaitType, WaitWithDurationType, WakeType
DEF ControlSyscall, wait_for, wait_up_to

\* Ext's answers the query handlers return fit their types.
LEMMA ValueTypes ==
    /\ Fits(Len(Payload), I32) => Val(Len(Payload)) \in RetType
    /\ \A h \in Heights : Fits(h, I32) => Val(h) \in RetType
    /\ \A t \in Stamps : Fits(t, I64) => Val(t) \in RetType
    /\ \A g \in GasLeft : Fits(g, I64) => Val(g) \in RetType
    /\ \A c \in ExitCodes : Val(c) \in RetType
BY SyscallsAssumption, ConstTypes DEF Fits

\* The handlers that return one host value (size, block_height, ...),
\* converted by return_i32 / return_i64.
LEMMA ScalarQueryType ==
    TypeInv /\ (size \/ block_height \/ block_timestamp \/ gas_available \/ exit_code)
    => TypeInv'
<1> SUFFICES ASSUME TypeInv,
                    size \/ block_height \/ block_timestamp \/ gas_available \/ exit_code
             PROVE  TypeInv'
  OBVIOUS
<1>1. {"size", "block_height", "block_timestamp", "gas_available", "exit_code"}
        \subseteq Syscall
  BY DEF Syscall
<1>2. E("Core") \in ErrType /\ E("NonReplyExitCode") \in ErrType
  BY ConstTypes
<1>3. CtlOK' /\ Frame
  BY <1>2, ValueTypes, EndTypes
  DEF size, block_height, block_timestamp, gas_available, exit_code, Frame
<1>4. QED BY <1>1, <1>3, FrameType
  DEF size, block_height, block_timestamp, gas_available, exit_code

\* A step that writes guest memory and leaves Ext alone.
LEMMA MemWriteType ==
    ASSUME TypeInv, NEW s \in Syscall, Issue(s), CtlOK',
           mem' \in [Addr -> Cells], UNCHANGED extVars
    PROVE  TypeInv'
BY StepType DEF TypeInv, TypeOK, extVars

\* One cell written at p, in bounds.
LEMMA CellWrite ==
    ASSUME TypeInv, NEW p \in Args32, InMem(p, 1), PopsOk(<<p>>),
           NEW v \in Cells
    PROVE  [mem EXCEPT ![p] = v] \in [Addr -> Cells]
BY SyscallsAssumption DEF TypeInv, TypeOK, InMem, PopsOk, Fits, U32, Addr

\* The handlers that write one host value to guest memory (origin,
\* msg_id, program_id, source, value, value_available).
LEMMA WriteQueriedType ==
    ASSUME NEW s \in {"origin", "msg_id", "program_id", "source", "value",
                      "value_available"},
           TypeInv, WriteQueried(s)
    PROVE  TypeInv'
<1>1. s \in Syscall
  BY DEF Syscall
<1>2. PICK p \in Args32 :
        \/ PopFailed(<<p>>)
        \/ /\ PopsOk(<<p>>)
           /\ \/ ExtFatal
              \/ /\ ~InMem(p, 1)
                 /\ Trap(E("Memory")) /\ UNCHANGED <<mem, extVars>>
              \/ /\ InMem(p, 1)
                 /\ \E v \in Data : mem' = [mem EXCEPT ![p] = v]
                 /\ Return(Unit) /\ UNCHANGED extVars
  BY DEF WriteQueried
<1>3. CASE \/ PopFailed(<<p>>)
           \/ PopsOk(<<p>>) /\ ExtFatal
           \/ Trap(E("Memory")) /\ UNCHANGED <<mem, extVars>>
  BY <1>1, <1>3, EndTypes, ConstTypes, FrameType DEF WriteQueried, Frame
<1>4. CASE /\ PopsOk(<<p>>) /\ InMem(p, 1)
           /\ \E v \in Data : mem' = [mem EXCEPT ![p] = v]
           /\ Return(Unit) /\ UNCHANGED extVars
  <2>1. PICK v \in Data : mem' = [mem EXCEPT ![p] = v]
    BY <1>4
  <2>2. mem' \in [Addr -> Cells]
    BY <1>4, <2>1, CellWrite DEF Cells
  <2>3. CtlOK'
    BY <1>4, EndTypes, ConstTypes
  <2>4. QED BY <1>1, <2>2, <2>3, <1>4, MemWriteType DEF WriteQueried
<1>5. QED BY <1>2, <1>3, <1>4, Zenon

\* reply_to: the NoReplyContext error or the write of the id.
LEMMA ReplyToType == TypeInv /\ reply_to => TypeInv'
<1> SUFFICES ASSUME TypeInv, reply_to PROVE TypeInv'
  OBVIOUS
<1>1. "reply_to" \in Syscall
  BY DEF Syscall
<1>2. PICK p \in Args32 :
        \/ PopFailed(<<p>>)
        \/ /\ PopsOk(<<p>>)
           /\ \/ ExtFatal
              \/ Trap(E("NoReplyContext")) /\ UNCHANGED <<mem, extVars>>
              \/ /\ ~InMem(p, 1)
                 /\ Trap(E("Memory")) /\ UNCHANGED <<mem, extVars>>
              \/ /\ InMem(p, 1)
                 /\ \E v \in Data : mem' = [mem EXCEPT ![p] = v]
                 /\ Return(Unit) /\ UNCHANGED extVars
  BY DEF reply_to
<1>3. CASE \/ PopFailed(<<p>>)
           \/ PopsOk(<<p>>) /\ ExtFatal
           \/ Trap(E("NoReplyContext")) /\ UNCHANGED <<mem, extVars>>
           \/ Trap(E("Memory")) /\ UNCHANGED <<mem, extVars>>
  BY <1>1, <1>3, EndTypes, ConstTypes, FrameType DEF reply_to, Frame
<1>4. CASE /\ PopsOk(<<p>>) /\ InMem(p, 1)
           /\ \E v \in Data : mem' = [mem EXCEPT ![p] = v]
           /\ Return(Unit) /\ UNCHANGED extVars
  <2>1. PICK v \in Data : mem' = [mem EXCEPT ![p] = v]
    BY <1>4
  <2>2. mem' \in [Addr -> Cells]
    BY <1>4, <2>1, CellWrite DEF Cells
  <2>3. CtlOK'
    BY <1>4, EndTypes, ConstTypes
  <2>4. QED BY <1>1, <2>2, <2>3, <1>4, MemWriteType DEF reply_to
<1>5. QED BY <1>2, <1>3, <1>4, Zenon

\* The query family.
LEMMA QueryType == TypeInv /\ QuerySyscall => TypeInv'
BY ScalarQueryType, WriteQueriedType, ReplyToType
DEF QuerySyscall, origin, msg_id, program_id, source, value, value_available

\* `as i32' maps every u32 into i32 (Mod32 is even).
LEMMA AsI32Type == \A x \in U32 : AsI32(x) \in I32
BY CodecAssumption DEF AsI32, U32, I32

\* Writing a sequence of cells into typed memory keeps it typed.
LEMMA WriteBytesType ==
    ASSUME TypeInv, NEW p \in Nat, NEW bytes \in Seq(Cells)
    PROVE  WriteBytes(p, bytes) \in [Addr -> Cells]
BY DEF TypeInv, TypeOK, WriteBytes, Addr

\* A handler whose arguments converted did not fail to convert them.
LEMMA PopExclusive == \A a : PopsOk(a) => ~PopFailed(a)
BY DEF PopsOk, PopFailed

\* read: checked_add, the range check and the write of the payload bytes.
LEMMA ReadType == TypeInv /\ read => TypeInv'
<1> SUFFICES ASSUME TypeInv, read PROVE TypeInv'
  OBVIOUS
<1>1. "read" \in Syscall
  BY DEF Syscall
<1>2. PICK at, len, dest \in Args32 :
        \/ PopFailed(<<at, len, dest>>)
        \/ /\ PopsOk(<<at, len, dest>>)
           /\ UNCHANGED extVars
           /\ LET last == CheckedAdd(at, len) IN
              \/ Trap(E("Core")) /\ UNCHANGED mem
              \/ /\ last = -1
                 /\ Trap(Err("ReadLenOverflow", <<at, len, 0>>))
                 /\ UNCHANGED mem
              \/ /\ last # -1 /\ last > Len(Payload)
                 /\ Trap(Err("ReadWrongRange", <<at, last, Len(Payload)>>))
                 /\ UNCHANGED mem
              \/ /\ last # -1 /\ last <= Len(Payload)
                 /\ \/ /\ ~InMem(dest, len)
                       /\ Trap(E("Memory")) /\ UNCHANGED mem
                    \/ /\ InMem(dest, len)
                       /\ mem' = WriteBytes(dest, SubSeq(Payload, at + 1, last))
                       /\ Return(Unit)
  BY DEF read
<1>3. CASE PopFailed(<<at, len, dest>>)
  BY <1>1, <1>3, EndTypes, FrameType DEF read
<1>4. CASE PopsOk(<<at, len, dest>>)
  <2> DEFINE last == CheckedAdd(at, len)
  <2>1. at \in Nat /\ len \in Nat /\ dest \in Nat
    BY <1>4, SyscallsAssumption DEF PopsOk, Fits, U32
  <2>2. last = -1 \/ last = at + len
    BY DEF CheckedAdd
  <2>3. /\ UNCHANGED extVars
        /\ \/ Trap(E("Core")) /\ UNCHANGED mem
           \/ Trap(Err("ReadLenOverflow", <<at, len, 0>>)) /\ UNCHANGED mem
           \/ /\ last # -1
              /\ Trap(Err("ReadWrongRange", <<at, last, Len(Payload)>>))
              /\ UNCHANGED mem
           \/ /\ last # -1 /\ last <= Len(Payload)
              /\ Trap(E("Memory")) /\ UNCHANGED mem
           \/ /\ last # -1 /\ last <= Len(Payload)
              /\ mem' = WriteBytes(dest, SubSeq(Payload, at + 1, last))
              /\ Return(Unit)
    BY <1>2, <1>4, PopExclusive, Zenon
  <2>4. CASE Trap(E("Core")) /\ UNCHANGED mem
    BY <2>3, <2>4, EndTypes, ConstTypes, MemWriteType, <1>1 DEF TypeInv, TypeOK, read
  <2>5. CASE Trap(Err("ReadLenOverflow", <<at, len, 0>>)) /\ UNCHANGED mem
    <3>1. Err("ReadLenOverflow", <<at, len, 0>>) \in ErrType
      BY <2>1, ErrTypes, ConstTypes
    <3>2. QED BY <3>1, <2>3, <2>5, EndTypes, MemWriteType, <1>1
              DEF TypeInv, TypeOK, read
  <2>6. CASE /\ last # -1
             /\ Trap(Err("ReadWrongRange", <<at, last, Len(Payload)>>))
             /\ UNCHANGED mem
    <3>1. Err("ReadWrongRange", <<at, last, Len(Payload)>>) \in ErrType
      BY <2>1, <2>2, <2>6, ErrTypes, ConstTypes, SyscallsAssumption
    <3>2. QED BY <3>1, <2>3, <2>6, EndTypes, MemWriteType, <1>1
              DEF TypeInv, TypeOK, read
  <2>7. CASE Trap(E("Memory")) /\ UNCHANGED mem
    BY <2>3, <2>7, EndTypes, ConstTypes, MemWriteType, <1>1 DEF TypeInv, TypeOK, read
  <2>8. CASE /\ last # -1 /\ last <= Len(Payload)
             /\ mem' = WriteBytes(dest, SubSeq(Payload, at + 1, last))
             /\ Return(Unit)
    <3>1. SubSeq(Payload, at + 1, last) \in Seq(Cells)
      BY <2>1, <2>2, <2>8, SyscallsAssumption DEF Cells
    <3>2. WriteBytes(dest, SubSeq(Payload, at + 1, last)) \in [Addr -> Cells]
      BY <2>1, <3>1, WriteBytesType, Zenon
    <3>4. mem' \in [Addr -> Cells]
      BY <3>2, <2>8
    <3>3. QED BY <3>4, <2>3, <2>8, EndTypes, ConstTypes, MemWriteType, <1>1 DEF read
  <2>9. QED BY <2>3, <2>4, <2>5, <2>6, <2>7, <2>8
<1>5. QED BY <1>2, <1>3, <1>4

\* gas: charging, and the GasAllowanceExceeded termination.
LEMMA GasType == TypeInv /\ gas => TypeInv'
<1> SUFFICES ASSUME TypeInv, gas PROVE TypeInv'
  OBVIOUS
<1>1. "gas" \in Syscall
  BY DEF Syscall
<1>2. CtlOK' /\ Frame
  BY EndTypes, ConstTypes DEF gas, Frame
<1>3. QED BY <1>1, <1>2, FrameType DEF gas

\* A step that changes only the allocated pages among the Ext state.
LEMMA PageType ==
    ASSUME TypeInv, NEW s \in Syscall, Issue(s), CtlOK',
           UNCHANGED <<mem, outbox, handles, replyBuf, replied, lastError>>,
           allocated' \in SUBSET (0 .. MaxPages - 1)
    PROVE  TypeInv'
BY StepType DEF TypeInv, TypeOK

\* alloc: a run of free pages is allocated and its first page returned.
LEMMA AllocType == TypeInv /\ alloc => TypeInv'
<1> SUFFICES ASSUME TypeInv, alloc PROVE TypeInv'
  OBVIOUS
<1>1. "alloc" \in Syscall
  BY DEF Syscall
<1>2. PICK n \in Args32 :
        \/ ~Fits(n, U32) /\ HostError /\ UNCHANGED allocated
        \/ /\ Fits(n, U32)
           /\ \/ /\ \E p \in 0 .. MaxPages :
                      /\ FreeRun(p, n)
                      /\ \A q \in 0 .. p - 1 : ~FreeRun(q, n)
                      /\ allocated' = allocated \cup (p .. p + n - 1)
                      /\ Return(Val(AsI32(p)))
              \/ /\ \A p \in 0 .. MaxPages : ~FreeRun(p, n)
                 /\ Trap(E("RuntimeCtx")) /\ UNCHANGED allocated
  BY DEF alloc
<1>3. Issue("alloc") /\ UNCHANGED <<mem, outbox, handles, replyBuf, replied, lastError>>
  BY DEF alloc
<1>8. UNCHANGED allocated => allocated' \in SUBSET (0 .. MaxPages - 1)
  BY DEF TypeInv, TypeOK
<1>4. CASE ~Fits(n, U32) /\ HostError /\ UNCHANGED allocated
  BY <1>1, <1>3, <1>4, <1>8, EndTypes, PageType
<1>5. CASE /\ \A p \in 0 .. MaxPages : ~FreeRun(p, n)
           /\ Trap(E("RuntimeCtx")) /\ UNCHANGED allocated
  BY <1>1, <1>3, <1>5, <1>8, EndTypes, ConstTypes, PageType
<1>6. CASE \E p \in 0 .. MaxPages :
              /\ FreeRun(p, n)
              /\ \A q \in 0 .. p - 1 : ~FreeRun(q, n)
              /\ allocated' = allocated \cup (p .. p + n - 1)
              /\ Return(Val(AsI32(p)))
  <2>1. PICK p \in 0 .. MaxPages :
              /\ FreeRun(p, n)
              /\ allocated' = allocated \cup (p .. p + n - 1)
              /\ Return(Val(AsI32(p)))
    BY <1>6
  <2>2. p \in U32
    BY <2>1, SyscallsAssumption, CodecAssumption DEF U32
  <2>3. Val(AsI32(p)) \in RetType
    BY <2>2, AsI32Type, ConstTypes
  <2>4. allocated' \in SUBSET (0 .. MaxPages - 1)
    <3>1. n \in Int /\ p + n <= MaxPages
      BY <2>1, SyscallsAssumption, CodecAssumption DEF FreeRun, I32
    <3>2. p .. p + n - 1 \subseteq 0 .. MaxPages - 1
      BY <2>1, <3>1, SyscallsAssumption, CodecAssumption DEF U32
    <3>3. allocated \subseteq 0 .. MaxPages - 1
      BY DEF TypeInv, TypeOK
    <3>4. QED BY <2>1, <3>2, <3>3
  <2>5. CtlOK'
    BY <2>1, <2>3, EndTypes
  <2>6. QED BY <1>1, <1>3, <2>4, <2>5, PageType DEF alloc
<1>7. QED BY <1>2, <1>4, <1>5, <1>6, Zenon

\* free: a page leaves the allocated set.
LEMMA FreeType == TypeInv /\ free => TypeInv'
<1> SUFFICES ASSUME TypeInv, free PROVE TypeInv'
  OBVIOUS
<1>1. "free" \in Syscall
  BY DEF Syscall
<1>2. UNCHANGED <<mem, outbox, handles, replyBuf, replied, lastError>>
  BY DEF free
<1>3. CtlOK'
  BY EndTypes, ConstTypes DEF free
<1>4. allocated' \in SUBSET (0 .. MaxPages - 1)
  BY DEF free, TypeInv, TypeOK
<1>5. QED BY <1>1, <1>2, <1>3, <1>4, PageType DEF free

\* debug: the UTF-8 check of the guest's string.
LEMMA DebugType == TypeInv /\ debug => TypeInv'
<1> SUFFICES ASSUME TypeInv, debug PROVE TypeInv'
  OBVIOUS
<1>1. "debug" \in Syscall
  BY DEF Syscall
<1>2. \A p, n : \A i \in DOMAIN
        << <<n <= MaxBuffer, E("RuntimeBufferSize")>>, ReadRange(p, n),
           <<InMem(p, n) => \A j \in 1 .. n : mem[p + j - 1] \notin BadUtf8,
             E("DebugString")>> >> :
        << <<n <= MaxBuffer, E("RuntimeBufferSize")>>, ReadRange(p, n),
           <<InMem(p, n) => \A j \in 1 .. n : mem[p + j - 1] \notin BadUtf8,
             E("DebugString")>> >>[i][2] \in ErrType
  BY ConstTypes DEF ReadRange
<1>3. CtlOK' /\ Frame
  BY <1>2, EndTypes, ConstTypes DEF debug, Frame
<1>4. QED BY <1>1, <1>3, FrameType DEF debug

\* error: the last error's bytes written to guest memory.
LEMMA ErrorType == TypeInv /\ error => TypeInv'
<1> SUFFICES ASSUME TypeInv, error PROVE TypeInv'
  OBVIOUS
<1>1. "error" \in Syscall
  BY DEF Syscall
<1>2. UNCHANGED extVars
  BY DEF error
<1>3. PICK p \in Args32 :
        \/ PopFailed(<<p>>)
        \/ /\ PopsOk(<<p>>) /\ lastError = 0
           /\ Trap(E("SyscallErrorExpected")) /\ UNCHANGED mem
        \/ /\ PopsOk(<<p>>) /\ lastError # 0 /\ ~InMem(p, lastError)
           /\ Trap(E("Memory")) /\ UNCHANGED mem
        \/ /\ PopsOk(<<p>>) /\ lastError # 0 /\ InMem(p, lastError)
           /\ mem' = WriteBytes(p, [i \in 1 .. lastError |-> ErrByte])
           /\ Return(Unit)
  BY DEF error
<1>4. CtlOK'
  BY <1>3, EndTypes, ConstTypes
<1>5. CASE PopsOk(<<p>>) /\ mem' = WriteBytes(p, [i \in 1 .. lastError |-> ErrByte])
  <2>1. p \in Nat
    BY <1>5, SyscallsAssumption DEF PopsOk, Fits, U32
  <2>2. [i \in 1 .. lastError |-> ErrByte] \in Seq(Cells)
    BY SyscallsAssumption DEF TypeInv, TypeOK, Cells, U32
  <2>3. WriteBytes(p, [i \in 1 .. lastError |-> ErrByte]) \in [Addr -> Cells]
    BY <2>1, <2>2, WriteBytesType, Zenon
  <2>4. QED BY <1>1, <1>2, <1>4, <1>5, <2>3, MemWriteType DEF error
<1>6. CASE ~(PopsOk(<<p>>) /\ mem' = WriteBytes(p, [i \in 1 .. lastError |-> ErrByte]))
  <2>1. UNCHANGED mem
    BY <1>3, <1>6 DEF PopFailed
  <2>2. mem' \in [Addr -> Cells]
    BY <2>1 DEF TypeInv, TypeOK
  <2>3. Issue("error")
    BY DEF error
  <2>4. QED BY <1>1, <1>2, <1>4, <2>2, <2>3, MemWriteType
<1>7. QED BY <1>5, <1>6

\* The memory and bookkeeping family (read, gas, alloc, free, debug, error).
LEMMA MemoryType == TypeInv /\ MemorySyscall => TypeInv'
BY ReadType, GasType, AllocType, FreeType, DebugType, ErrorType DEF MemorySyscall

\* The Ext state after an effect that dispatches or opens at most one
\* message.
ExtOK ==
    /\ outbox' \in Seq(Msg) /\ Len(outbox') <= Len(outbox) + 1
    /\ handles' \in Seq(Handle) /\ Len(handles') <= Len(handles) + 1
    /\ replyBuf' \in Seq(Cells) /\ replied' \in BOOLEAN

\* Guest bytes read in bounds are cells.
LEMMA ReadBytesType ==
    ASSUME TypeInv, NEW p \in Nat, NEW n \in Nat, InMem(p, n)
    PROVE  ReadBytes(p, n) \in Seq(Cells)
<1>1. \A i \in 1 .. n : mem[p + i - 1] \in Cells
  BY SyscallsAssumption DEF TypeInv, TypeOK, InMem, Addr
<1>2. [i \in 1 .. n |-> mem[p + i - 1]] \in Seq(Cells)
  BY <1>1
<1>3. QED BY <1>2 DEF ReadBytes

\* error_len_on_success and the push status: a fatal error, a domain
\* error length with nothing else changed, or the effect and (for the
\* former) the write of the id.
LEMMA StatusType ==
    ASSUME TypeInv, NEW s \in Syscall, Issue(s),
           NEW STATE valid, NEW ACTION effect, NEW outPtr \in Nat,
           NEW STATE id, id \in Cells,
           valid /\ effect => ExtOK
    PROVE  /\ ExtStatus(valid, effect, outPtr, id) => TypeInv'
           /\ PushStatus(valid, effect) => TypeInv'
<1>1. \A l \in ErrLens : Val(AsI32(l)) \in RetType
  <2>1. \A l \in ErrLens : AsI32(l) \in I32
    BY AsI32Type, SyscallsAssumption
  <2>2. QED BY <2>1, ConstTypes
<1>2. Val(AsI32(0)) \in RetType
  BY AsI32Type, ConstTypes, CodecAssumption DEF U32
<1>3. ExtFatal => TypeInv'
  BY EndTypes, FrameType
<1>4. ASSUME NEW l \in ErrLens, lastError' = l, Return(Val(AsI32(l))),
             UNCHANGED <<mem, outbox, handles, replyBuf, replied, allocated>>
      PROVE  TypeInv'
  BY <1>1, <1>4, EndTypes, StepType DEF TypeInv, TypeOK
<1>5. ASSUME valid, effect, UNCHANGED <<lastError, allocated>>, CtlOK',
             mem' \in [Addr -> Cells]
      PROVE  TypeInv'
  BY <1>5, StepType DEF ExtOK, TypeInv, TypeOK
<1>6. InMem(outPtr, 1) => [mem EXCEPT ![outPtr] = id] \in [Addr -> Cells]
  BY DEF TypeInv, TypeOK, InMem, Addr
<1>7. ExtStatus(valid, effect, outPtr, id) => TypeInv'
  BY <1>2, <1>3, <1>4, <1>5, <1>6, EndTypes, ConstTypes DEF ExtStatus, TypeInv, TypeOK
<1>8. PushStatus(valid, effect) => TypeInv'
  BY <1>2, <1>3, <1>4, <1>5, EndTypes DEF PushStatus, TypeInv, TypeOK
<1>9. QED BY <1>7, <1>8

\* The id Ext hands out for the message a call dispatches is a cell: at
\* most one message per call, and calls are bounded by MaxCalls.
LEMMA NextIdType ==
    ASSUME TypeInv, NEW s, Issue(s)
    PROVE  NextId \in Cells /\ Len(handles) \in Cells
BY SyscallsAssumption DEF TypeInv, TypeOK, Issue, NextId, Cells, Ids

\* Appending one well-typed message.
LEMMA DispatchType ==
    ASSUME TypeInv, NEW m \in Msg, Dispatch(m),
           UNCHANGED <<handles, replyBuf>>, replied' \in BOOLEAN
    PROVE  ExtOK
BY DEF TypeInv, TypeOK, Dispatch, ExtOK

\* send / send_wgas.
LEMMA SendMsgType ==
    ASSUME TypeInv, NEW s \in Syscall, NEW g,
           NEW pid \in Args32, NEW pp \in Args32, NEW pl \in Args32,
           NEW vp \in Args32, NEW mp \in Args32, NEW dp \in Args32,
           SendMsg(s, g, pid, pp, pl, vp, mp, dp)
    PROVE  TypeInv'
<1> DEFINE checks == <<ReadPtr(pid), ReadRange(pp, pl), ToPayload(pl),
                       ReadPtr(vp), ReadPtr(dp)>>
           m == [kind |-> "send", to |-> mem[pid], payload |-> ReadBytes(pp, pl)]
<1>1. Issue(s)
  BY DEF SendMsg
<1>2. \A i \in DOMAIN checks : checks[i][2] \in ErrType
  BY ConstTypes DEF ReadPtr, ReadRange, ToPayload
<1>3. CASE \/ PopFailed(<<pid, pp, pl, vp, mp, dp>>)
           \/ GasPopFailed(g)
           \/ CheckFailed(checks)
  BY <1>1, <1>2, <1>3, EndTypes, FrameType
<1>4. CASE /\ PopsOk(<<pid, pp, pl, vp, mp, dp>>) /\ AllPass(checks)
           /\ ExtStatus(TRUE,
                /\ Dispatch(m)
                /\ UNCHANGED <<handles, replyBuf, replied>>,
                mp, NextId)
  <2>1. pid \in Nat /\ pp \in Nat /\ pl \in Nat /\ mp \in Nat
    BY <1>4, SyscallsAssumption DEF PopsOk, Fits, U32
  <2>2. InMem(pid, 1) /\ InMem(pp, pl)
    BY <1>4 DEF AllPass, ReadPtr, ReadRange
  <2>3. m \in Msg
    <3>1. ReadBytes(pp, pl) \in Seq(Cells)
      BY <2>1, <2>2, ReadBytesType
    <3>2. mem[pid] \in Cells
      BY <2>1, <2>2, SyscallsAssumption DEF TypeInv, TypeOK, InMem, Addr
    <3>3. QED BY <3>1, <3>2 DEF Msg
  <2>4. (Dispatch(m) /\ UNCHANGED <<handles, replyBuf, replied>>) => ExtOK
    BY <2>3, DispatchType DEF TypeInv, TypeOK
  <2>5. NextId \in Cells
    BY <1>1, NextIdType
  <2>6. TRUE /\ (Dispatch(m) /\ UNCHANGED <<handles, replyBuf, replied>>) => ExtOK
    BY <2>4
  <2>7. QED BY <1>1, <1>4, <2>1, <2>6, <2>5, StatusType
<1>5. QED BY <1>3, <1>4 DEF SendMsg

\* Closing or extending one open builder keeps the handles typed.
LEMMA HandleUpdate ==
    ASSUME TypeInv, NEW h \in Nat, OpenHandle(h)
    PROVE  /\ [handles EXCEPT ![h + 1].open = FALSE] \in Seq(Handle)
           /\ Len([handles EXCEPT ![h + 1].open = FALSE]) = Len(handles)
           /\ handles[h + 1].payload \in Seq(Cells)
           /\ \A bytes \in Seq(Cells) :
                /\ [handles EXCEPT ![h + 1].payload = @ \o bytes] \in Seq(Handle)
                /\ Len([handles EXCEPT ![h + 1].payload = @ \o bytes]) = Len(handles)
<1>1. h + 1 \in 1 .. Len(handles) /\ handles[h + 1] \in Handle
  BY DEF TypeInv, TypeOK, OpenHandle
<1>2. handles[h + 1].open \in BOOLEAN /\ handles[h + 1].payload \in Seq(Cells)
  BY <1>1 DEF Handle
<1>3. [handles[h + 1] EXCEPT !.open = FALSE] \in Handle
  BY <1>1 DEF Handle
<1>4. \A bytes \in Seq(Cells) :
        [handles[h + 1] EXCEPT !.payload = @ \o bytes] \in Handle
  <2> TAKE bytes \in Seq(Cells)
  <2>1. handles[h + 1].payload \o bytes \in Seq(Cells)
    BY <1>2
  <2>2. [handles[h + 1] EXCEPT !.payload = @ \o bytes]
          = [handles[h + 1] EXCEPT !.payload = handles[h + 1].payload \o bytes]
    OBVIOUS
  <2>3. [handles[h + 1] EXCEPT !.payload = handles[h + 1].payload \o bytes]
          \in Handle
    BY <1>1, <2>1 DEF Handle
  <2>4. QED BY <2>2, <2>3
<1>5. \A x \in Handle : /\ [handles EXCEPT ![h + 1] = x] \in Seq(Handle)
                        /\ Len([handles EXCEPT ![h + 1] = x]) = Len(handles)
  BY <1>1 DEF TypeInv, TypeOK
<1>6. QED BY <1>2, <1>3, <1>4, <1>5

\* send_commit / send_commit_wgas: the committed handle is closed.
LEMMA SendCommitType ==
    ASSUME TypeInv, NEW s \in Syscall, NEW g,
           NEW h \in Args32, NEW mp \in Args32, NEW pid \in Args32,
           NEW vp \in Args32, NEW dp \in Args32,
           SendCommit(s, g, h, mp, pid, vp, dp)
    PROVE  TypeInv'
<1> DEFINE checks == <<ReadPtr(pid), ReadPtr(vp), ReadPtr(dp)>>
           m == [kind |-> "send", to |-> mem[pid],
                 payload |-> handles[h + 1].payload]
           effect == /\ Dispatch(m)
                     /\ handles' = [handles EXCEPT ![h + 1].open = FALSE]
                     /\ UNCHANGED <<replyBuf, replied>>
<1>1. Issue(s)
  BY DEF SendCommit
<1>2. \A i \in DOMAIN checks : checks[i][2] \in ErrType
  BY ConstTypes DEF ReadPtr
<1>3. CASE \/ PopFailed(<<h, mp, pid, vp, dp>>)
           \/ GasPopFailed(g)
           \/ CheckFailed(checks)
  BY <1>1, <1>2, <1>3, EndTypes, FrameType
<1>4. CASE /\ PopsOk(<<h, mp, pid, vp, dp>>) /\ AllPass(checks)
           /\ ExtStatus(OpenHandle(h), effect, mp, NextId)
  <2>1. h \in Nat /\ pid \in Nat /\ mp \in Nat
    BY <1>4, SyscallsAssumption DEF PopsOk, Fits, U32
  <2>2. InMem(pid, 1)
    BY <1>4 DEF AllPass, ReadPtr
  <2>3. OpenHandle(h) /\ effect => ExtOK
    <3> SUFFICES ASSUME OpenHandle(h), effect PROVE ExtOK
      OBVIOUS
    <3>1. m \in Msg
      <4>1. mem[pid] \in Cells
        BY <2>1, <2>2, SyscallsAssumption DEF TypeInv, TypeOK, InMem, Addr
      <4>2. handles[h + 1].payload \in Seq(Cells)
        BY <2>1, HandleUpdate
      <4>3. QED BY <4>1, <4>2 DEF Msg
    <3>2. QED BY <2>1, <3>1, HandleUpdate DEF TypeInv, TypeOK, Dispatch, ExtOK
  <2>4. NextId \in Cells
    BY <1>1, NextIdType
  <2>5. QED BY <1>1, <1>4, <2>1, <2>3, <2>4, StatusType
<1>5. QED BY <1>3, <1>4 DEF SendCommit

\* reply / reply_wgas.
LEMMA ReplyMsgType ==
    ASSUME TypeInv, NEW s \in Syscall, NEW g,
           NEW pp \in Args32, NEW pl \in Args32, NEW vp \in Args32,
           NEW mp \in Args32, NEW dp \in Args32,
           ReplyMsg(s, g, pp, pl, vp, mp, dp)
    PROVE  TypeInv'
<1> DEFINE checks == <<ReadRange(pp, pl), ToPayload(pl), ReadPtr(vp),
                       ReadPtr(dp)>>
           m == [kind |-> "reply", to |-> 0, payload |-> ReadBytes(pp, pl)]
           effect == /\ Dispatch(m)
                     /\ replied' = TRUE
                     /\ UNCHANGED <<handles, replyBuf>>
<1>1. Issue(s)
  BY DEF ReplyMsg
<1>2. \A i \in DOMAIN checks : checks[i][2] \in ErrType
  BY ConstTypes DEF ReadPtr, ReadRange, ToPayload
<1>3. CASE \/ PopFailed(<<pp, pl, vp, mp, dp>>)
           \/ GasPopFailed(g)
           \/ CheckFailed(checks)
  BY <1>1, <1>2, <1>3, EndTypes, FrameType
<1>4. CASE /\ PopsOk(<<pp, pl, vp, mp, dp>>) /\ AllPass(checks)
           /\ ExtStatus(~replied, effect, mp, NextId)
  <2>1. pp \in Nat /\ pl \in Nat /\ mp \in Nat
    BY <1>4, SyscallsAssumption DEF PopsOk, Fits, U32
  <2>2. InMem(pp, pl)
    BY <1>4 DEF AllPass, ReadRange
  <2>3. m \in Msg
    <3>1. ReadBytes(pp, pl) \in Seq(Cells)
      BY <2>1, <2>2, ReadBytesType
    <3>2. 0 \in Cells
      BY SyscallsAssumption DEF Cells, Ids
    <3>3. QED BY <3>1, <3>2 DEF Msg
  <2>4. ~replied /\ effect => ExtOK
    BY <2>3, DispatchType
  <2>5. NextId \in Cells
    BY <1>1, NextIdType
  <2>6. QED BY <1>1, <1>4, <2>1, <2>4, <2>5, StatusType
<1>5. QED BY <1>3, <1>4 DEF ReplyMsg

\* reply_commit / reply_commit_wgas.
LEMMA ReplyCommitType ==
    ASSUME TypeInv, NEW s \in Syscall, NEW g,
           NEW vp \in Args32, NEW mp \in Args32, NEW dp \in Args32,
           ReplyCommit(s, g, vp, mp, dp)
    PROVE  TypeInv'
<1> DEFINE checks == <<ReadPtr(vp), ReadPtr(dp)>>
           m == [kind |-> "reply", to |-> 0, payload |-> replyBuf]
           effect == /\ Dispatch(m)
                     /\ replied' = TRUE
                     /\ UNCHANGED <<handles, replyBuf>>
<1>1. Issue(s)
  BY DEF ReplyCommit
<1>2. \A i \in DOMAIN checks : checks[i][2] \in ErrType
  BY ConstTypes DEF ReadPtr
<1>3. CASE \/ PopFailed(<<vp, mp, dp>>)
           \/ GasPopFailed(g)
           \/ CheckFailed(checks)
  BY <1>1, <1>2, <1>3, EndTypes, FrameType
<1>4. CASE /\ PopsOk(<<vp, mp, dp>>) /\ AllPass(checks)
           /\ ExtStatus(~replied, effect, mp, NextId)
  <2>1. mp \in Nat
    BY <1>4, SyscallsAssumption DEF PopsOk, Fits, U32
  <2>2. m \in Msg
    BY SyscallsAssumption DEF TypeInv, TypeOK, Cells, Ids, Msg
  <2>3. ~replied /\ effect => ExtOK
    BY <2>2, DispatchType
  <2>4. NextId \in Cells
    BY <1>1, NextIdType
  <2>5. QED BY <1>1, <1>4, <2>1, <2>3, <2>4, StatusType
<1>5. QED BY <1>3, <1>4 DEF ReplyCommit

\* create_program / create_program_wgas.
LEMMA CreateProgramType ==
    ASSUME TypeInv, NEW s \in Syscall, NEW g,
           NEW ch \in Args32, NEW sp \in Args32, NEW sl \in Args32,
           NEW pp \in Args32, NEW pl \in Args32, NEW vp \in Args32,
           NEW prp \in Args32, NEW dp \in Args32,
           CreateProgram(s, g, ch, sp, sl, pp, pl, vp, prp, dp)
    PROVE  TypeInv'
<1> DEFINE checks == <<ReadPtr(ch), ReadRange(sp, sl), ReadRange(pp, pl),
                       ToPayload(pl), ReadPtr(vp), ReadPtr(dp)>>
           m == [kind |-> "init", to |-> mem[ch], payload |-> ReadBytes(pp, pl)]
<1>1. Issue(s)
  BY DEF CreateProgram
<1>2. \A i \in DOMAIN checks : checks[i][2] \in ErrType
  BY ConstTypes DEF ReadPtr, ReadRange, ToPayload
<1>3. CASE \/ PopFailed(<<ch, sp, sl, pp, pl, vp, prp, dp>>)
           \/ GasPopFailed(g)
           \/ CheckFailed(checks)
  BY <1>1, <1>2, <1>3, EndTypes, FrameType
<1>4. CASE /\ PopsOk(<<ch, sp, sl, pp, pl, vp, prp, dp>>) /\ AllPass(checks)
           /\ ExtStatus(TRUE,
                /\ Dispatch(m)
                /\ UNCHANGED <<handles, replyBuf, replied>>,
                prp, NextId)
  <2>1. ch \in Nat /\ pp \in Nat /\ pl \in Nat /\ prp \in Nat
    BY <1>4, SyscallsAssumption DEF PopsOk, Fits, U32
  <2>2. InMem(ch, 1) /\ InMem(pp, pl)
    BY <1>4 DEF AllPass, ReadPtr, ReadRange
  <2>3. m \in Msg
    <3>1. ReadBytes(pp, pl) \in Seq(Cells)
      BY <2>1, <2>2, ReadBytesType
    <3>2. mem[ch] \in Cells
      BY <2>1, <2>2, SyscallsAssumption DEF TypeInv, TypeOK, InMem, Addr
    <3>3. QED BY <3>1, <3>2 DEF Msg
  <2>4. TRUE /\ (Dispatch(m) /\ UNCHANGED <<handles, replyBuf, replied>>) => ExtOK
    BY <2>3, DispatchType DEF TypeInv, TypeOK
  <2>5. NextId \in Cells
    BY <1>1, NextIdType
  <2>6. QED BY <1>1, <1>4, <2>1, <2>4, <2>5, StatusType
<1>5. QED BY <1>3, <1>4 DEF CreateProgram

\* send_init: a new open builder whose handle is written to the guest.
LEMMA SendInitType == TypeInv /\ send_init => TypeInv'
<1> SUFFICES ASSUME TypeInv, send_init PROVE TypeInv'
  OBVIOUS
<1>1. Issue("send_init") /\ "send_init" \in Syscall
  BY DEF send_init, Syscall
<1>2. PICK hp \in Args32 :
        \/ PopFailed(<<hp>>)
        \/ /\ PopsOk(<<hp>>)
           /\ ExtStatus(TRUE,
                /\ handles' = Append(handles, [open |-> TRUE, payload |-> << >>])
                /\ UNCHANGED <<outbox, replyBuf, replied>>,
                hp, Len(handles))
  BY DEF send_init
<1>3. CASE PopFailed(<<hp>>)
  BY <1>1, <1>3, EndTypes, FrameType
<1>4. CASE /\ PopsOk(<<hp>>)
           /\ ExtStatus(TRUE,
                /\ handles' = Append(handles, [open |-> TRUE, payload |-> << >>])
                /\ UNCHANGED <<outbox, replyBuf, replied>>,
                hp, Len(handles))
  <2>1. hp \in Nat
    BY <1>4, SyscallsAssumption DEF PopsOk, Fits, U32
  <2>2. [open |-> TRUE, payload |-> << >>] \in Handle
    BY DEF Handle
  <2>3. TRUE /\ (/\ handles' = Append(handles, [open |-> TRUE, payload |-> << >>])
                 /\ UNCHANGED <<outbox, replyBuf, replied>>) => ExtOK
    BY <2>2 DEF TypeInv, TypeOK, ExtOK
  <2>4. Len(handles) \in Cells
    BY <1>1, NextIdType
  <2>5. QED BY <1>1, <1>4, <2>1, <2>3, <2>4, StatusType
<1>5. QED BY <1>2, <1>3, <1>4

\* send_push: bytes appended to an open builder.
LEMMA SendPushType == TypeInv /\ send_push => TypeInv'
<1> SUFFICES ASSUME TypeInv, send_push PROVE TypeInv'
  OBVIOUS
<1>1. Issue("send_push") /\ "send_push" \in Syscall
  BY DEF send_push, Syscall
<1>2. PICK h \in Args32, pp \in Args32, pl \in Args32 :
        \/ PopFailed(<<h, pp, pl>>)
        \/ /\ PopsOk(<<h, pp, pl>>)
           /\ \/ CheckFailed(<<ReadRange(pp, pl)>>)
              \/ /\ InMem(pp, pl)
                 /\ PushStatus(OpenHandle(h),
                      /\ handles' = [handles EXCEPT ![h + 1].payload =
                                                       @ \o ReadBytes(pp, pl)]
                      /\ UNCHANGED <<outbox, replyBuf, replied>>)
  BY DEF send_push
<1>3. <<ReadRange(pp, pl)>>[1][2] \in ErrType
  BY ConstTypes DEF ReadRange
<1>4. CASE PopFailed(<<h, pp, pl>>) \/ CheckFailed(<<ReadRange(pp, pl)>>)
  BY <1>1, <1>3, <1>4, EndTypes, FrameType
<1>5. CASE /\ PopsOk(<<h, pp, pl>>) /\ InMem(pp, pl)
           /\ PushStatus(OpenHandle(h),
                /\ handles' = [handles EXCEPT ![h + 1].payload =
                                                 @ \o ReadBytes(pp, pl)]
                /\ UNCHANGED <<outbox, replyBuf, replied>>)
  <2>1. h \in Nat /\ pp \in Nat /\ pl \in Nat
    BY <1>5, SyscallsAssumption DEF PopsOk, Fits, U32
  <2>2. ReadBytes(pp, pl) \in Seq(Cells)
    BY <1>5, <2>1, ReadBytesType
  <2>3. OpenHandle(h) =>
          /\ [handles EXCEPT ![h + 1].payload = @ \o ReadBytes(pp, pl)]
               \in Seq(Handle)
          /\ Len([handles EXCEPT ![h + 1].payload = @ \o ReadBytes(pp, pl)])
               = Len(handles)
    BY <2>1, <2>2, HandleUpdate
  <2>4. OpenHandle(h) /\
          (/\ handles' = [handles EXCEPT ![h + 1].payload =
                                           @ \o ReadBytes(pp, pl)]
           /\ UNCHANGED <<outbox, replyBuf, replied>>) => ExtOK
    BY <2>3 DEF TypeInv, TypeOK, ExtOK
  <2>5. 0 \in Cells
    BY SyscallsAssumption DEF Cells, Ids
  <2>6. QED BY <1>1, <1>5, <2>4, <2>5, StatusType
<1>6. QED BY <1>2, <1>4, <1>5

\* reply_push: bytes appended to the reply buffer.
LEMMA ReplyPushType == TypeInv /\ reply_push => TypeInv'
<1> SUFFICES ASSUME TypeInv, reply_push PROVE TypeInv'
  OBVIOUS
<1>1. Issue("reply_push") /\ "reply_push" \in Syscall
  BY DEF reply_push, Syscall
<1>2. PICK pp \in Args32, pl \in Args32 :
        \/ PopFailed(<<pp, pl>>)
        \/ /\ PopsOk(<<pp, pl>>)
           /\ \/ CheckFailed(<<ReadRange(pp, pl)>>)
              \/ /\ InMem(pp, pl)
                 /\ PushStatus(~replied,
                      /\ replyBuf' = replyBuf \o ReadBytes(pp, pl)
                      /\ UNCHANGED <<outbox, handles, replied>>)
  BY DEF reply_push
<1>3. <<ReadRange(pp, pl)>>[1][2] \in ErrType
  BY ConstTypes DEF ReadRange
<1>4. CASE PopFailed(<<pp, pl>>) \/ CheckFailed(<<ReadRange(pp, pl)>>)
  BY <1>1, <1>3, <1>4, EndTypes, FrameType
<1>5. CASE /\ PopsOk(<<pp, pl>>) /\ InMem(pp, pl)
           /\ PushStatus(~replied,
                /\ replyBuf' = replyBuf \o ReadBytes(pp, pl)
                /\ UNCHANGED <<outbox, handles, replied>>)
  <2>1. pp \in Nat /\ pl \in Nat
    BY <1>5, SyscallsAssumption DEF PopsOk, Fits, U32
  <2>2. ReadBytes(pp, pl) \in Seq(Cells)
    BY <1>5, <2>1, ReadBytesType
  <2>3. ~replied /\
          (/\ replyBuf' = replyBuf \o ReadBytes(pp, pl)
           /\ UNCHANGED <<outbox, handles, replied>>) => ExtOK
    BY <2>2 DEF TypeInv, TypeOK, ExtOK
  <2>4. 0 \in Cells
    BY SyscallsAssumption DEF Cells, Ids
  <2>5. QED BY <1>1, <1>5, <2>3, <2>4, StatusType
<1>6. QED BY <1>2, <1>4, <1>5

\* The outgoing-message family.
LEMMA MessageType == TypeInv /\ MessageSyscall => TypeInv'
<1> SUFFICES ASSUME TypeInv, MessageSyscall PROVE TypeInv'
  OBVIOUS
<1>1. CASE send \/ send_wgas
  BY <1>1, SendMsgType DEF send, send_wgas, Syscall
<1>2. CASE send_commit \/ send_commit_wgas
  BY <1>2, SendCommitType DEF send_commit, send_commit_wgas, Syscall
<1>3. CASE reply \/ reply_wgas
  BY <1>3, ReplyMsgType DEF reply, reply_wgas, Syscall
<1>4. CASE reply_commit \/ reply_commit_wgas
  BY <1>4, ReplyCommitType DEF reply_commit, reply_commit_wgas, Syscall
<1>5. CASE create_program \/ create_program_wgas
  BY <1>5, CreateProgramType DEF create_program, create_program_wgas, Syscall
<1>6. QED
  BY <1>1, <1>2, <1>3, <1>4, <1>5, SendInitType, SendPushType, ReplyPushType
  DEF MessageSyscall

\* The guest's return and the host's final read keep the invariant.
LEMMA EndOfCallType == TypeInv /\ (GuestReturn \/ Finished) => TypeInv'
BY DEF GuestReturn, Finished, TypeInv, TypeOK, vars, extVars

\* Every initial state satisfies the invariant: memory starts with data
\* bytes, and every Ext structure is empty.
LEMMA InitType == Init => TypeInv
<1> SUFFICES ASSUME Init PROVE TypeInv
  OBVIOUS
<1>1. NoErr \in ErrType
  BY ErrTypes DEF NoErr, ErrKinds
<1>2. Unit \in RetType
  BY DEF RetType
<1>3. mem \in [Addr -> Cells]
  BY DEF Init, Cells
<1>4. calls \in 0 .. MaxCalls
  BY SyscallsAssumption DEF Init
<1>5. outbox \in Seq(Msg) /\ handles \in Seq(Handle) /\ replyBuf \in Seq(Cells)
  BY DEF Init
<1>6. /\ phase \in {"Running", "Trapped", "Returned"}
      /\ sys \in Syscall \cup {"none"}
      /\ replied \in BOOLEAN
      /\ lastError \in {0} \cup ErrLens
      /\ allocated \in SUBSET (0 .. MaxPages - 1)
  BY DEF Init
<1>7. Len(outbox) <= calls /\ Len(handles) <= calls
  BY DEF Init
<1>8. QED BY <1>1, <1>2, <1>3, <1>4, <1>5, <1>6, <1>7 DEF Init, TypeInv, TypeOK

\* One step of the guest call keeps the invariant.
LEMMA NextType == TypeInv /\ [Next]_vars => TypeInv'
<1> SUFFICES ASSUME TypeInv, [Next]_vars PROVE TypeInv'
  OBVIOUS
<1>1. CASE UNCHANGED vars
  BY <1>1 DEF TypeInv, TypeOK, vars
<1>2. QED
  BY <1>1, MessageType, ControlType, QueryType, MemoryType, EndOfCallType
  DEF Next

\* Type correctness of the whole syscall layer: whatever syscalls the guest
\* issues, in any order and with any arguments, every handler of funcs.rs
\* leaves ctx.err, the return value, guest memory and the Ext state (outbox,
\* builder handles, reply buffer, last error, allocated pages) well formed;
\* in particular every id error_len_on_success writes is a valid cell,
\* because a call dispatches at most one message.
THEOREM TypeCorrect == Spec => []TypeOK
<1>1. Init => TypeInv
  BY InitType
<1>2. TypeInv /\ [Next]_vars => TypeInv'
  BY NextType
<1>3. TypeInv => TypeOK
  BY DEF TypeInv
<1>4. QED BY <1>1, <1>2, <1>3, PTL DEF Spec
====

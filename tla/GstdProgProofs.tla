---------------------------- MODULE GstdProgProofs ----------------------------
(***************************************************************************)
(* Proof that gstd's create_program wrappers keep their result contract    *)
(* (GstdResultContract) for every value of the constants.                  *)
(*                                                                         *)
(* The syscall layer's TypeInv does not carry over to GSpec: gcore passes  *)
(* pointers into guest memory, which need not be members of Args32.  The   *)
(* contract needs less: guest memory is a function on Addr, so the id      *)
(* written to the out-buffer can be read back, and the queue is a sequence *)
(* of messages, so that Append grows it by one.  GTypeInv states that,     *)
(* over cells that may also hold any natural (an id).                      *)
(***************************************************************************)
EXTENDS GstdProg, SyscallsActions

\* What a memory cell can hold once ids have been written to it.
GCells == Cells \cup Nat

\* A queued message, over such cells.
GMsg == [kind : {"send", "reply", "init"}, to : GCells, payload : Seq(GCells)]

GTypeInv ==
    /\ mem \in [Addr -> GCells]
    /\ outbox \in Seq(GMsg)
    /\ lastError \in {0} \cup ErrLens
    /\ calls \in Nat

\* The pointers and lengths gcore hands the syscall.
GArgs(ch, vp, prp, dp, sp, pp, sl, pl) ==
    /\ ch \in Addr /\ vp \in Addr /\ prp \in Addr /\ dp \in Addr
    /\ sp \in Addr /\ pp \in Addr /\ sl \in 0 .. MemSize /\ pl \in 0 .. MemSize
    /\ InMem(sp, sl) /\ InMem(pp, pl)

LEMMA GInitType == GInit => GTypeInv
BY SyscallsAssumption DEF GInit, Init, GTypeInv, GCells, Cells

\* The message create_program queues is a GMsg.
LEMMA InitMsgType ==
    ASSUME GTypeInv, NEW ch \in Addr, NEW pp \in Addr, NEW pl \in 0 .. MemSize,
           InMem(pp, pl)
    PROVE  [kind |-> "init", to |-> mem[ch], payload |-> ReadBytes(pp, pl)]
             \in GMsg
<1>1. \A i \in 1 .. pl : pp + i - 1 \in Addr
  BY SyscallsAssumption DEF InMem, Addr
<1>2. ReadBytes(pp, pl) \in Seq(GCells)
  BY <1>1 DEF ReadBytes, GTypeInv
<1>3. QED BY <1>2 DEF GMsg, GTypeInv

LEMMA GCreateType ==
    ASSUME GTypeInv, NEW s, NEW g, NEW ch, NEW vp, NEW prp, NEW dp, NEW sp,
           NEW pp, NEW sl, NEW pl, GArgs(ch, vp, prp, dp, sp, pp, sl, pl),
           CreateProgram(s, g, ch, sp, sl, pp, pl, vp, prp, dp)
    PROVE  GTypeInv'
<1> DEFINE m == [kind |-> "init", to |-> mem[ch], payload |-> ReadBytes(pp, pl)]
<1> DEFINE effect == (Dispatch(m) /\ UNCHANGED <<handles, replyBuf, replied>>)
<1>0. calls' \in Nat
  BY DEF CreateProgram, Issue, GTypeInv
<1>1. CASE UNCHANGED <<mem, extVars>>
  BY <1>0, <1>1 DEF GTypeInv, extVars
<1>2. CASE \E l \in ErrLens : lastError' = l /\ UNCHANGED <<mem, outbox>>
  BY <1>0, <1>2 DEF GTypeInv
<1>3. CASE /\ effect /\ UNCHANGED lastError
           /\ mem' = [mem EXCEPT ![prp] = NextId] \/ UNCHANGED mem
  <2>1. m \in GMsg
    BY InitMsgType DEF GArgs
  <2>2. outbox' \in Seq(GMsg)
    BY <1>3, <2>1 DEF Dispatch, GTypeInv
  <2>3. mem' \in [Addr -> GCells]
    BY <1>3 DEF GArgs, GTypeInv, NextId, GCells
  <2>4. QED BY <1>0, <1>3, <2>2, <2>3 DEF GTypeInv
<1>4. QED
  BY <1>1, <1>2, <1>3
  DEF CreateProgram, PopFailed, GasPopFailed, CheckFailed, ExtStatus,
      ExtFatal, Return, Trap, HostError

\* error writes ErrByte cells over the guest's buffer.
LEMMA GErrorType == GTypeInv /\ error => GTypeInv'
<1> SUFFICES ASSUME GTypeInv, error PROVE GTypeInv'
  OBVIOUS
<1>1. calls' \in Nat
  BY DEF error, Issue, GTypeInv
<1>2. mem' \in [Addr -> GCells]
  <2>1. CASE UNCHANGED mem
    BY <2>1 DEF GTypeInv
  <2>2. CASE \E p \in Args32 : mem' = WriteBytes(p, [i \in 1 .. lastError |-> ErrByte])
    <3>1. PICK p \in Args32 : mem' = WriteBytes(p, [i \in 1 .. lastError |-> ErrByte])
      BY <2>2
    <3>2. p \in Int /\ lastError \in Nat
      <4>1. p \in I32 /\ lastError \in {0} \cup U32
        BY <3>1, SyscallsAssumption DEF GTypeInv
      <4>2. QED BY <4>1, CodecAssumption DEF I32, U32
    <3> DEFINE bytes == [i \in 1 .. lastError |-> ErrByte]
    <3>3. Len(bytes) = lastError
      BY <3>2
    <3>4. ASSUME NEW a \in Addr, p <= a, a < p + lastError
          PROVE  bytes[a - p + 1] = ErrByte
      BY <3>2, <3>4, SyscallsAssumption DEF Addr
    <3>5. QED BY <3>1, <3>3, <3>4 DEF WriteBytes, GTypeInv, GCells, Cells
  <2>3. QED BY <2>1, <2>2 DEF error, PopFailed
<1>3. QED BY <1>1, <1>2 DEF error, GTypeInv, extVars

\* GTypeInv is inductive for the gstd program.
LEMMA GNextType == GTypeInv /\ [GNext]_gvars => GTypeInv'
<1> SUFFICES ASSUME GTypeInv, [GNext]_gvars PROVE GTypeInv'
  OBVIOUS
<1>1. ASSUME NEW s, NEW g, GstdCreate(s, g) PROVE GTypeInv'
  BY <1>1, GCreateType DEF GstdCreate, GArgs
<1>2. CASE gstd_create_program
  BY <1>1, <1>2 DEF gstd_create_program
<1>3. CASE gstd_create_program_with_gas
  BY <1>1, <1>3 DEF gstd_create_program_with_gas
<1>4. CASE error
  BY <1>4, GErrorType
<1>5. CASE GuestReturn \/ Finished \/ UNCHANGED gvars
  BY <1>5 DEF GuestReturn, Finished, GTypeInv, gvars, vars, extVars
<1>6. QED BY <1>2, <1>3, <1>4, <1>5 DEF GNext

\* A create_program call of gstd that returns to the program returns the
\* result GstdResultStep describes.
LEMMA GCreateResult ==
    ASSUME GTypeInv, NEW s, NEW g, NEW ch, NEW vp, NEW prp, NEW dp, NEW sp,
           NEW pp, NEW sl, NEW pl, GArgs(ch, vp, prp, dp, sp, pp, sl, pl),
           CreateProgram(s, g, ch, sp, sl, pp, pl, vp, prp, dp),
           result' = IF phase' = "Running" THEN GcoreResult(prp) ELSE result
    PROVE  GstdResultStep
<1> DEFINE m == [kind |-> "init", to |-> mem[ch], payload |-> ReadBytes(pp, pl)]
<1> DEFINE Okay == /\ result'.tag = "Ok"
                   /\ Len(outbox') = Len(outbox) + 1
                   /\ outbox'[Len(outbox')].kind = "init"
                   /\ result'.val = Len(outbox')
<1> DEFINE Fail == /\ result'.tag = "Err"
                   /\ outbox' = outbox
                   /\ lastError' \in ErrLens
                   /\ result'.val = lastError'
<1> SUFFICES ASSUME phase' = "Running" PROVE Okay \/ Fail
  BY DEF GstdResultStep
<1>1. result' = GcoreResult(prp)
  OBVIOUS
<1>2. CASE PopFailed(<<ch, sp, sl, pp, pl, vp, prp, dp>>) \/ GasPopFailed(g)
           \/ ExtFatal
  BY <1>2 DEF PopFailed, GasPopFailed, ExtFatal, HostError, Trap
<1>3. CASE \E i \in DOMAIN <<ReadPtr(ch), ReadRange(sp, sl), ReadRange(pp, pl),
                             ToPayload(pl), ReadPtr(vp), ReadPtr(dp)>> :
             Trap(<<ReadPtr(ch), ReadRange(sp, sl), ReadRange(pp, pl),
                    ToPayload(pl), ReadPtr(vp), ReadPtr(dp)>>[i][2])
  BY <1>3 DEF Trap
<1>4. CASE \E l \in ErrLens : lastError' = l /\ Return(Val(AsI32(l)))
                              /\ UNCHANGED outbox
  <2>1. PICK l \in ErrLens : lastError' = l /\ ret' = <<AsI32(l)>>
                             /\ UNCHANGED outbox
    BY <1>4 DEF Return, Val
  <2>2. ret' # Val(AsI32(0))
    BY <2>1, StatusCasts DEF Val
  <2>3. result' = ExtErr(lastError')
    BY <1>1, <2>2 DEF GcoreResult
  <2>4. QED BY <2>1, <2>3 DEF ExtErr
<1>5. CASE /\ Dispatch(m) /\ InMem(prp, 1)
           /\ mem' = [mem EXCEPT ![prp] = NextId] /\ Return(Val(AsI32(0)))
  <2>1. result' = Ok(NextId)
    BY <1>1, <1>5 DEF GcoreResult, GArgs, GTypeInv, Return
  <2>2. outbox' = Append(outbox, m) /\ outbox \in Seq(GMsg)
    BY <1>5 DEF Dispatch, GTypeInv
  <2>3. QED BY <2>1, <2>2 DEF Ok, NextId
<1>6. CASE ~InMem(prp, 1) /\ Trap(E("Memory"))
  BY <1>6 DEF Trap
<1>7. QED
  BY <1>2, <1>3, <1>4, <1>5, <1>6
  DEF CreateProgram, CheckFailed, FirstFailure, ExtStatus

\* Every step of the gstd program satisfies GstdResultStep: the calls to
\* create_program through GCreateResult, error because it is another
\* syscall, and the guest's return and the end of the call because they
\* issue none.
LEMMA GNextResult == GTypeInv /\ [GNext]_gvars => [GstdResultStep]_gvars
<1> SUFFICES ASSUME GTypeInv, [GNext]_gvars PROVE [GstdResultStep]_gvars
  OBVIOUS
<1>1. ASSUME NEW s, NEW g, GstdCreate(s, g) PROVE GstdResultStep
  BY <1>1, GCreateResult DEF GstdCreate, GArgs
<1>2. CASE gstd_create_program
  BY <1>1, <1>2 DEF gstd_create_program
<1>3. CASE gstd_create_program_with_gas
  BY <1>1, <1>3 DEF gstd_create_program_with_gas
<1>4. CASE error
  BY <1>4 DEF error, Issue, GstdResultStep
<1>5. CASE GuestReturn \/ Finished
  BY <1>5 DEF GuestReturn, Finished, vars, GTypeInv, Issued, GstdResultStep
<1>6. CASE UNCHANGED gvars
  BY <1>6
<1>7. QED BY <1>2, <1>3, <1>4, <1>5, <1>6 DEF GNext

\* The result contract of gstd's create_program (GstdResultContract) holds
\* in every behaviour of the program, for every size of memory and queue:
\* Ok(id) only with exactly one InitPacket queued under that id, Err(len)
\* only with nothing queued and len the recorded error's length.
THEOREM GstdResult == GSpec => GstdResultContract
<1>1. GInit => GTypeInv
  BY GInitType
<1>2. GTypeInv /\ [GNext]_gvars => GTypeInv'
  BY GNextType
<1>3. GTypeInv /\ [GNext]_gvars => [GstdResultStep]_gvars
  BY GNextResult
<1>4. QED BY <1>1, <1>2, <1>3, PTL DEF GSpec, GstdResultContract

=============================================================================

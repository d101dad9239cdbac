-------------------------- MODULE SyscallsRefinement --------------------------
(***************************************************************************)
(* The syscall layer implements CallOutcome, the promise one guest call    *)
(* makes its host (THEOREM Refinement).  Under the identity mapping of     *)
(* phase, err and outbox, every handler step is a step of CallOutcome or   *)
(* leaves those three alone.  The argument has two halves:                 *)
(*   - phase and err: every handler traps or leaves both alone             *)
(*     (HandlerEnd, from SyscallsProofs);                                  *)
(*   - outbox: every handler leaves the queue and the replied flag alone,  *)
(*     or queues one message, and a reply only while replied is FALSE,     *)
(*     setting it (OutStep).                                               *)
(* Two invariants carry the argument from step to step: TypeInv (from      *)
(* SyscallsTypes: the queued message is a Msg, the recorded reason an      *)
(* ErrType) and RepliedMatches (Ext's replied flag is set exactly when the *)
(* queue holds a reply).                                                   *)
(***************************************************************************)
EXTENDS SyscallsProofs, SyscallsTypes

\* The step leaves the queue and the replied flag alone.
Keep == UNCHANGED <<outbox, replied>>

\* Queuing m: a reply needs the flag clear and sets it; other messages
\* leave it alone.
ReplyOnce(m) ==
    \/ m.kind = "reply" /\ ~replied /\ replied' = TRUE
    \/ m.kind # "reply" /\ replied' = replied

\* What a handler does to the queue.
OutStep == Keep \/ \E m : Dispatch(m) /\ ReplyOnce(m)

\* Ext's replied flag tells whether the call has queued its reply.
RepliedMatches == replied <=> Outcome!Replied

\* The ends of a handler that leave Ext alone.
LEMMA FrameKeeps ==
    /\ ExtFatal => Keep
    /\ \A a : PopFailed(a) => Keep
    /\ \A c : CheckFailed(c) => Keep
    /\ \A g : GasPopFailed(g) => Keep
BY DEF ExtFatal, PopFailed, CheckFailed, GasPopFailed, Keep, extVars

\* The control-flow handlers never touch the queue.
LEMMA ControlKeeps == ControlSyscall => Keep
BY FrameKeeps, Zenon
DEF ControlSyscall, exit, leave, wait, wait_for, wait_up_to,
    WaitWithDuration, forbidden, wake, Keep, extVars

\* Neither do the query handlers.
LEMMA QueryKeeps == QuerySyscall => Keep
BY FrameKeeps, Zenon
DEF QuerySyscall, size, block_height, block_timestamp, gas_available,
    exit_code, origin, msg_id, program_id, source, value, value_available,
    WriteQueried, reply_to, Keep, extVars

\* Nor the memory and bookkeeping handlers.
LEMMA MemoryKeeps == MemorySyscall => Keep
BY FrameKeeps, Zenon
DEF MemorySyscall, read, gas, alloc, free, debug, error, Keep, extVars


\* error_len_on_success and the push status: a fatal or a domain error
\* leaves Ext alone, so the queue changes only through the effect.
LEMMA StatusOut ==
    ASSUME NEW STATE valid, NEW ACTION effect, NEW p, NEW STATE id,
           valid /\ effect => OutStep
    PROVE  /\ ExtStatus(valid, effect, p, id) => OutStep
           /\ PushStatus(valid, effect) => OutStep
BY FrameKeeps DEF ExtStatus, PushStatus, OutStep, Keep

\* send* and create_program* queue a message that is not a reply.
LEMMA NonReplyOut ==
    ASSUME NEW m, m.kind # "reply", Dispatch(m), UNCHANGED replied
    PROVE  OutStep
BY DEF OutStep, ReplyOnce

LEMMA SendMsgOut ==
    ASSUME NEW s, NEW g, NEW pid, NEW pp, NEW pl, NEW vp, NEW mp, NEW dp,
           SendMsg(s, g, pid, pp, pl, vp, mp, dp)
    PROVE  OutStep
<1> DEFINE m == [kind |-> "send", to |-> mem[pid],
                 payload |-> ReadBytes(pp, pl)]
<1> DEFINE effect == (Dispatch(m) /\ UNCHANGED <<handles, replyBuf, replied>>)
<1>1. TRUE /\ effect => OutStep
  BY NonReplyOut
<1>2. ExtStatus(TRUE, effect, mp, NextId) => OutStep
  BY <1>1, StatusOut
<1>3. QED BY <1>2, FrameKeeps, Zenon DEF SendMsg, effect, m, OutStep

LEMMA SendCommitOut ==
    ASSUME NEW s, NEW g, NEW h, NEW mp, NEW pid, NEW vp, NEW dp,
           SendCommit(s, g, h, mp, pid, vp, dp)
    PROVE  OutStep
<1> DEFINE m == [kind |-> "send", to |-> mem[pid],
                 payload |-> handles[h + 1].payload]
<1> DEFINE effect == (/\ Dispatch(m)
                        /\ handles' = [handles EXCEPT ![h + 1].open = FALSE]
                        /\ UNCHANGED <<replyBuf, replied>>)
<1>1. OpenHandle(h) /\ effect => OutStep
  BY NonReplyOut
<1>2. ExtStatus(OpenHandle(h), effect, mp, NextId) => OutStep
  BY <1>1, StatusOut
<1>3. QED BY <1>2, FrameKeeps, Zenon DEF SendCommit, effect, m, OutStep

LEMMA CreateProgramOut ==
    ASSUME NEW s, NEW g, NEW ch, NEW sp, NEW sl, NEW pp, NEW pl, NEW vp,
           NEW prp, NEW dp, CreateProgram(s, g, ch, sp, sl, pp, pl, vp, prp, dp)
    PROVE  OutStep
<1> DEFINE m == [kind |-> "init", to |-> mem[ch],
                 payload |-> ReadBytes(pp, pl)]
<1> DEFINE effect == (Dispatch(m) /\ UNCHANGED <<handles, replyBuf, replied>>)
<1>1. TRUE /\ effect => OutStep
  BY NonReplyOut
<1>2. ExtStatus(TRUE, effect, prp, NextId) => OutStep
  BY <1>1, StatusOut
<1>3. QED BY <1>2, FrameKeeps, Zenon DEF CreateProgram, effect, m, OutStep

\* reply* queues a reply only while none was sent, and records it.
LEMMA ReplyOut ==
    ASSUME NEW m, m.kind = "reply", Dispatch(m), ~replied, replied' = TRUE
    PROVE  OutStep
BY DEF OutStep, ReplyOnce

LEMMA ReplyMsgOut ==
    ASSUME NEW s, NEW g, NEW pp, NEW pl, NEW vp, NEW mp, NEW dp,
           ReplyMsg(s, g, pp, pl, vp, mp, dp)
    PROVE  OutStep
<1> DEFINE m == [kind |-> "reply", to |-> 0, payload |-> ReadBytes(pp, pl)]
<1> DEFINE effect == (/\ Dispatch(m) /\ replied' = TRUE
                   /\ UNCHANGED <<handles, replyBuf>>)
<1>1. ~replied /\ effect => OutStep
  BY ReplyOut
<1>2. ExtStatus(~replied, effect, mp, NextId) => OutStep
  BY <1>1, StatusOut
<1>3. QED BY <1>2, FrameKeeps, Zenon DEF ReplyMsg, effect, m, OutStep

LEMMA ReplyCommitOut ==
    ASSUME NEW s, NEW g, NEW vp, NEW mp, NEW dp, ReplyCommit(s, g, vp, mp, dp)
    PROVE  OutStep
<1> DEFINE m == [kind |-> "reply", to |-> 0, payload |-> replyBuf]
<1> DEFINE effect == (/\ Dispatch(m) /\ replied' = TRUE
                   /\ UNCHANGED <<handles, replyBuf>>)
<1>1. ~replied /\ effect => OutStep
  BY ReplyOut
<1>2. ExtStatus(~replied, effect, mp, NextId) => OutStep
  BY <1>1, StatusOut
<1>3. QED BY <1>2, FrameKeeps, Zenon DEF ReplyCommit, effect, m, OutStep

\* The builder handlers change handles or the reply buffer, never the
\* queue.
LEMMA BuilderOut ==
    /\ send_init => OutStep
    /\ send_push => OutStep
    /\ reply_push => OutStep
<1>1. send_init => OutStep
  <2> SUFFICES ASSUME send_init PROVE OutStep
    OBVIOUS
  <2> DEFINE effect == /\ handles' = Append(handles, [open |-> TRUE,
                                                    payload |-> << >>])
                       /\ UNCHANGED <<outbox, replyBuf, replied>>
  <2>1. PICK hp \in Args32 :
          \/ PopFailed(<<hp>>)
          \/ PopsOk(<<hp>>) /\ ExtStatus(TRUE, effect, hp, Len(handles))
    BY DEF send_init
  <2>2. TRUE /\ effect => OutStep
    BY DEF OutStep, Keep
  <2>3. ExtStatus(TRUE, effect, hp, Len(handles)) => OutStep
    BY <2>2, StatusOut
  <2>4. QED BY <2>1, <2>3, FrameKeeps DEF OutStep
<1>2. send_push => OutStep
  <2> SUFFICES ASSUME send_push PROVE OutStep
    OBVIOUS
  <2>1. PICK h, pp, pl \in Args32 :
          \/ PopFailed(<<h, pp, pl>>)
          \/ /\ PopsOk(<<h, pp, pl>>)
             /\ \/ CheckFailed(<<ReadRange(pp, pl)>>)
                \/ /\ InMem(pp, pl)
                   /\ PushStatus(OpenHandle(h),
                        /\ handles' = [handles EXCEPT ![h + 1].payload =
                                                         @ \o ReadBytes(pp, pl)]
                        /\ UNCHANGED <<outbox, replyBuf, replied>>)
    BY DEF send_push
  <2> DEFINE effect == /\ handles' = [handles EXCEPT ![h + 1].payload =
                                                       @ \o ReadBytes(pp, pl)]
                       /\ UNCHANGED <<outbox, replyBuf, replied>>
  <2>2. OpenHandle(h) /\ effect => OutStep
    BY DEF OutStep, Keep
  <2>3. PushStatus(OpenHandle(h), effect) => OutStep
    BY <2>2, StatusOut
  <2>4. QED BY <2>1, <2>3, FrameKeeps DEF OutStep
<1>3. reply_push => OutStep
  <2> SUFFICES ASSUME reply_push PROVE OutStep
    OBVIOUS
  <2>1. PICK pp, pl \in Args32 :
          \/ PopFailed(<<pp, pl>>)
          \/ /\ PopsOk(<<pp, pl>>)
             /\ \/ CheckFailed(<<ReadRange(pp, pl)>>)
                \/ /\ InMem(pp, pl)
                   /\ PushStatus(~replied,
                        /\ replyBuf' = replyBuf \o ReadBytes(pp, pl)
                        /\ UNCHANGED <<outbox, handles, replied>>)
    BY DEF reply_push
  <2> DEFINE effect == /\ replyBuf' = replyBuf \o ReadBytes(pp, pl)
                       /\ UNCHANGED <<outbox, handles, replied>>
  <2>2. ~replied /\ effect => OutStep
    BY DEF OutStep, Keep
  <2>3. PushStatus(~replied, effect) => OutStep
    BY <2>2, StatusOut
  <2>4. QED BY <2>1, <2>3, FrameKeeps DEF OutStep
<1>4. QED BY <1>1, <1>2, <1>3

\* The outgoing-message family.
LEMMA MessageOut == MessageSyscall => OutStep
BY SendMsgOut, SendCommitOut, ReplyMsgOut, ReplyCommitOut,
   CreateProgramOut, BuilderOut
DEF MessageSyscall, send, send_wgas, send_commit, send_commit_wgas,
    reply, reply_wgas, reply_commit, reply_commit_wgas, create_program,
    create_program_wgas

\* Every handler runs only while the guest call runs.
LEMMA HandlersRun ==
    (MessageSyscall \/ ControlSyscall \/ QuerySyscall \/ MemorySyscall)
        => phase = "Running"
<1>1. MessageSyscall => phase = "Running"
  <2>1. ASSUME NEW st, NEW g, NEW a1, NEW a2, NEW a3, NEW a4, NEW a5, NEW a6,
               NEW a7, NEW a8
        PROVE  /\ SendMsg(st, g, a1, a2, a3, a4, a5, a6) => phase = "Running"
               /\ SendCommit(st, g, a1, a2, a3, a4, a5) => phase = "Running"
               /\ ReplyMsg(st, g, a1, a2, a3, a4, a5) => phase = "Running"
               /\ ReplyCommit(st, g, a1, a2, a3) => phase = "Running"
               /\ CreateProgram(st, g, a1, a2, a3, a4, a5, a6, a7, a8)
                    => phase = "Running"
    BY DEF SendMsg, SendCommit, ReplyMsg, ReplyCommit, CreateProgram, Issue
  <2>2. send_init \/ send_push \/ reply_push => phase = "Running"
    BY DEF send_init, send_push, reply_push, Issue
  <2>3. QED
    BY <2>1, <2>2, Zenon
    DEF MessageSyscall, send, send_wgas, send_commit, send_commit_wgas,
        reply, reply_wgas, reply_commit, reply_commit_wgas, create_program,
        create_program_wgas
<1>2. ControlSyscall => phase = "Running"
  BY Zenon
  DEF ControlSyscall, exit, leave, wait, wait_for, wait_up_to,
      WaitWithDuration, forbidden, wake, Issue
<1>3. QuerySyscall => phase = "Running"
  BY Zenon
  DEF QuerySyscall, size, block_height, block_timestamp, gas_available,
      exit_code, origin, msg_id, program_id, source, value, value_available,
      WriteQueried, reply_to, Issue
<1>4. MemorySyscall => phase = "Running"
  BY Zenon DEF MemorySyscall, read, gas, alloc, free, debug, error, Issue
<1>5. QED BY <1>1, <1>2, <1>3, <1>4

\* Appending m to the queue adds a reply exactly when m is one.
LEMMA AppendReplied ==
    ASSUME NEW o \in Seq(Msg), NEW m \in Msg
    PROVE  /\ Len(Append(o, m)) = Len(o) + 1
           /\ SubSeq(Append(o, m), 1, Len(o)) = o
           /\ Append(o, m)[Len(Append(o, m))] = m
           /\ (\E i \in 1 .. Len(Append(o, m)) : Append(o, m)[i].kind = "reply")
                <=> \/ \E i \in 1 .. Len(o) : o[i].kind = "reply"
                    \/ m.kind = "reply"
<1>1. /\ Len(Append(o, m)) = Len(o) + 1
      /\ \A i \in 1 .. Len(o) : Append(o, m)[i] = o[i]
      /\ Append(o, m)[Len(o) + 1] = m
  OBVIOUS
<1>2. SubSeq(Append(o, m), 1, Len(o)) = o
  BY <1>1
<1>3. QED BY <1>1, <1>2

\* The invariant the refinement rests on.
RInv == TypeInv /\ RepliedMatches

\* A handler step that traps or leaves phase and err alone, and queues at
\* most one message, is a step of CallOutcome or a stutter of it.
LEMMA HandlerStep ==
    ASSUME RInv, TypeInv', phase = "Running", HandlerEnd, OutStep
    PROVE  [Outcome!Next]_Outcome!vars /\ RepliedMatches'
<1>1. err' \in ErrType /\ outbox \in Seq(Msg) /\ outbox' \in Seq(Msg)
  BY DEF RInv, TypeInv, TypeOK
<1>2. CASE Keep
  <2>1. RepliedMatches'
    BY <1>2 DEF RInv, RepliedMatches, Outcome!Replied, Outcome!IsReply, Keep
  <2>2. CASE phase' = "Trapped"
    BY <1>1, <1>2, <2>1, <2>2
    DEF Outcome!Next, Outcome!Trap, Keep
  <2>3. CASE UNCHANGED <<phase, err>>
    BY <1>2, <2>1, <2>3 DEF Outcome!vars, Keep
  <2>4. QED BY <2>1, <2>2, <2>3 DEF HandlerEnd
<1>3. CASE \E m : Dispatch(m) /\ ReplyOnce(m)
  <2>1. PICK m : Dispatch(m) /\ ReplyOnce(m)
    BY <1>3
  <2>2. m \in Msg
    <3>1. outbox' = Append(outbox, m)
      BY <2>1 DEF Dispatch
    <3>2. Append(outbox, m)[Len(outbox) + 1] = m
      OBVIOUS
    <3>3. QED BY <1>1, <3>1, <3>2
  <2>3. /\ Len(outbox') = Len(outbox) + 1
        /\ SubSeq(outbox', 1, Len(outbox)) = outbox
        /\ outbox'[Len(outbox')] = m
        /\ Outcome!Replied' <=> Outcome!Replied \/ m.kind = "reply"
    BY <1>1, <2>1, <2>2, AppendReplied
    DEF Dispatch, Outcome!Replied, Outcome!IsReply
  <2>4. Outcome!IsReply(m) => ~Outcome!Replied
    BY <2>1 DEF ReplyOnce, RInv, RepliedMatches, Outcome!IsReply
  <2>5. Outcome!QueuedOne
    BY <2>2, <2>3, <2>4 DEF Outcome!QueuedOne
  <2>6. RepliedMatches'
    BY <2>1, <2>3 DEF ReplyOnce, RInv, RepliedMatches
  <2>7. CASE phase' = "Trapped"
    BY <1>1, <2>5, <2>6, <2>7 DEF Outcome!Next, Outcome!Trap
  <2>8. CASE UNCHANGED <<phase, err>>
    BY <2>5, <2>6, <2>8 DEF Outcome!Next, Outcome!Queue
  <2>9. QED BY <2>6, <2>7, <2>8 DEF HandlerEnd
<1>4. QED BY <1>2, <1>3 DEF OutStep
\* The initial state of a guest call is CallOutcome's, with no reply sent.
LEMMA InitRefines == Init => RInv /\ Outcome!Init
<1> SUFFICES ASSUME Init PROVE RInv /\ Outcome!Init
  OBVIOUS
<1>1. TypeInv
  BY InitType
<1>2. RepliedMatches
  BY DEF Init, RepliedMatches, Outcome!Replied
<1>3. QED BY <1>1, <1>2 DEF RInv, Init, Outcome!Init

\* Every step of the sandbox is a step of CallOutcome or a stutter of it,
\* and keeps the invariant.
LEMMA StepRefines == RInv /\ [Next]_vars => RInv' /\ [Outcome!Next]_Outcome!vars
<1> SUFFICES ASSUME RInv, [Next]_vars
             PROVE  RInv' /\ [Outcome!Next]_Outcome!vars
  OBVIOUS
<1>1. TypeInv'
  BY NextType DEF RInv
<1>2. CASE MessageSyscall
  <2>1. phase = "Running" /\ HandlerEnd /\ OutStep
    BY <1>2, HandlersRun, MessageEnds, MessageOut
  <2>2. QED BY <1>1, <2>1, HandlerStep DEF RInv
<1>3. CASE ControlSyscall
  <2>1. phase = "Running" /\ HandlerEnd /\ OutStep
    BY <1>3, HandlersRun, ControlEnds, ControlKeeps DEF OutStep
  <2>2. QED BY <1>1, <2>1, HandlerStep DEF RInv
<1>4. CASE QuerySyscall
  <2>1. phase = "Running" /\ HandlerEnd /\ OutStep
    BY <1>4, HandlersRun, QueryEnds, QueryKeeps DEF OutStep
  <2>2. QED BY <1>1, <2>1, HandlerStep DEF RInv
<1>5. CASE MemorySyscall
  <2>1. phase = "Running" /\ HandlerEnd /\ OutStep
    BY <1>5, HandlersRun, MemoryEnds, MemoryKeeps DEF OutStep
  <2>2. QED BY <1>1, <2>1, HandlerStep DEF RInv
<1>6. CASE GuestReturn
  <2>1. RepliedMatches'
    BY <1>6 DEF GuestReturn, extVars, RInv, RepliedMatches, Outcome!Replied
  <2>2. Outcome!Return
    BY <1>6 DEF GuestReturn, extVars, Outcome!Return
  <2>3. QED BY <1>1, <2>1, <2>2 DEF RInv, Outcome!Next
<1>7. CASE Finished \/ UNCHANGED vars
  <2>1. UNCHANGED vars
    BY <1>7 DEF Finished
  <2>2. RepliedMatches'
    BY <2>1 DEF vars, RInv, RepliedMatches, Outcome!Replied
  <2>3. QED BY <1>1, <2>1, <2>2 DEF RInv, vars, Outcome!vars
<1>8. QED BY <1>2, <1>3, <1>4, <1>5, <1>6, <1>7 DEF Next

\* The sandbox's syscall layer implements CallOutcome: whatever syscalls
\* the guest issues, the host sees a call that traps or returns once, with
\* a trap reason only from the trapping step, and a queue that grows by one
\* message per step and holds at most one reply (funcs.rs, the message
\* family and reply_commit's replied check).
THEOREM Refinement == Spec => OutcomeSpec
<1>1. Init => RInv /\ Outcome!Init
  BY InitRefines
<1>2. RInv /\ [Next]_vars => RInv' /\ [Outcome!Next]_Outcome!vars
  BY StepRefines
<1>3. QED BY <1>1, <1>2, PTL DEF Spec, OutcomeSpec, Outcome!Spec

=============================================================================

----------------------------- MODULE CallOutcome -----------------------------
(***************************************************************************)
(* What one guest call promises the host that runs it, whatever syscalls   *)
(* the guest issues in between (spec.md, "TrapContext" and "Propagation    *)
(* policy").  The host observes three things: whether the call is still    *)
(* running, trapped or returned; the reason in the trap context; and the   *)
(* messages the call queued.  The promise:                                 *)
(*   - the trap context holds a reason only from the step that ends the    *)
(*     call with a trap, and is never written afterwards;                  *)
(*   - the queue only grows, by one message per step, and never after the  *)
(*     call has ended;                                                     *)
(*   - a call queues at most one reply.                                    *)
(* A trapping step may still queue its message: funcs.rs queues before it  *)
(* writes the id back (error_len_on_success), and that write can trap.     *)
(***************************************************************************)
EXTENDS Naturals, Sequences

CONSTANTS
    Msg,        \* the messages a call can queue
    Reason,     \* the reasons a trap can record
    NoReason    \* the trap context of a call that has not trapped

VARIABLES phase, err, outbox

vars == <<phase, err, outbox>>

IsReply(m) == m.kind = "reply"

\* The call has already queued its reply.
Replied == \E i \in 1 .. Len(outbox) : IsReply(outbox[i])

\* The step appends exactly one message to the queue, and no second reply.
QueuedOne ==
    /\ Len(outbox') = Len(outbox) + 1
    /\ SubSeq(outbox', 1, Len(outbox)) = outbox
    /\ outbox'[Len(outbox')] \in Msg
    /\ IsReply(outbox'[Len(outbox')]) => ~Replied

Init ==
    /\ phase = "Running"
    /\ err = NoReason
    /\ outbox = << >>

\* A syscall queues a message and the call goes on.
Queue ==
    /\ phase = "Running"
    /\ QueuedOne
    /\ UNCHANGED <<phase, err>>

\* The guest's entry point returns.
Return ==
    /\ phase = "Running"
    /\ phase' = "Returned"
    /\ UNCHANGED <<err, outbox>>

\* A syscall ends the call with a trap, having queued at most one message.
Trap ==
    /\ phase = "Running"
    /\ phase' = "Trapped"
    /\ err' \in Reason
    /\ UNCHANGED outbox \/ QueuedOne

Next == Queue \/ Return \/ Trap

Spec == Init /\ [][Next]_vars

=============================================================================

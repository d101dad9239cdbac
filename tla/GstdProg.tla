------------------------------ MODULE GstdProg ------------------------------
(***************************************************************************)
(* gstd::prog (src/gstd/src/prog/mod.rs) composed with the syscall layer.  *)
(* A program written against gstd creates programs with create_program,    *)
(* create_program_delayed, create_program_with_gas and                     *)
(* create_program_with_gas_delayed.  Each forwards to gcore::prog, which    *)
(* issues the create_program / create_program_wgas syscall, and maps the   *)
(* gcore result with `?' and `id.into()'.                                  *)
(*                                                                         *)
(* gcore is not under src/; it is modelled from the syscall's contract     *)
(* (spec.md, outgoing-message family).  gcore passes the code hash, the    *)
(* value, the delay and the program-id out-buffer from its own stack, and  *)
(* the salt and the payload as slices, so every pointer and range it hands *)
(* the syscall lies in guest memory.  A status of 0 makes gcore read the   *)
(* new id back from the out-buffer; any other status is the length of an   *)
(* Ext error and becomes Err.  A syscall that traps never returns to the    *)
(* program.  The delay only travels to Ext, so the _delayed variants are   *)
(* the same actions as the plain ones.                                     *)
(***************************************************************************)
EXTENDS Syscalls

VARIABLE result     \* what the last gstd call returned to the program

gvars == <<vars, result>>

\* Result<ActorId>: nothing returned yet, Ok(id), or Err carrying the
\* length of the Ext error.
NoResult == [tag |-> "None", val |-> 0]
Ok(id) == [tag |-> "Ok", val |-> id]
ExtErr(len) == [tag |-> "Err", val |-> len]

\* gcore's reading of the syscall's outcome, after it returned.
GcoreResult(prp) ==
    IF ret' = Val(AsI32(0)) THEN Ok(mem'[prp]) ELSE ExtErr(lastError')

\* gstd -> gcore -> syscall s, with the pointers gcore builds.
GstdCreate(s, g) ==
    \E ch, vp, prp, dp, sp, pp \in Addr, sl, pl \in 0 .. MemSize :
        /\ InMem(sp, sl) /\ InMem(pp, pl)
        /\ CreateProgram(s, g, ch, sp, sl, pp, pl, vp, prp, dp)
        /\ result' = IF phase' = "Running" THEN GcoreResult(prp) ELSE result

\* gstd::prog::create_program and create_program_delayed.
gstd_create_program == GstdCreate("create_program", NoGas)

\* gstd::prog::create_program_with_gas and create_program_with_gas_delayed:
\* the u64 gas limit reaches the syscall as the i64 with the same bits.
gstd_create_program_with_gas ==
    \E g \in Args64 : GstdCreate("create_program_wgas", g)

GInit == Init /\ result = NoResult

GNext ==
    \/ gstd_create_program
    \/ gstd_create_program_with_gas
    \/ (error \/ GuestReturn \/ Finished) /\ UNCHANGED result

GSpec == GInit /\ [][GNext]_gvars

\* A gstd create_program call that returns to the program does one of two
\* things. It returns Ok(id) when the call queued exactly one InitPacket,
\* and then id is the id Ext handed out for it, which gcore read back from
\* the buffer error_len_on_success wrote. Or it returns Err(len) when it
\* queued nothing, and then len is the error length a following `error`
\* call reports.
GstdResultStep ==
    (Issued /\ phase' = "Running"
     /\ sys' \in {"create_program", "create_program_wgas"}) =>
        \/ /\ result'.tag = "Ok"
           /\ Len(outbox') = Len(outbox) + 1
           /\ outbox'[Len(outbox')].kind = "init"
           /\ result'.val = Len(outbox')
        \/ /\ result'.tag = "Err"
           /\ outbox' = outbox
           /\ lastError' \in ErrLens
           /\ result'.val = lastError'

\* Every step of a program using gstd keeps the result contract of
\* create_program.
GstdResultContract == [][GstdResultStep]_gvars

=============================================================================
